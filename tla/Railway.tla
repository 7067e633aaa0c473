---------------------------------- MODULE Railway ----------------------------------
(* The train simulator of tools/train with layout 1, without the Zamboni: the     *)
(* train, the wagon that it hooks up, the switches, the contacts, and the thread  *)
(* that executes the commands which come over the serial line.  Time passes in    *)
(* the steps of the simulation, of 50 ms; a place is what a vehicle reaches in    *)
(* one of them at full speed, 16 to a tile.                                       *)
EXTENDS Integers, Sequences, SequencesExt, FiniteSets

CONSTANTS
  Configurations,         \* which of the four initial positions
  detected_time_interval  \* in ms

VARIABLES
  train, wagon,    \* [at, from, to, place]: the tile and the access points of the segment
  speed, ticks,
  attached,        \* wagon_is_attached
  switches,          \* setting of each switch, "G" or "R"
  pre_cmd,         \* whether the last command was R
  aborted,         \* why the simulation was aborted
  command_buffer,  \* the commands received, each with the time since the one before
  since,           \* the time since the last of them
  doing,           \* the command or the answer that the thread is about, or Poll
  left,            \* until it wakes up, at the latest
  last_factor      \* the delay that this factor gives
vehicle_vars == <<train, wagon, speed, ticks, attached, switches, pre_cmd, aborted>>
thread_vars == <<command_buffer, since, doing, left, last_factor>>

-------------------------------------------------------------------------------
(* The layout: segments join two access points of a tile.                     *)

Plain == {
  [ends |-> {"w", "e"}, at |-> {<<3, 0>>, <<5, 0>>, <<6, 0>>, <<7, 0>>, <<8, 0>>, <<9, 0>>,
     <<11, 0>>, <<10, 7>>, <<12, 7>>, <<4, 8>>, <<5, 8>>, <<5, 9>>, <<6, 9>>, <<5, 10>>,
     <<6, 10>>, <<7, 10>>, <<8, 10>>, <<9, 10>>}],
  [ends |-> {"n", "s"}, at |-> {<<0, 3>>, <<6, 3>>, <<0, 4>>, <<6, 4>>, <<15, 4>>, <<0, 5>>,
     <<6, 5>>, <<15, 6>>}],
  [ends |-> {"sw", "ne"}, at |-> {<<1, 1>>, <<9, 1>>, <<14, 6>>, <<7, 7>>, <<8, 8>>, <<12, 8>>,
     <<14, 8>>, <<11, 9>>, <<13, 9>>}],
  [ends |-> {"nw", "se"}, at |-> {<<13, 1>>, <<7, 2>>, <<14, 2>>, <<9, 5>>, <<10, 6>>, <<1, 7>>,
     <<3, 9>>}],
  [ends |-> {"nw", "e"}, at |-> {<<4, 9>>, <<4, 10>>}],
  [ends |-> {"sw", "e"}, at |-> {<<2, 0>>, <<9, 7>>}],
  [ends |-> {"w", "ne"}, at |-> {<<6, 8>>, <<7, 9>>, <<10, 10>>}],
  [ends |-> {"w", "se"}, at |-> {<<12, 0>>, <<6, 1>>}],
  [ends |-> {"n", "se"}, at |-> {<<8, 4>>, <<0, 6>>}],
  [ends |-> {"n", "sw"}, at |-> {<<15, 7>>}],
  [ends |-> {"ne", "s"}, at |-> {<<0, 2>>, <<8, 2>>}],
  [ends |-> {"nw", "s"}, at |-> {<<6, 2>>, <<15, 3>>}]}

\* The tile of each switch with its green and its red segment.
Switches == <<
  [at |-> <<13, 7>>, G |-> {"sw", "ne"}, R |-> {"w", "ne"}],
  [at |-> <<11, 7>>, G |-> {"w", "e"},   R |-> {"nw", "e"}],
  [at |-> <<3, 8>>,  G |-> {"w", "se"},  R |-> {"w", "e"}],
  [at |-> <<2, 8>>,  G |-> {"nw", "se"}, R |-> {"nw", "e"}],
  [at |-> <<4, 0>>,  G |-> {"w", "e"},   R |-> {"w", "se"}],
  [at |-> <<5, 1>>,  G |-> {"nw", "e"},  R |-> {"nw", "se"}],
  [at |-> <<8, 3>>,  G |-> {"nw", "s"},  R |-> {"n", "s"}],
  [at |-> <<10, 0>>, G |-> {"w", "e"},   R |-> {"sw", "e"}],
  [at |-> <<15, 5>>, G |-> {"n", "s"},   R |-> {"n", "sw"}]>>

\* The tiles of the contacts that the program asks for.
Contact(c) ==
  CASE c = 1  -> {<<8, 8>>, <<9, 7>>, <<10, 7>>}
    [] c = 5  -> {<<5, 8>>, <<7, 7>>, <<4, 8>>, <<6, 8>>}
    [] c = 6  -> {<<0, 6>>, <<0, 5>>, <<1, 7>>}
    [] c = 8  -> {<<6, 3>>, <<6, 2>>, <<6, 4>>, <<6, 5>>}
    [] c = 12 -> {<<9, 5>>, <<8, 4>>, <<10, 6>>}
    [] c = 13 -> {<<12, 0>>, <<11, 0>>, <<13, 1>>}

\* Where wagon and train are put, and by which access point they enter.
Configuration == <<
  [wagon |-> <<<<6, 9>>, "e">>,   train |-> <<<<6, 3>>, "n">>],
  [wagon |-> <<<<6, 9>>, "e">>,   train |-> <<<<6, 3>>, "n">>],
  [wagon |-> <<<<8, 2>>, "s">>,   train |-> <<<<5, 8>>, "w">>],
  [wagon |-> <<<<15, 7>>, "sw">>, train |-> <<<<5, 8>>, "w">>]>>

-------------------------------------------------------------------------------
(* Vehicles.                                                                  *)

East == [d \in {"n", "ne", "e", "se", "s", "sw", "w", "nw"} |->
           CASE d \in {"ne", "e", "se"} -> 1 [] d \in {"nw", "w", "sw"} -> -1 [] OTHER -> 0]
South == [d \in DOMAIN East |->
            CASE d \in {"se", "s", "sw"} -> 1 [] d \in {"ne", "n", "nw"} -> -1 [] OTHER -> 0]
Beyond(at, to) == <<at[1] + East[to], at[2] + South[to]>>
Facing(to) == CHOOSE d \in DOMAIN East : East[d] = -East[to] /\ South[d] = -South[to]

\* The segments of a tile, the one that its switch is set to first.
Segments(at, settings) ==
  LET s == {k \in DOMAIN Switches : Switches[k].at = at}
  IN  IF s = {} THEN SetToSeq({p.ends : p \in {q \in Plain : at \in q.at}})
      ELSE LET w == Switches[CHOOSE k \in s : TRUE]
           IN  IF settings[CHOOSE k \in s : TRUE] = "G" THEN <<w.G, w.R>> ELSE <<w.R, w.G>>

\* Tile.enter_vehicle: a vehicle takes the segment that the switch is set to if
\* that one begins where it enters, or else one that does.
Ways(at, entry) == SelectSeq(Segments(at, switches), LAMBDA s : entry \in s)
enter_vehicle(at, entry) ==
  [at |-> at, from |-> entry, to |-> CHOOSE d \in Ways(at, entry)[1] : d # entry, place |-> 0]

\* At its last place a vehicle is outside its tile.
Outside == 15
reverse_direction(v) == [v EXCEPT !.from = v.to, !.to = v.from, !.place = Outside - v.place]

\* Variant: the tile behind is looked for on the wrong side.
move_back(v) ==
  IF v.place < Outside THEN [v EXCEPT !.place = @ + 1]
  ELSE enter_vehicle(Beyond(v.at, v.from), Facing(v.from))

EndOfTrack(v) == v.place = Outside /\ Ways(Beyond(v.at, v.to), Facing(v.to)) = << >>
move(v) == IF v.place < Outside THEN [v EXCEPT !.place = @ + 1]
           ELSE enter_vehicle(Beyond(v.at, v.to), Facing(v.to))

\* Train and wagon collide at ten points, five places, or up to two less where
\* the track bends.  The wagon stands where it entered its tile.
collides(v) ==
  CASE \/ v.place < 10
       \/ /\ <<Beyond(v.at, v.to), Facing(v.to)>> # <<wagon.at, wagon.from>>
          /\ <<v.at, v.to>> # <<wagon.at, wagon.from>>  -> {FALSE}
    [] v.place \in 10 .. 11                              -> {FALSE, TRUE}
    [] OTHER                                             -> {TRUE}

\* Train.move: a wagon that it has just reached, or that is attached, moves too.
Train_move ==
  IF EndOfTrack(train)
  THEN aborted' = "Ran out of track" /\ UNCHANGED <<train, wagon, attached>>
  ELSE /\ train' = move(train)
       /\ attached' \in IF attached THEN {TRUE} ELSE collides(train')
       /\ LET w == IF ~attached /\ train'.at = wagon.at THEN reverse_direction(wagon)
                                                       ELSE wagon
          IN  IF attached'
              THEN /\ wagon' = IF EndOfTrack(w) THEN w ELSE move(w)
                   /\ aborted' = IF EndOfTrack(w) THEN "Ran out of track" ELSE aborted
              ELSE UNCHANGED <<wagon, aborted>>

\* A train that has been set in motion moves from the second step on.
next_simulation_step ==
  /\ IF speed > 0 /\ ticks = 0
     THEN Train_move /\ UNCHANGED ticks
     ELSE /\ ticks' = IF speed > 0 THEN ticks - 1 ELSE ticks
          /\ UNCHANGED <<train, wagon, attached, aborted>>
  /\ UNCHANGED <<speed, switches, pre_cmd>>

Occupied(c) == {train.at, wagon.at} \cap Contact(c) # {}

-------------------------------------------------------------------------------
(* Commands: M sets a switch, S the speed to 0 or 5, D turns the train, R        *)
(* clears the contacts' memory, and C asks for a contact.                        *)

process_train_command(c) ==
  /\ switches' = IF c.name = "M" THEN [switches EXCEPT ![c.id] = c.to] ELSE switches
  /\ IF c.name = "S" THEN speed' = c.id /\ ticks' = 6 - c.id ELSE UNCHANGED <<speed, ticks>>
  /\ IF c.name = "D" /\ speed = 0
     THEN /\ train' = reverse_direction(train)
          /\ wagon' = IF attached THEN reverse_direction(wagon) ELSE wagon
     ELSE UNCHANGED <<train, wagon>>
  /\ aborted' = CASE c.name = "D" /\ speed # 0 ->
                        "Can not reverse direction while train is moving"
                   [] c.name = "C" /\ ~pre_cmd -> "s88 memory buffer has not been cleaned"
                   [] OTHER -> aborted
  /\ pre_cmd' = (c.name = "R")
  /\ UNCHANGED attached

Running == aborted = "no"
Poll == [name |-> "poll"]
Status(c) == [name |-> "status", value |-> IF Occupied(c) THEN "1" ELSE "0"]

\* An interval from which on the factor is 10 or more, and not used.
Long == (10 * detected_time_interval) \div 50 + 1

RailwayInit ==
  /\ switches \in [DOMAIN Switches -> {"G", "R"}]
  /\ \E k \in Configurations :
       /\ wagon = enter_vehicle(Configuration[k].wagon[1], Configuration[k].wagon[2])
       /\ train = reverse_direction(
                    enter_vehicle(Configuration[k].train[1], Configuration[k].train[2]))
  /\ speed = 0 /\ ticks = 6 /\ attached = FALSE
  /\ pre_cmd = FALSE /\ aborted = "no"
  /\ command_buffer = << >> /\ since = Long
  /\ doing = Poll /\ left \in 1 .. 6 /\ last_factor = 2

-------------------------------------------------------------------------------
(* The two threads of the serial line: one notes when a command came, the other  *)
(* executes them one after the other, each after a delay in proportion to the    *)
(* time between it and the one before.                                           *)

read_command(c) ==
  /\ command_buffer' = Append(command_buffer, [cmd |-> c, after |-> since])
  /\ since' = 0

\* Variant: the delay is as long as the interval.
delay_time_whole(interval) ==
  IF interval * 50 < 10 * detected_time_interval THEN interval ELSE last_factor

delay_time(interval) ==
  IF interval * 50 < 10 * detected_time_interval
  THEN (interval * 100) \div detected_time_interval ELSE last_factor

\* The thread looks for a command every 0.3 s.  One that it takes is executed after
\* 0.1 s, the delay and, if it stops the train, 0.2 s; the delay is some part of a
\* step longer than the number.
get_next_command ==
  /\ Running /\ doing = Poll /\ left = 0
  /\ IF command_buffer = << >>
     THEN left' = 6 /\ UNCHANGED <<doing, last_factor, command_buffer>>
     ELSE LET c == Head(command_buffer)
          IN  /\ doing' = c.cmd
              /\ last_factor' = delay_time(c.after)
              /\ left' = 2 + last_factor' + (IF c.cmd = [name |-> "S", id |-> 0] THEN 4 ELSE 0) + 1
              /\ command_buffer' = Tail(command_buffer)
  /\ UNCHANGED <<vehicle_vars, since>>

\* The status of a contact is sent after another 0.1 s.
execute ==
  /\ Running /\ doing.name \notin {"poll", "status"} /\ left <= 1
  /\ process_train_command(doing)
  /\ IF doing.name = "C" THEN doing' = Status(doing.id) /\ left' = 2
                         ELSE doing' = Poll /\ left' = 0
  /\ UNCHANGED <<command_buffer, since, last_factor>>

\* A step of the simulation, while no thread has anything to do.
railway_passes ==
  /\ Running /\ left > 0
  /\ next_simulation_step
  /\ left' = left - 1
  /\ since' = IF since < Long THEN since + 1 ELSE since
  /\ UNCHANGED <<command_buffer, doing, last_factor>>
===============================================================================
