---------------------------------- MODULE Com ----------------------------------
(* com.c on the kernel: com_process takes the requests of clients, hands each *)
(* to com_reader_process, writes the command to the UART and waits for the    *)
(* reader, which collects the answer byte by byte from COM1 interrupts.  The  *)
(* device at the other end of the line answers every command with as many     *)
(* bytes as its sender expects.                                               *)
EXTENDS Kernel

CONSTANTS
  Client,                \* processes that call send(com_port, &msg)
  com, com_reader,       \* the two processes, of priority 6 and 7
  com_port, reader_port,
  COM1_IRQ,
  CmdLen,                \* length of output_buffer
  Lens                   \* values of len_input_buffer

\* A COM_Message of p that expects n bytes: &msg of the client, the same
\* pointer as com_process passes it on, and &msg of the reader.
Order(p, n) == <<p, n>>
Job(p, n) == <<p, n, "job">>
Done == <<"done">>

ComAssumption ==
  /\ Lens \subseteq Nat /\ CmdLen \in Nat \ {0}
  /\ Request = {Order(p, n) : p \in Client, n \in Lens}
  /\ Note = {Job(p, n) : p \in Client, n \in Lens} \cup {Done}
  /\ com \in Proc \ {Boot} /\ com_reader \in Proc \ {Boot, com}
  /\ Client \subseteq Proc \ {Boot, com, com_reader}
  /\ com_port \in Port /\ owner[com_port] = com
  /\ reader_port \in Port /\ owner[reader_port] = com_reader
  /\ COM1_IRQ \in Irq /\ isr[COM1_IRQ] = "com1"

VARIABLES
  pc,           \* where com and com_reader are
  sender_proc,  \* of com_process
  cmd,          \* characters of the command still to be written
  i,            \* bytes that the reader has stored
  input_buffer, \* the buffer of each client's message
  uart,         \* the character it sends or NULL: the bytes the device
                \* answers to it, which are none but for a command's last
  answer        \* bytes the device is going to send

local == <<pc, sender_proc, cmd, i, input_buffer>>
line == <<uart, answer>>
com_vars == <<vars, local, line>>

ComInit ==
  /\ Init
  /\ pc = [p \in {com, com_reader} |-> "start"]
  /\ sender_proc = NULL
  /\ cmd = 0
  /\ i = 0
  /\ input_buffer = [p \in Client |-> << >>]
  /\ uart = NULL /\ answer = << >>

Goes(p, a, b) == pc[p] = a /\ pc' = [pc EXCEPT ![p] = b]

create(p) ==
  /\ p \in Client \cup {com}
  /\ create_process(Boot, p)
  /\ UNCHANGED <<local, line>>

\* send(com_port, &msg)
request(p, n) ==
  /\ resume[com] # "new"
  /\ send(p, com_port, Order(p, n))
  /\ input_buffer' = [input_buffer EXCEPT ![p] = << >>]
  /\ UNCHANGED <<pc, sender_proc, cmd, i, line>>

-------------------------------------------------------------------------------
(* com_process()                                                             *)

com_start ==
  /\ Goes(com, "start", "first")
  /\ create_process(com, com_reader)
  /\ UNCHANGED <<sender_proc, cmd, i, input_buffer, line>>

\* receive(&...) at place a, after which com goes on at b.
com_receive(a, b) ==
  /\ pc[com] = a
  /\ \/ receive_wait(com) /\ UNCHANGED <<pc, sender_proc>>
     \/ /\ receive_pending(com) \/ receive_resume(com)
        /\ Goes(com, a, b)
        /\ sender_proc' = IF a = "first" THEN got'[com].sender ELSE sender_proc
  /\ UNCHANGED <<cmd, i, input_buffer, line>>

\* message(com_reader_port, msg).  What is not a COM_Message is not followed.
com_tell_reader ==
  /\ Running(com)
  /\ got[com].data \in Request
  /\ Goes(com, "tell", "write")
  /\ message(com, reader_port, Job(got[com].data[1], got[com].data[2]))
  /\ cmd' = CmdLen
  /\ UNCHANGED <<sender_proc, i, input_buffer, line>>

\* send_cmd_to_com(): polls the line status, writes, and ends at '\0'.
com_write ==
  /\ Running(com)
  /\ \/ /\ pc[com] = "write" /\ cmd > 0 /\ uart = NULL
        /\ uart' = IF cmd > 1 THEN << >> ELSE [k \in 1 .. got[com].data[2] |-> k]
        /\ cmd' = cmd - 1
        /\ UNCHANGED pc
     \/ cmd = 0 /\ Goes(com, "write", "second") /\ UNCHANGED <<cmd, uart>>
  /\ UNCHANGED <<vars, sender_proc, i, input_buffer, answer>>

com_reply ==
  /\ Goes(com, "answer", "first")
  /\ reply(com, sender_proc)
  /\ UNCHANGED <<sender_proc, cmd, i, input_buffer, line>>

com_steps ==
  \/ com_start
  \/ com_receive("first", "tell")
  \/ com_tell_reader
  \/ com_write
  \/ com_receive("second", "answer")
  \/ com_reply

-------------------------------------------------------------------------------
(* com_reader_process()                                                      *)

reader_receive ==
  /\ pc[com_reader] = "start"
  /\ \/ receive_wait(com_reader) /\ UNCHANGED <<pc, i>>
     \/ /\ receive_pending(com_reader) \/ receive_resume(com_reader)
        /\ Goes(com_reader, "start", "loop")
        /\ i' = 0
  /\ UNCHANGED <<sender_proc, cmd, input_buffer, line>>

\* Variants: one byte too early, and one too late.
Complete_early == i + 1 >= got[com_reader].data[2]
Complete_late == i = got[com_reader].data[2] + 1

Complete == i = got[com_reader].data[2]

reader_wait ==
  /\ Goes(com_reader, "loop", "waiting")
  /\ ~Complete
  /\ wait_for_interrupt(com_reader, COM1_IRQ)
  /\ UNCHANGED <<sender_proc, cmd, i, input_buffer, line>>

reader_woken ==
  /\ Goes(com_reader, "waiting", "store")
  /\ wait_resume(com_reader)
  /\ UNCHANGED <<sender_proc, cmd, i, input_buffer, line>>

\* Reads the byte out of the UART.
reader_store ==
  /\ Running(com_reader)
  /\ Goes(com_reader, "store", "loop")
  /\ input_buffer' = [input_buffer EXCEPT ![got[com_reader].data[1]] =
                        Append(@, Head(answer))]
  /\ answer' = Tail(answer)
  /\ i' = i + 1
  /\ UNCHANGED <<vars, sender_proc, cmd, uart>>

reader_report ==
  /\ Goes(com_reader, "loop", "start")
  /\ Complete
  /\ message(com_reader, com_port, Done)
  /\ UNCHANGED <<sender_proc, cmd, i, input_buffer, line>>

reader_steps ==
  reader_receive \/ reader_wait \/ reader_woken \/ reader_store \/ reader_report

-------------------------------------------------------------------------------
(* The line.                                                                 *)

\* The UART has sent a character; the device answers a complete command.
transmit ==
  /\ uart # NULL /\ fault = "none"
  /\ uart' = NULL
  /\ answer' = answer \o uart
  /\ UNCHANGED <<vars, local>>

\* A byte takes some milliseconds at 2400 baud: the reader, which nobody of
\* its priority delays, has come to rest before the next one arrives.
isr_com1 ==
  /\ answer # << >>
  /\ com_reader \notin Queued(rq)
  /\ interrupt(COM1_IRQ)
  /\ UNCHANGED <<local, line>>

ComNext ==
  \/ \E p \in Proc : create(p)
  \/ \E p \in Client, n \in Lens : request(p, n)
  \/ com_steps
  \/ reader_steps
  \/ transmit
  \/ isr_com1
  \/ \E p \in {Boot} \cup Client : resign(p) /\ UNCHANGED <<local, line>>
  \/ halt /\ UNCHANGED <<local, line>>

ComSpec == ComInit /\ [][ComNext]_com_vars

-------------------------------------------------------------------------------
(* Properties.                                                               *)

\* A client that gets the CPU back from send() finds the whole answer to its
\* own command in its buffer, in order.
AnswerComplete ==
  \A p \in Client :
    state[p] = "READY" /\ param_data[p] # NULL
      => input_buffer[p] = [k \in 1 .. param_data[p][2] |-> k]

\* com.c:84 says it, commented out: what the second receive() of com_process takes
\* is the message of the reader.
SecondIsReader == pc[com] = "answer" => got[com].sender = com_reader

Asking(p) == state[p] # "READY"
Answered(p) == state[p] = "READY" \/ fault # "none"
===============================================================================
