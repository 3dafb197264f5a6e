-------------------------- MODULE Interrupts_proofs --------------------------
(***************************************************************************)
(* Proofs about interrupts, for every set of lines that includes the       *)
(* keyboard's, every mask the firmware may leave, every exception and      *)
(* every bound on keyboard_init's waits.                                   *)
(***************************************************************************)
EXTENDS Interrupts, SequenceTheorems, TLAPS

-----------------------------------------------------------------------------
(* The end-of-interrupt command.                                           *)

LEMMA ChipValue == \A j \in 0 .. 15 : chip(j) = 0 <=> j < 8
    BY DEF chip

(* The lines in service on the master.                                     *)
Master(S) == {j \in S : j < 8}

(* A command to the master ends the one line that it serves, if any, and   *)
(* leaves the slave alone.                                                 *)
LEMMA EndedMaster ==
    ASSUME NEW S \in SUBSET (0 .. 15), NEW k, Master(S) \subseteq {k}
    PROVE  ended(S, 0) = S \ Master(S)
<1> DEFINE T == {j \in S : chip(j) = 0}
<1>1. T = Master(S)
    BY ChipValue DEF Master
<1>2. CASE T = {}
    BY <1>1, <1>2 DEF ended
<1>3. CASE T # {}
  <2>1. T = {k} /\ k \in 0 .. 15
    BY <1>1, <1>3 DEF Master
  <2>2. Min(T) = k
    BY <2>1 DEF Min
  <2> QED
    BY <1>1, <1>3, <2>1, <2>2 DEF ended
<1> QED
    BY <1>2, <1>3

-----------------------------------------------------------------------------
(* Stack frames.                                                           *)

(* interrupt_handler takes a vector for the keyboard's only if it is.      *)
LEMMA IntNo == \A v \in 0 .. 47 : int_no(v) = 33 <=> v = 33
<1> SUFFICES ASSUME NEW v \in 0 .. 47
             PROVE  int_no(v) = 33 <=> v = 33
    OBVIOUS
<1>1. CASE v \in {9, 14}
    BY <1>1 DEF int_no, frame, stub_push, cpu_push, Resumed, ErrorCode, EIP, CS, EFLAGS, ERROR, OLDER
<1>2. CASE v \notin {9, 14}
    BY <1>2 DEF int_no, frame, stub_push, cpu_push, Resumed, ErrorCode, EIP, CS, EFLAGS, ERROR, OLDER
<1> QED
    BY <1>1, <1>2

(* The stub of a hardware interrupt hands iret what the processor pushed.  *)
LEMMA HardwareFrame == \A v \in 32 .. 47 : iret(v) = Resumed
<1> SUFFICES ASSUME NEW v \in 32 .. 47
             PROVE  iret(v) = Resumed
    OBVIOUS
<1>1. v \notin {9, 14} /\ v \notin ErrorCode
    BY DEF ErrorCode
<1>2. /\ frame(v) \in Seq(Int) /\ Len(frame(v)) = 6
      /\ frame(v)[3] = EIP /\ frame(v)[4] = CS /\ frame(v)[5] = EFLAGS
    BY <1>1 DEF frame, stub_push, cpu_push, Resumed, EIP, CS, EFLAGS, OLDER
<1>3. \A i \in 3 .. 5 : frame(v)[i] \in Int
    BY <1>2 DEF EIP, CS, EFLAGS
<1>4. /\ iret(v) \in Seq(Int) /\ Len(iret(v)) = 3
      /\ \A i \in 1 .. 3 : iret(v)[i] = frame(v)[i + 2]
    BY <1>3, SubSeqProperties DEF iret
<1>5. iret(v)[1] = EIP /\ iret(v)[2] = CS /\ iret(v)[3] = EFLAGS
    BY <1>2, <1>4
<1> QED
    BY <1>4, <1>5 DEF Resumed

-----------------------------------------------------------------------------
(* The inductive invariant.                                                *)

Entered == [vector : 0 .. 47, returned : BOOLEAN]

(* One interrupt at a time, and none is handled while the interrupt flag   *)
(* is set or before it was set for the first time.                         *)
NoNesting ==
    /\ active = << >> \/ \E r \in Entered : active = <<r>>
    /\ ifl => active = << >>
    /\ pc \in {"install", "sti"} => ~ifl /\ active = << >>

(* The keyboard's port is on, or about to be, with no command to turn it   *)
(* off under way; from where keyboard_init turns it off to where it turns  *)
(* it on again there is only the one way out, at the second wait.  As long *)
(* as the stub has not spoiled AL, AE is what is sent, and F4 is sent only *)
(* when AE was taken.                                                      *)
PortOn == ibf = "AE" \/ (enabled /\ ibf # "AD")
AeTaken == pc = "wait3" /\ (step = "out" \/ (step = "test" /\ al = "clear"))
Unspoiled ==
    /\ pc = "flush" /\ step = "out" => al = "AE"
    /\ pc = "wait3" /\ step = "out" => al = "F4"
    /\ pc \in {"wait3", "ack"} => PortOn
    /\ AeTaken => ibf = "none"
    /\ pc = "run" /\ gave_up # "wait2" => PortOn
PortState ==
    /\ pc \in {"install", "sti", "wait1"} => enabled /\ ibf = "none"
    /\ pc \notin {"wait1", "wait2", "flush", "wait3", "ack", "wild"} => step = "poll"
    /\ step = "out" => al \in {"AD", "A7", "AE", "F4", "20"}
    /\ ~spoiled => Unspoiled

MouseLine == mouse => MOUSE \in Lines

Types ==
    /\ requested \subseteq Lines
    /\ in_service \subseteq Lines \cup {CASCADE}
    /\ masked \subseteq 0 .. 15
    /\ late \in {0, 39, 47}
    /\ ifl \in BOOLEAN
    /\ obf \in {"none", "key", "mouse", "answer"}
    /\ ibf \in {"none", "AD", "A7", "AE", "F4", "20"}
    /\ enabled \in BOOLEAN /\ aux \in BOOLEAN /\ scanning \in BOOLEAN /\ mouse \in BOOLEAN
    /\ pc \in {"install", "sti", "wait1", "wait2", "flush", "drain", "wait3", "ack",
               "run", "wild"}
    /\ timeout \in 0 .. POLLS
    /\ step \in {"poll", "test", "out"}
    /\ al \in {"dead", "set", "clear", "AD", "A7", "AE", "F4", "20"}
    /\ gave_up \in {"none"} \cup Waits
    /\ spoiled \in BOOLEAN

IInv == Types /\ NoNesting /\ PortState /\ MouseLine /\ EoiMatched

LEMMA InitIInv == Init => IInv
<1> SUFFICES ASSUME Init PROVE IInv
    OBVIOUS
<1>1. MouseLine /\ mouse \in BOOLEAN
  <2>1. mouse \in Mice /\ Mice \subseteq BOOLEAN /\ (TRUE \in Mice => MOUSE \in Lines)
    BY LinesAssumption DEF Init
  <2> QED
    BY <2>1, Zenon DEF MouseLine
<1>3. Types
  <2>1. masked \subseteq 0 .. 15 /\ POLLS \in 0 .. POLLS
    BY LinesAssumption DEF Init
  <2> QED
    BY <1>1, <2>1 DEF Init, Types
<1>2. NoNesting /\ PortState /\ EoiMatched
    BY DEF Init, NoNesting, PortState, Unspoiled, AeTaken, EoiMatched, PortOn
<1> QED
    BY <1>1, <1>2, <1>3 DEF IInv

(* What is in service on the master while nothing, a line of the master or *)
(* a line of the slave is handled.                                         *)
LEMMA MasterServes ==
    ASSUME IInv
    PROVE  /\ in_service \in SUBSET (0 .. 15)
           /\ active = << >> => Master(in_service) = {}
           /\ \E k : Master(in_service) \subseteq {k}
           /\ Handled = 33 => Master(in_service) \subseteq {KEYBOARD}
<1>1. in_service \in SUBSET (0 .. 15)
    BY LinesAssumption DEF IInv, Types, CASCADE
<1>2. active = << >> => Master(in_service) = {}
  <2> SUFFICES ASSUME active = << >>, NEW j \in Master(in_service) PROVE FALSE
    OBVIOUS
  <2>1. j \in in_service /\ j \in 0 .. 7
    BY <1>1 DEF Master
  <2>2. Handled = 32 + j
    BY <2>1 DEF IInv, EoiMatched, Handled
  <2> QED
    BY <2>1, <2>2 DEF Handled
<1>3. CASE active = << >>
    BY <1>1, <1>2, <1>3 DEF Handled
<1>4. CASE active # << >>
  <2>1. PICK r \in Entered : active = <<r>>
    BY <1>4 DEF IInv, NoNesting
  <2>2. Handled = r.vector /\ r.vector \in 0 .. 47
    BY <2>1 DEF Handled, Entered
  <2>3. Master(in_service) \subseteq {IF r.vector \in 40 .. 47 THEN CASCADE ELSE r.vector - 32}
    <3> SUFFICES ASSUME NEW j \in Master(in_service)
                 PROVE  j = IF r.vector \in 40 .. 47 THEN CASCADE ELSE r.vector - 32
        OBVIOUS
    <3>1. j \in in_service /\ j \in 0 .. 7
        BY <1>1 DEF Master
    <3>2. IF r.vector \in 40 .. 47 THEN j = CASCADE ELSE r.vector = 32 + j
        BY <2>2, <3>1 DEF IInv, EoiMatched
    <3> QED
        BY <2>2, <3>1, <3>2
  <2>4. r.vector = 33 => Master(in_service) \subseteq {KEYBOARD}
    BY <2>3 DEF KEYBOARD
  <2> QED
    BY <1>1, <1>4, <2>2, <2>3, <2>4
<1> QED
    BY <1>3, <1>4

-----------------------------------------------------------------------------
(* Steps of the interrupted code and of the devices leave the processor's  *)
(* state alone.                                                            *)

LEMMA KeepEoi ==
    ASSUME IInv, in_service' = in_service, active' = active
    PROVE  EoiMatched'
    BY DEF IInv, EoiMatched, Handled

LEMMA KeepDevice ==
    ASSUME IInv, UNCHANGED <<in_service, masked, late, cpu, main, mouse>>,
           requested' \subseteq Lines,
           obf' \in {"none", "key", "mouse", "answer"},
           ibf' \in {"none", ibf},
           enabled' \in BOOLEAN, aux' \in BOOLEAN, scanning' \in BOOLEAN,
           PortOn => PortOn',
           ibf = "none" => ibf' = "none" /\ enabled' = enabled
    PROVE  IInv'
<1>1. Types'
    BY DEF IInv, Types, cpu, main
<1>2. NoNesting'
    BY DEF IInv, NoNesting, cpu, main
<1>3. PortState'
  <2>1. (~spoiled => Unspoiled) => (~spoiled' => Unspoiled')
    BY DEF Unspoiled, AeTaken, main
  <2> QED
    BY <2>1 DEF IInv, PortState, main
<1>4. MouseLine' /\ EoiMatched'
    BY KeepEoi DEF IInv, MouseLine, cpu
<1> QED
    BY <1>1, <1>2, <1>3, <1>4 DEF IInv

LEMMA KeepRaise ==
    ASSUME IInv, NEW i \in Lines, Raise(i)
    PROVE  IInv'
    BY KeepDevice DEF IInv, Types, Raise, PortOn, i8042, main

LEMMA KeepKeyPress ==
    ASSUME IInv, KeyPress
    PROVE  IInv'
    BY KeepDevice, LinesAssumption DEF IInv, Types, KeyPress, Fill, PortOn, main

LEMMA KeepMouseMoves ==
    ASSUME IInv, MouseMoves
    PROVE  IInv'
    BY KeepDevice DEF IInv, Types, MouseLine, MouseMoves, Fill, PortOn, main

LEMMA KeepTakeCommand ==
    ASSUME IInv, TakeCommand
    PROVE  IInv'
<1>1. PortOn => PortOn'
    BY DEF IInv, Types, TakeCommand, PortOn
<1>2. enabled' \in BOOLEAN /\ aux' \in BOOLEAN
    BY DEF IInv, Types, TakeCommand
<1> QED
    BY <1>1, <1>2, KeepDevice DEF IInv, Types, TakeCommand, pic

LEMMA KeepAnswer ==
    ASSUME IInv, Answer
    PROVE  IInv'
    BY KeepDevice, LinesAssumption DEF IInv, Types, Answer, Fill, PortOn

-----------------------------------------------------------------------------
(* The interrupted code.                                                   *)

LEMMA KeepInstall ==
    ASSUME IInv, isr_install
    PROVE  IInv'
<1>1. Types'
  <2>1. requested' \subseteq Lines /\ in_service' \subseteq Lines \cup {CASCADE}
    BY DEF isr_install, pic_remap
  <2>2. masked' \subseteq 0 .. 15
    BY DEF IInv, Types, isr_install, pic_clear_mask
  <2>3. UNCHANGED <<late, ifl, obf, ibf, enabled, aux, scanning, mouse, timeout, step, al,
                    gave_up, spoiled>> /\ pc' = "sti"
    BY DEF isr_install, cpu, i8042
  <2> QED
    BY <2>1, <2>2, <2>3 DEF IInv, Types
<1>2. NoNesting' /\ PortState' /\ MouseLine'
    BY DEF IInv, NoNesting, PortState, Unspoiled, AeTaken, MouseLine, isr_install, cpu, i8042
<1>3. EoiMatched'
    BY DEF EoiMatched, isr_install, pic_remap
<1> QED
    BY <1>1, <1>2, <1>3 DEF IInv

LEMMA KeepSti ==
    ASSUME IInv, sti
    PROVE  IInv'
<1>1. Types'
    BY DEF IInv, Types, sti, pic, i8042
<1>2. NoNesting' /\ PortState' /\ MouseLine'
    BY DEF IInv, NoNesting, PortState, Unspoiled, AeTaken, MouseLine, sti, i8042
<1>3. EoiMatched'
    BY KeepEoi DEF sti, pic
<1> QED
    BY <1>1, <1>2, <1>3 DEF IInv

(* A step of keyboard_init, past sti.                                      *)
LEMMA KeepPoll ==
    ASSUME IInv, UNCHANGED <<in_service, masked, cpu, enabled, aux, scanning, mouse, spoiled>>,
           requested' \subseteq requested,
           late' \in {0, 39, 47},
           obf' \in {"none", obf},
           ibf' \in {"none", "AD", "A7", "AE", "F4", "20"},
           pc' \in {"wait1", "wait2", "flush", "drain", "wait3", "ack", "run"},
           timeout' \in 0 .. POLLS,
           step' \in {"poll", "test", "out"},
           al' \in {"dead", "set", "clear", "AD", "A7", "AE", "F4", "20"},
           gave_up' \in {"none"} \cup Waits,
           PortState'
    PROVE  IInv'
<1>1. Types'
    BY DEF IInv, Types, cpu
<1>2. NoNesting' /\ MouseLine'
    BY DEF IInv, NoNesting, MouseLine, cpu
<1>3. EoiMatched'
    BY KeepEoi DEF cpu
<1> QED
    BY <1>1, <1>2, <1>3 DEF IInv

LEMMA KeepWait ==
    ASSUME IInv, NEW p \in Waits, Poll(p) \/ GiveUp(p) \/ Again(p)
    PROVE  IInv'
<1> USE DEF Waits
<1>1. timeout' \in 0 .. POLLS
    BY LinesAssumption DEF IInv, Types, Poll, GiveUp, Again
<1>2. CASE Poll(p)
  <2>1. al' \in {"set", "clear"} /\ (p = "wait3" /\ al' = "clear" => ibf = "none")
    BY <1>2 DEF Poll, inb, status
  <2>2. PortState'
    BY <1>2, <2>1 DEF IInv, PortState, Unspoiled, AeTaken, PortOn, Poll, Here, i8042
  <2> QED
    BY <1>1, <1>2, <2>1, <2>2, KeepPoll DEF IInv, Types, Poll, Here, pic, i8042
<1>3. CASE GiveUp(p)
  <2>1. PortState'
    BY <1>3 DEF IInv, PortState, Unspoiled, AeTaken, PortOn, GiveUp, Here, i8042
  <2> QED
    BY <1>1, <1>3, <2>1, KeepPoll DEF IInv, Types, GiveUp, pic, i8042
<1>4. CASE Again(p)
  <2>1. PortState'
    BY <1>4 DEF IInv, PortState, Unspoiled, AeTaken, PortOn, Again, Here, i8042
  <2> QED
    BY <1>1, <1>4, <2>1, KeepPoll DEF IInv, Types, Again, Here, pic, i8042
<1> QED
    BY <1>2, <1>3, <1>4

LEMMA KeepLoad ==
    ASSUME IInv,
           \/ Load("wait1", "AD")
           \/ Load("wait2", "A7")
           \/ Load("flush", enable_port)
           \/ Load("wait3", enable_scanning)
    PROVE  IInv'
<1> USE DEF enable_port, enable_scanning
<1>1. PortState'
    BY DEF IInv, PortState, Unspoiled, AeTaken, PortOn, Load, Here, i8042
<1> QED
    BY <1>1, KeepPoll DEF IInv, Types, Load, Here, pic, i8042

LEMMA KeepSend ==
    ASSUME IInv,
           \/ Send("wait1", "wait2")
           \/ Send("wait2", "flush")
           \/ Send("flush", "wait3")
           \/ Send("wait3", "ack")
    PROVE  IInv'
<1>1. timeout' \in 0 .. POLLS
    BY LinesAssumption DEF Send
<1>2. PortState'
  <2>1. CASE Send("wait1", "wait2") \/ Send("wait2", "flush")
    BY <2>1 DEF PortState, Unspoiled, AeTaken, Send
  <2>2. CASE Send("flush", "wait3")
    BY <2>2 DEF IInv, PortState, Unspoiled, AeTaken, PortOn, Send, Here
  <2>3. CASE Send("wait3", "ack")
    BY <2>3 DEF IInv, PortState, Unspoiled, AeTaken, PortOn, Send, Here
  <2> QED
    BY <2>1, <2>2, <2>3
<1>3. ibf' \in {"AD", "A7", "AE", "F4", "20"}
    BY DEF IInv, PortState, Send, Here
<1> QED
    BY <1>1, <1>2, <1>3, KeepPoll DEF IInv, Types, Send, pic

LEMMA KeepFlush ==
    ASSUME IInv, FlushPoll \/ FlushSees \/ FlushReads \/ AckSeen
    PROVE  IInv'
<1>1. CASE FlushPoll
  <2>1. al' \in {"set", "clear"}
    BY <1>1 DEF FlushPoll, inb
  <2>2. PortState'
    BY <1>1, <2>1 DEF IInv, PortState, Unspoiled, AeTaken, FlushPoll, Here
  <2> QED
    BY <1>1, <2>1, <2>2, KeepPoll DEF IInv, Types, FlushPoll, Here, pic, i8042
<1>2. CASE FlushSees
  <2>1. PortState'
    BY <1>2 DEF PortState, Unspoiled, AeTaken, FlushSees
  <2> QED
    BY <1>2, <2>1, KeepPoll DEF IInv, Types, FlushSees, pic, i8042
<1>3. CASE FlushReads
  <2>1. PortState'
    BY <1>3 DEF IInv, PortState, Unspoiled, AeTaken, FlushReads, Here
  <2> QED
    BY <1>3, <2>1, KeepPoll DEF IInv, Types, FlushReads
<1>4. CASE AckSeen
  <2>1. PortState'
    BY <1>4 DEF IInv, PortState, Unspoiled, AeTaken, PortOn, AckSeen, Here, i8042
  <2>2. timeout' \in 0 .. POLLS
    BY <1>4, LinesAssumption DEF AckSeen
  <2> QED
    BY <1>4, <2>1, <2>2, KeepPoll DEF IInv, Types, AckSeen, pic, i8042
<1> QED
    BY <1>1, <1>2, <1>3, <1>4

-----------------------------------------------------------------------------
(* Interrupts.                                                             *)

LEMMA KeepEnter ==
    ASSUME IInv, NEW v \in 0 .. 47, Enter(v), active = << >>,
           UNCHANGED <<masked, i8042, main>>,
           requested' \subseteq requested,
           late' \in {0, late},
           in_service' \subseteq Lines \cup {CASCADE},
           pc \notin {"install", "sti"},
           \A j \in in_service' : j < 8 => IF v \in 40 .. 47 THEN j = CASCADE ELSE v = 32 + j
    PROVE  IInv'
<1>1. active' = <<[vector |-> v, returned |-> FALSE]>> /\ ifl' = FALSE
    BY DEF Enter, gate
<1>2. [vector |-> v, returned |-> FALSE] \in Entered
    BY DEF Entered
<1>3. Types'
  <2>1. requested' \subseteq Lines /\ late' \in {0, 39, 47} /\ ifl' \in BOOLEAN
    BY <1>1 DEF IInv, Types
  <2>2. UNCHANGED <<masked, obf, ibf, enabled, aux, scanning, mouse, pc, timeout, step, al,
                    gave_up, spoiled>>
    BY DEF i8042, main
  <2> QED
    BY <2>1, <2>2 DEF IInv, Types
<1>4. NoNesting'
    BY <1>1, <1>2 DEF NoNesting, main
<1>5. PortState' /\ MouseLine'
    BY DEF IInv, PortState, Unspoiled, AeTaken, PortOn, MouseLine, i8042, main
<1>6. EoiMatched'
    BY <1>1 DEF EoiMatched, Handled
<1> QED
    BY <1>3, <1>4, <1>5, <1>6 DEF IInv

LEMMA KeepDeliver ==
    ASSUME IInv, NEW i \in Lines, Deliver(i)
    PROVE  IInv'
<1>1. active = << >> /\ pc \notin {"install", "sti"}
    BY DEF IInv, NoNesting, Deliver
<1>2. Master(in_service) = {} /\ in_service \in SUBSET (0 .. 15)
    BY <1>1, MasterServes
<1>3. i \in 0 .. 15 /\ 32 + i \in 0 .. 47
    BY LinesAssumption
<1>4. \A j \in in_service' :
        j < 8 => IF 32 + i \in 40 .. 47 THEN j = CASCADE ELSE 32 + i = 32 + j
    BY <1>2, <1>3 DEF Deliver, Master, CASCADE
<1>5. in_service' \subseteq Lines \cup {CASCADE}
    BY DEF IInv, Types, Deliver
<1> QED
    BY <1>1, <1>3, <1>4, <1>5, KeepEnter DEF Deliver

LEMMA KeepSpurious ==
    ASSUME IInv, Spurious
    PROVE  IInv'
<1>1. active = << >> /\ pc \notin {"install", "sti"}
    BY DEF IInv, NoNesting, Spurious
<1>2. Master(in_service) = {} /\ in_service \in SUBSET (0 .. 15)
    BY <1>1, MasterServes
<1>3. late \in {39, 47} /\ late \in 0 .. 47
    BY DEF IInv, Types, Spurious
<1>4. \A j \in in_service' : j < 8 => IF late \in 40 .. 47 THEN j = CASCADE ELSE late = 32 + j
    BY <1>2, <1>3 DEF Spurious, Master
<1>5. in_service' \subseteq Lines \cup {CASCADE}
    BY DEF IInv, Types, Spurious
<1> QED
    BY <1>1, <1>3, <1>4, <1>5, KeepEnter DEF Spurious

LEMMA KeepFault ==
    ASSUME IInv, NEW v \in Faults, Fault(v)
    PROVE  IInv'
<1>1. active = << >> /\ pc \notin {"install", "sti"} /\ v \in 0 .. 47
    BY LinesAssumption DEF Fault
<1>2. Master(in_service) = {}
    BY <1>1, MasterServes
<1>3. \A j \in in_service' : j < 8 => IF v \in 40 .. 47 THEN j = CASCADE ELSE v = 32 + j
    BY <1>2 DEF Fault, Master, pic
<1>4. in_service' \subseteq Lines \cup {CASCADE}
    BY DEF IInv, Types, Fault, pic
<1> QED
    BY <1>1, <1>3, <1>4, KeepEnter DEF Fault, pic

(* The handler's own command ends the keyboard's interrupt, which is the   *)
(* only one in service on the master.                                      *)
LEMMA KeepHandle ==
    ASSUME IInv, Handle
    PROVE  IInv'
<1>1. PICK r \in Entered : active = <<r>> /\ ~r.returned
    BY DEF IInv, NoNesting, Handle, Running
<1>2. /\ active' = <<[r EXCEPT !.returned = TRUE]>>
      /\ [r EXCEPT !.returned = TRUE] \in Entered
      /\ r.vector \in 0 .. 47 /\ Handled = r.vector /\ Handled' = r.vector
  <2>1. active' = [active EXCEPT ![1].returned = TRUE]
    BY DEF Handle
  <2> DEFINE x == [r EXCEPT !.returned = TRUE]
  <2>2. active' = [active EXCEPT ![1] = x]
    <3>1. [active EXCEPT ![1].returned = TRUE]
            = [active EXCEPT ![1] = [active[1] EXCEPT !.returned = TRUE]]
        OBVIOUS
    <3>2. active[1] = r
        BY <1>1
    <3> QED
        BY <2>1, <3>1, <3>2
  <2>3. x \in Entered
    BY <1>1 DEF Entered
  <2> HIDE DEF x
  <2>4. active \in Seq(Entered) /\ Len(active) = 1
    BY <1>1
  <2>5. active' \in Seq(Entered) /\ Len(active') = 1 /\ active'[1] = x
    <3>1. 1 \in 1 .. Len(active)
        BY <2>4
    <3> DEFINE y == [active EXCEPT ![1] = x]
    <3>2. /\ y \in Seq(Entered) /\ Len(y) = Len(active)
          /\ \A j \in 1 .. Len(active) : y[j] = IF j = 1 THEN x ELSE active[j]
        BY <2>3, <2>4, <3>1, ExceptSeq
    <3> HIDE DEF y
    <3>3. active' = y
        BY <2>2 DEF y
    <3> QED
        BY <2>4, <3>1, <3>2, <3>3
  <2>6. active' = <<x>>
    BY <2>5
  <2> QED
    BY <1>1, <2>3, <2>6 DEF x, Entered, Handled
<1>3. in_service' \subseteq in_service /\ obf' \in {"none", obf}
  <2>1. CASE int_no(r.vector) = 33
    <3>1. r.vector = 33
        BY <1>2, <2>1, IntNo
    <3>2. Master(in_service) \subseteq {KEYBOARD} /\ in_service \in SUBSET (0 .. 15)
        BY <1>2, <3>1, MasterServes
    <3>3. pic_eoi(in_service, KEYBOARD) = ended(in_service, 0)
        BY DEF pic_eoi, KEYBOARD
    <3>4. in_service' = in_service \ Master(in_service)
        BY <1>1, <2>1, <3>2, <3>3, EndedMaster DEF Handle
    <3> QED
        BY <1>1, <2>1, <3>4 DEF Handle
  <2>2. CASE int_no(r.vector) # 33
    BY <1>1, <2>2 DEF Handle
  <2> QED
    BY <2>1, <2>2
<1>4. UNCHANGED <<requested, masked, late, ifl, ibf, enabled, aux, scanning, mouse, main>>
    BY DEF Handle
<1>5. Types'
    BY <1>3, <1>4 DEF IInv, Types, main
<1>6. NoNesting'
  <2>1. ~ifl /\ pc \notin {"install", "sti"}
    BY <1>1 DEF IInv, NoNesting
  <2> QED
    BY <1>2, <1>4, <2>1 DEF NoNesting, main
<1>7. PortState' /\ MouseLine'
    BY <1>4 DEF IInv, PortState, Unspoiled, AeTaken, PortOn, MouseLine, main
<1>8. EoiMatched'
    BY <1>2, <1>3 DEF IInv, EoiMatched
<1> QED
    BY <1>5, <1>6, <1>7, <1>8 DEF IInv

(* The stub's command leaves nothing in service on the master.             *)
LEMMA KeepReturn ==
    ASSUME IInv, Return
    PROVE  IInv'
<1>1. PICK r \in Entered : active = <<r>>
    BY DEF IInv, NoNesting, Return
<1>2. active' = << >> /\ ifl' = TRUE /\ pc' \in {pc, "wild"}
      /\ UNCHANGED <<requested, masked, late, i8042, timeout, step, gave_up>>
      /\ al' \in clobbered /\ spoiled' = (spoiled \/ Spoilt)
    BY <1>1 DEF Return
<1>3. in_service' = in_service \ Master(in_service) /\ in_service \in SUBSET (0 .. 15)
    BY MasterServes, EndedMaster DEF Return, stub_eoi
<1>4. Types'
  <2>1. in_service' \subseteq Lines \cup {CASCADE} /\ ifl' \in BOOLEAN
    BY <1>2, <1>3 DEF IInv, Types
  <2>2. pc' \in {"install", "sti", "wait1", "wait2", "flush", "drain", "wait3", "ack", "run",
                 "wild"}
    BY <1>2 DEF IInv, Types
  <2>3. UNCHANGED <<requested, masked, late, obf, ibf, enabled, aux, scanning, mouse, timeout,
                    step, gave_up>>
    BY <1>2 DEF i8042
  <2>4. /\ al' \in {"dead", "set", "clear", "AD", "A7", "AE", "F4", "20"}
        /\ spoiled' \in BOOLEAN
    BY <1>2 DEF IInv, Types, clobbered, Spoilt
  <2> QED
    BY <2>1, <2>2, <2>3, <2>4 DEF IInv, Types
<1>5. NoNesting'
  <2>1. pc \notin {"install", "sti"}
    BY <1>1 DEF IInv, NoNesting
  <2> QED
    BY <1>2, <2>1 DEF NoNesting
<1>6. PortState' /\ MouseLine'
  <2>1. /\ step = "out" => al' = "20"
        /\ step = "test" => al' \in {"set", "clear"}
        /\ step = "poll" => al' = al
        /\ step' = step /\ step \in {"poll", "test", "out"}
    BY <1>2 DEF clobbered, IInv, Types
  <2>2. ASSUME ~spoiled' PROVE Unspoiled'
    <3>1. ~spoiled /\ ~Spoilt /\ Unspoiled
        BY <1>2, <2>2 DEF IInv, PortState
    <3>2. pc \in {"flush", "wait3"} => al = "clear" \/ al' = al
        BY <3>1 DEF Spoilt
    <3>3. step = "out" => al # "clear"
        BY DEF IInv, PortState
    <3> QED
        BY <1>2, <2>1, <3>1, <3>2, <3>3 DEF Unspoiled, AeTaken, PortOn, i8042
  <2>3. /\ pc' \in {"install", "sti", "wait1"} => enabled' /\ ibf' = "none"
        /\ pc' \notin {"wait1", "wait2", "flush", "wait3", "ack", "wild"} => step' = "poll"
        /\ step' = "out" => al' \in {"AD", "A7", "AE", "F4", "20"}
    BY <1>2, <2>1 DEF IInv, PortState, i8042
  <2>4. MouseLine'
    BY <1>2 DEF IInv, MouseLine, i8042
  <2> QED
    BY <2>2, <2>3, <2>4 DEF PortState
<1>7. EoiMatched'
    BY <1>3 DEF EoiMatched, Master
<1> QED
    BY <1>4, <1>5, <1>6, <1>7 DEF IInv

-----------------------------------------------------------------------------

LEMMA NextIInv == IInv /\ [Next]_vars => IInv'
<1> SUFFICES ASSUME IInv, [Next]_vars PROVE IInv'
    OBVIOUS
<1>1. CASE isr_install \/ sti
    BY <1>1, KeepInstall, KeepSti
<1>2. CASE keyboard_init
    BY <1>2, KeepWait, KeepLoad, KeepSend, KeepFlush DEF keyboard_init, FlushDone
<1>3. CASE Handle \/ Return \/ Spurious
    BY <1>3, KeepHandle, KeepReturn, KeepSpurious
<1>4. ASSUME NEW i \in Lines, Deliver(i) \/ Raise(i) PROVE IInv'
    BY <1>4, KeepDeliver, KeepRaise
<1>5. ASSUME NEW v \in Faults, Fault(v) PROVE IInv'
    BY <1>5, KeepFault
<1>6. CASE KeyPress \/ MouseMoves \/ TakeCommand \/ Answer
    BY <1>6, KeepKeyPress, KeepMouseMoves, KeepTakeCommand, KeepAnswer
<1>7. CASE UNCHANGED vars
  <2>1. UNCHANGED <<in_service, masked, late, cpu, main, mouse, requested, obf, ibf, enabled,
                    aux, scanning>>
    BY <1>7 DEF vars, cpu, main
  <2> QED
    BY <2>1, KeepDevice DEF IInv, Types, PortOn
<1> QED
    BY <1>1, <1>2, <1>3, <1>4, <1>5, <1>6, <1>7 DEF Next, Main, Cpu

(* The controllers, the processor and keyboard_init keep their types: in   *)
(* particular interrupts never nest.                                       *)
THEOREM InterruptsTypeCorrect == Spec => []TypeOK
<1>1. IInv => TypeOK
  <2> SUFFICES ASSUME IInv PROVE TypeOK
    OBVIOUS
  <2>1. active \in Seq(Entered) /\ Len(active) <= 1
    <3>1. CASE active = << >>
        BY <3>1
    <3>2. CASE \E r \in Entered : active = <<r>>
        BY <3>2
    <3> QED
        BY <3>1, <3>2 DEF IInv, NoNesting
  <2> QED
    BY <2>1 DEF IInv, Types, TypeOK, Entered
<1> QED
    BY <1>1, InitIInv, NextIInv, PTL DEF Spec

(* No end-of-interrupt command ends the service of another interrupt.      *)
THEOREM EoiNeverMisplaced == Spec => []EoiMatched
<1>1. IInv => EoiMatched
    BY DEF IInv
<1> QED
    BY <1>1, InitIInv, NextIInv, PTL DEF Spec

(* Where keyboard_init gives up, except at its second wait, the keyboard's *)
(* port is on or the command that turns it on is under way: unless, from   *)
(* the flush on, an interrupt has replaced a command in AL or hidden a bit *)
(* there, whatever it did to AL before.                                    *)
THEOREM PortComesBack == Spec => []PortLeftOn
<1>1. IInv => PortLeftOn
    BY DEF IInv, PortState, Unspoiled, PortOn, PortLeftOn
<1> QED
    BY <1>1, InitIInv, NextIInv, PTL DEF Spec

(* What a hardware interrupt interrupts goes on where it was: only the     *)
(* return from an exception can go astray.                                 *)
HardwareResumes == [][pc' = "wild" /\ pc # "wild" => Handled < 32]_vars

THEOREM HardwareInterruptsResume == Spec => HardwareResumes
<1>1. IInv /\ [Next]_vars => [pc' = "wild" /\ pc # "wild" => Handled < 32]_vars
  <2> SUFFICES ASSUME IInv, Next, pc' = "wild", pc # "wild"
               PROVE  Handled < 32
    OBVIOUS
  <2>1. CASE Return
    <3>1. PICK r \in Entered : active = <<r>>
        BY <2>1 DEF IInv, NoNesting, Return
    <3>2. Handled = r.vector /\ r.vector \in 0 .. 47
        BY <3>1 DEF Handled, Entered
    <3>3. iret(r.vector) # Resumed
        BY <2>1, <3>1 DEF Return
    <3> QED
        BY <3>2, <3>3, HardwareFrame
  <2>2. CASE Main
    BY <2>2 DEF Main, isr_install, sti, keyboard_init, Poll, GiveUp, Again, Load,
       Send, FlushPoll, FlushSees, FlushReads, FlushDone, AckSeen
  <2>3. CASE ~Main /\ ~Return
    BY <2>3 DEF Next, Cpu, Handle, Spurious, Deliver, Raise, Fault, KeyPress, MouseMoves,
       Fill, TakeCommand, Answer, main
  <2> QED
    BY <2>1, <2>2, <2>3
<1> QED
    BY <1>1, InitIInv, NextIInv, PTL DEF Spec, HardwareResumes

=============================================================================
