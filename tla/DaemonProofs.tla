---------------------------- MODULE DaemonProofs ----------------------------
(***************************************************************************)
(* The two sides of the daemon (daemon.c): its life cycle, for any number  *)
(* of processes started one after the other, and what its replies carry,   *)
(* for any number of requests, any counts and files of READ and any pages  *)
(* of READDIR.  Lifecycle and Wire share no state; their theorems stand    *)
(* one after the other.                                                    *)
(*                                                                         *)
(* Wire.  A procedure is right if every member its encoder visits was      *)
(* written last by this request and in an order that spoils no cell of it  *)
(* (LoadWritten); then each encoding is of this request's values (Own) and *)
(* as long as it should be (AnswerIs, ServedWell).  There is one Step      *)
(* lemma per procedure.                                                    *)
(***************************************************************************)
EXTENDS Lifecycle, Wire, SequenceTheorems, WellFoundedInduction, TLAPS

-----------------------------------------------------------------------------
(* The life cycle.                                                         *)
-----------------------------------------------------------------------------
(* The order in which start() calls the portmapper: a service is freed     *)
(* before it is registered, and every slot is registered once.             *)
LEMMA RegistrationOrder ==
    /\ Len(Registrations) = 9
    /\ \A i \in 1..9 :
          /\ Registrations[i] = <<Registrations[i][1], Registrations[i][2]>>
          /\ Registrations[i][1] \in {"unset", "udp", "tcp"}
          /\ Registrations[i][2] \in Service
    /\ \A i, j \in 1..9 :
          Registrations[i][1] = "unset" /\ Registrations[j][2] = Registrations[i][2]
             => i <= j
    /\ \A i \in 1..9 :
          Registrations[i][1] # "unset" =>
             /\ \E j \in 1 .. i - 1 : Registrations[j] = <<"unset", Registrations[i][2]>>
             /\ \A j \in 1 .. i - 1 : Registrations[j] # Registrations[i]
    /\ \A s \in Slot : /\ \E i \in 1..9 : Registrations[i] = <<"unset", s[1]>>
                       /\ \E i \in 1..9 : Registrations[i] = <<s[2], s[1]>>
<1>1. /\ Len(Registrations) = 9
      /\ Registrations[1] = <<"unset", "NFS3">>
      /\ Registrations[2] = <<"udp", "NFS3">>
      /\ Registrations[3] = <<"tcp", "NFS3">>
      /\ Registrations[4] = <<"unset", "MOUNT1">>
      /\ Registrations[5] = <<"unset", "MOUNT3">>
      /\ Registrations[6] = <<"udp", "MOUNT1">>
      /\ Registrations[7] = <<"udp", "MOUNT3">>
      /\ Registrations[8] = <<"tcp", "MOUNT1">>
      /\ Registrations[9] = <<"tcp", "MOUNT3">>
  BY DEF Registrations
<1>2. \A i \in 1..9 : \/ i = 1 \/ i = 2 \/ i = 3 \/ i = 4 \/ i = 5
                      \/ i = 6 \/ i = 7 \/ i = 8 \/ i = 9
  OBVIOUS
<1>3. \A i \in 1..9 : /\ Registrations[i] = <<Registrations[i][1], Registrations[i][2]>>
                      /\ Registrations[i][1] \in {"unset", "udp", "tcp"}
                      /\ Registrations[i][2] \in Service
  BY <1>1, <1>2 DEF Service
<1>4. \A i, j \in 1..9 :
         Registrations[i][1] = "unset" /\ Registrations[j][2] = Registrations[i][2]
            => i <= j
  BY <1>1, <1>2
<1>5. ASSUME NEW i \in 1..9, Registrations[i][1] # "unset"
      PROVE  /\ \E j \in 1 .. i - 1 : Registrations[j] = <<"unset", Registrations[i][2]>>
             /\ \A j \in 1 .. i - 1 : Registrations[j] # Registrations[i]
  <2>1. i \in {2, 3, 6, 7, 8, 9}
    BY <1>1, <1>2, <1>5
  <2>2. \E j \in 1 .. i - 1 : Registrations[j] = <<"unset", Registrations[i][2]>>
    <3>1. CASE i \in {2, 3}
      BY <1>1, <3>1, 1 \in 1 .. i - 1
    <3>2. CASE i \in {6, 8}
      BY <1>1, <3>2, 4 \in 1 .. i - 1
    <3>3. CASE i \in {7, 9}
      BY <1>1, <3>3, 5 \in 1 .. i - 1
    <3> QED BY <2>1, <3>1, <3>2, <3>3
  <2>3. \A j \in 1 .. i - 1 : Registrations[j] # Registrations[i]
    <3>1. \A j \in 1 .. i - 1 : j \in 1..9 /\ j # i
      OBVIOUS
    <3>2. \A j, k \in 1..9 : Registrations[j] = Registrations[k] => j = k
      BY <1>1, <1>2
    <3> QED BY <3>1, <3>2
  <2> QED BY <2>2, <2>3
<1>6. ASSUME NEW s \in Slot
      PROVE  /\ \E i \in 1..9 : Registrations[i] = <<"unset", s[1]>>
             /\ \E i \in 1..9 : Registrations[i] = <<s[2], s[1]>>
  <2>1. s[1] \in {"NFS3", "MOUNT1", "MOUNT3"} /\ s[2] \in {"udp", "tcp"}
    BY DEF Slot, Service
  <2>2. \E i \in 1..9 : Registrations[i] = <<"unset", s[1]>>
    BY <1>1, <2>1, 1 \in 1..9, 4 \in 1..9, 5 \in 1..9
  <2>3. \E i \in 1..9 : Registrations[i] = <<s[2], s[1]>>
    BY <1>1, <2>1, 2 \in 1..9, 3 \in 1..9, 6 \in 1..9, 7 \in 1..9, 8 \in 1..9, 9 \in 1..9
  <2> QED BY <2>2, <2>3
<1> QED BY <1>1, <1>3, <1>4, <1>5, <1>6

-----------------------------------------------------------------------------
(* The call is one of the first n - 1, those made when the next is n.      *)
Before(n, op, service) == \E i \in 1 .. n - 1 : Registrations[i] = <<op, service>>

(* Once a service has been freed its slots are this process's or empty.    *)
Portmapped ==
    \A s \in Slot :
        Before(step, "unset", s[1])
            => pmap[s] = IF Before(step, s[2], s[1]) THEN run ELSE Free

(* Who is where: the goroutine exists while the process does, the closes   *)
(* are those the two threads have been through, and step counts only while *)
(* it is in use.                                                           *)
Control ==
    /\ pc \in {"off", "prepared"} => sig = "none"
    /\ Alive => /\ run >= 1
                /\ closed = (IF sig = "closed" THEN 1 ELSE 0)
                                + (IF pc = "closed" THEN 1 ELSE 0)
    /\ pc \in {"off", "prepared", "udp", "tcp", "serving", "in_request"} => step = 1
    /\ pc = "daemon_exit" => step \in 1 .. 4

(* What the process has in the portmapper it has a callout for: otherwise  *)
(* svc_unregister would pass it over.                                      *)
CalledOut == Alive => \A s \in Slot : pmap[s] = run => s[1] \in callouts

(* What daemon_exit has taken back.                                        *)
Unregistered ==
    /\ pc = "daemon_exit" =>
          \A i \in 1 .. step - 1 : \A s \in Slot :
             s[1] = Unregistrations[i] => pmap[s] # run
    /\ pc \in {"closing", "closed"} => \A s \in Slot : pmap[s] # run

IInv == /\ TypeOK
        /\ Control
        /\ pc = "registering" => Portmapped
        /\ ServingIsRegistered
        /\ CalledOut
        /\ Unregistered
        /\ ErrorExitUnregisters
        /\ BackendClosedBeforeExit

LEMMA InitOK == Init => IInv
BY LifecycleAssumption, RegistrationOrder
   DEF Init, IInv, TypeOK, Control, ServingIsRegistered, CalledOut, Unregistered,
       ErrorExitUnregisters, BackendClosedBeforeExit, Alive, Free

(* Every step keeps the program points, counters and owners in range.      *)
LEMMA TypeNext == IInv /\ [Next]_vars => TypeOK'
<1> SUFFICES ASSUME IInv, [Next]_vars PROVE TypeOK'
  OBVIOUS
<1> USE LifecycleAssumption DEF TypeOK
<1>1. /\ TypeOK /\ Control
      /\ Len(Registrations) = 9
      /\ Len(Unregistrations) = 3
  BY RegistrationOrder DEF IInv, Unregistrations
<1>2. \A service : Unset(service) \in [Slot -> 0..run]
  <2>1. 0 \in 0..run /\ pmap \in [Slot -> 0..run]
    BY <1>1
  <2> HIDE DEF TypeOK
  <2> QED BY <2>1 DEF Unset, Free
<1>3. CASE Launch
  BY <1>1, <1>3 DEF Launch
<1>4. CASE BadArguments
  BY <1>1, <1>4 DEF BadArguments, End
<1>5. CASE Notify
  BY <1>1, <1>5 DEF Notify
<1>6. CASE CreateTransport("udp", "tcp")
  BY <1>1, <1>6 DEF CreateTransport, End
<1>7. CASE CreateTransport("tcp", "registering")
  BY <1>1, <1>7 DEF CreateTransport, End
<1>8. CASE Register
  <2>1. pmap' \in [Slot -> 0..run]
    BY <1>1, <1>2, <1>8 DEF Register
  <2>2. step' \in 1..10
    BY <1>1, <1>8 DEF Register
  <2>3. callouts' \subseteq Service
    <3>1. Registrations[step][2] \in Service
      BY <1>1, <1>8, RegistrationOrder DEF Register
    <3> QED BY <1>1, <1>8, <3>1 DEF Register
  <2> QED BY <1>1, <1>8, <2>1, <2>2, <2>3 DEF Register
<1>9. CASE Registered \/ Dispatch \/ Replied \/ Shutdown
  BY <1>1, <1>9 DEF Registered, Dispatch, Replied, Shutdown
<1>10. CASE PollFails \/ Kill \/ ExitInThread \/ ExitInGoroutine
  BY <1>1, <1>10 DEF PollFails, Kill, ExitInThread, ExitInGoroutine, End
<1>11. CASE Unregister
  <2>1. pmap' \in [Slot -> 0..run]
    BY <1>1, <1>2, <1>11 DEF Unregister
  <2>2. step' \in 1..10
    BY <1>1, <1>11 DEF Unregister
  <2> QED BY <1>1, <1>11, <2>1, <2>2 DEF Unregister
<1>12. CASE CloseInThread \/ CloseInGoroutine
  <2>1. closed \in 0..1
    BY <1>1, <1>12 DEF CloseInThread, CloseInGoroutine, Control, Alive
  <2> QED BY <1>1, <1>12, <2>1 DEF CloseInThread, CloseInGoroutine
<1>13. CASE Interrupt
  BY <1>1, <1>13 DEF Interrupt
<1>14. CASE UNCHANGED vars
  BY <1>1, <1>14 DEF vars
<1> QED
  BY <1>3, <1>4, <1>5, <1>6, <1>7, <1>8, <1>9, <1>10, <1>11, <1>12, <1>13, <1>14
     DEF Next, CThread, Goroutine

(* Every step keeps the account of threads, closes and steps.              *)
LEMMA ControlNext == IInv /\ [Next]_vars => Control'
<1> SUFFICES ASSUME IInv, [Next]_vars PROVE Control'
  OBVIOUS
<1>1. TypeOK /\ Control /\ Len(Unregistrations) = 3
  BY DEF IInv, Unregistrations
<1> USE <1>1 DEF TypeOK, Control, Alive
<1>2. CASE Launch \/ BadArguments \/ Notify
  BY <1>2 DEF Launch, BadArguments, Notify, End
<1>3. CASE CreateTransport("udp", "tcp") \/ CreateTransport("tcp", "registering")
  BY <1>3 DEF CreateTransport, End
<1>4. CASE Register
  BY <1>4 DEF Register
<1>5. CASE Registered \/ Dispatch \/ Replied \/ PollFails \/ Kill
  BY <1>5 DEF Registered, Dispatch, Replied, PollFails, Kill, End
<1>6. CASE Unregister
  BY <1>6 DEF Unregister
<1>7. CASE Shutdown \/ CloseInThread \/ ExitInThread
  BY <1>7 DEF Shutdown, CloseInThread, ExitInThread, End
<1>8. CASE Interrupt \/ CloseInGoroutine \/ ExitInGoroutine
  BY <1>8 DEF Interrupt, CloseInGoroutine, ExitInGoroutine, End
<1>9. CASE UNCHANGED vars
  BY <1>9 DEF vars
<1> QED
  BY <1>2, <1>3, <1>4, <1>5, <1>6, <1>7, <1>8, <1>9 DEF Next, CThread, Goroutine

(* One call more.                                                          *)
LEMMA OneMore ==
    ASSUME NEW n \in 1..9, NEW op, NEW service
    PROVE  Before(n + 1, op, service)
               <=> Before(n, op, service) \/ Registrations[n] = <<op, service>>
<1>1. 1 .. (n + 1) - 1 = 1..n
  OBVIOUS
<1>2. \A i : i \in 1..n <=> i \in 1 .. n - 1 \/ i = n
  OBVIOUS
<1> QED BY <1>1, <1>2, Zenon DEF Before

(* Registering call after call: what a call frees or takes belongs to the  *)
(* call itself, what earlier calls did stays.                              *)
LEMMA RegisterOK ==
    ASSUME TypeOK, pc = "registering", Portmapped, Register, pc' = "registering"
    PROVE  Portmapped'
<1> DEFINE op == Registrations[step][1]
           service == Registrations[step][2]
<1>1. /\ step \in 1..9 /\ step' = step + 1 /\ run' = run
      /\ Registrations[step] = <<op, service>> /\ op \in {"unset", "udp", "tcp"}
      /\ service \in Service
      /\ pmap \in [Slot -> 0..run]
  BY RegistrationOrder DEF TypeOK, Register
<1>2. \A o, v : Before(step', o, v)
                   <=> Before(step, o, v) \/ (o = op /\ v = service)
  BY <1>1, OneMore
<1>3. ASSUME NEW s \in Slot, Before(step', "unset", s[1])
      PROVE  pmap'[s] = IF Before(step', s[2], s[1]) THEN run' ELSE Free
  <2>1. s = <<s[1], s[2]>> /\ s[2] # "unset"
    BY DEF Slot
  <2>2. CASE op = "unset" /\ s[1] = service
    <3>1. pmap'[s] = Free
      BY <1>1, <2>2 DEF Register, Unset
    <3>2. ~Before(step, s[2], s[1])
      <4> SUFFICES ASSUME NEW i \in 1 .. step - 1, Registrations[i] = <<s[2], s[1]>>
                   PROVE  FALSE
        BY DEF Before
      <4>1. i \in 1..9 /\ i < step
        BY <1>1
      <4>2. step <= i
        BY <1>1, <2>2, <4>1, RegistrationOrder
      <4> QED BY <1>1, <4>1, <4>2
    <3> HIDE DEF op, service
    <3> QED BY <1>2, <2>1, <2>2, <3>1, <3>2
  <2>3. CASE op # "unset" /\ s = <<service, op>>
    <3>1. pmap' = [pmap EXCEPT ![<<service, op>>] = run]
      BY <1>1, <2>3 DEF Register
    <3>2. pmap'[s] = run
      BY <1>1, <2>3, <3>1
    <3>3. Before(step', s[2], s[1])
      BY <1>2, <2>3
    <3> QED BY <1>1, <3>2, <3>3
  <2>4. CASE ~(s[1] = service /\ op = "unset") /\ s # <<service, op>>
    <3>1. pmap'[s] = pmap[s]
      <4>1. CASE op = "unset"
        BY <1>1, <2>4, <4>1 DEF Register, Unset
      <4>2. CASE op # "unset"
        <5>1. pmap' = [pmap EXCEPT ![<<service, op>>] = run]
          BY <1>1, <4>2 DEF Register
        <5> QED BY <1>1, <2>4, <5>1
      <4> QED BY <4>1, <4>2
    <3>2. Before(step, "unset", s[1])
      BY <1>2, <1>3, <2>4
    <3>3. Before(step', s[2], s[1]) <=> Before(step, s[2], s[1])
      <4> HIDE DEF op, service
      <4> QED BY <1>2, <2>1, <2>4
    <3> QED BY <1>1, <3>1, <3>2, <3>3 DEF Portmapped
  <2> QED BY <1>1, <2>2, <2>3, <2>4
<1> QED BY <1>3 DEF Portmapped

(* Nothing has been called when registration begins.                       *)
LEMMA RegistersNothing == ASSUME step = 1 PROVE Portmapped
<1>1. 1 .. step - 1 = {}
  OBVIOUS
<1> QED BY <1>1 DEF Portmapped, Before

(* Everything has been called when it is over.                             *)
LEMMA AllRegistered ==
    ASSUME step = 10, Portmapped
    PROVE  \A s \in Slot : pmap[s] = run
<1> SUFFICES ASSUME NEW s \in Slot PROVE pmap[s] = run
  OBVIOUS
<1>1. 1 .. step - 1 = 1..9
  OBVIOUS
<1>2. Before(step, "unset", s[1]) /\ Before(step, s[2], s[1])
  BY <1>1, RegistrationOrder DEF Before
<1> QED BY <1>2 DEF Portmapped

-----------------------------------------------------------------------------
(* A slot becomes the process's by a registration, which entered the       *)
(* callout; daemon_exit takes the callout back with the slots.             *)
LEMMA CalledOutNext ==
    ASSUME IInv, [Next]_vars PROVE CalledOut'
<1>1. /\ TypeOK /\ Control /\ CalledOut
      /\ run \in Nat /\ pmap \in [Slot -> 0..run]
      /\ Len(Registrations) = 9
  BY DEF IInv, TypeOK, Registrations
<1>2. CASE Register
  <2> DEFINE op == Registrations[step][1]
             service == Registrations[step][2]
  <2>1. /\ pc = "registering" /\ run' = run /\ run >= 1
        /\ callouts \subseteq callouts'
    BY <1>1, <1>2 DEF Register, Control, Alive
  <2>2. ASSUME NEW s \in Slot, pmap'[s] = run PROVE s[1] \in callouts'
    <3>1. CASE pmap[s] = run
      BY <1>1, <2>1, <3>1 DEF CalledOut, Alive
    <3>2. CASE pmap[s] # run
      <4>1. pmap' # Unset(service) /\ pmap' # pmap
        BY <1>1, <2>1, <2>2, <3>2 DEF Unset, Free
      <4>2. /\ pmap' = [pmap EXCEPT ![<<service, op>>] = run]
            /\ callouts' = callouts \cup {service}
        BY <1>2, <4>1 DEF Register
      <4>3. s = <<service, op>>
        BY <1>1, <2>2, <3>2, <4>2
      <4> QED BY <4>2, <4>3
    <3> QED BY <3>1, <3>2
  <2> QED BY <2>1, <2>2 DEF CalledOut
<1>3. CASE Unregister
  <2> DEFINE service == Unregistrations[step]
  <2>1. /\ pc = "daemon_exit" /\ run' = run /\ run >= 1
        /\ pmap' = IF service \in callouts THEN Unset(service) ELSE pmap
        /\ callouts' = callouts \ {service}
    BY <1>1, <1>3 DEF Unregister, Control, Alive
  <2>2. ASSUME NEW s \in Slot, pmap'[s] = run PROVE s[1] \in callouts'
    <3>1. pmap[s] = run /\ ~(service \in callouts /\ s[1] = service)
      BY <1>1, <2>1, <2>2 DEF Unset, Free
    <3>2. s[1] \in callouts
      BY <1>1, <2>1, <3>1 DEF CalledOut, Alive
    <3> QED BY <2>1, <3>1, <3>2
  <2> QED BY <2>1, <2>2 DEF CalledOut
<1>4. CASE Launch
  BY <1>1, <1>4 DEF Launch, CalledOut
<1>5. CASE BadArguments \/ PollFails \/ ExitInThread \/ Kill \/ ExitInGoroutine
  BY <1>5 DEF BadArguments, PollFails, ExitInThread, Kill, ExitInGoroutine, End,
              CalledOut, Alive
<1>6. CASE CreateTransport("udp", "tcp") \/ CreateTransport("tcp", "registering")
  BY <1>1, <1>6 DEF CreateTransport, End, CalledOut, Alive
<1>7. CASE Notify \/ Registered \/ Dispatch \/ Replied \/ Shutdown \/ CloseInThread
              \/ Interrupt \/ CloseInGoroutine \/ UNCHANGED vars
  <2>1. UNCHANGED <<run, callouts, pmap>> /\ (Alive' => Alive)
    BY <1>1, <1>7 DEF Notify, Registered, Dispatch, Replied, Shutdown, CloseInThread,
                Interrupt, CloseInGoroutine, vars, Alive, Control
  <2> QED BY <1>1, <2>1 DEF CalledOut
<1> QED
  BY <1>2, <1>3, <1>4, <1>5, <1>6, <1>7 DEF Next, CThread, Goroutine

(* daemon_exit frees service after service.                                *)
LEMMA UnregisteredNext ==
    ASSUME IInv, [Next]_vars PROVE Unregistered'
<1>1. /\ TypeOK /\ Control /\ Unregistered /\ CalledOut
      /\ Len(Unregistrations) = 3
      /\ Unregistrations[1] = "MOUNT1"
      /\ Unregistrations[2] = "MOUNT3"
      /\ Unregistrations[3] = "NFS3"
      /\ step \in Nat
      /\ pmap \in [Slot -> 0..run]
  BY RegistrationOrder DEF IInv, TypeOK, Unregistrations
<1>2. CASE Unregister
  <2>1. /\ pc = "daemon_exit" /\ step \in 1..3 /\ step' = step + 1
        /\ pc' = pc /\ run' = run /\ run >= 1
        /\ pmap' = IF Unregistrations[step] \in callouts
                    THEN Unset(Unregistrations[step]) ELSE pmap
    BY <1>1, <1>2 DEF Unregister, Control, Alive
  <2>2. ASSUME NEW i \in 1 .. step' - 1, NEW s \in Slot, s[1] = Unregistrations[i]
        PROVE  pmap'[s] # run
    <3>1. i \in 1 .. step - 1 \/ i = step
      BY <2>1
    <3>2. CASE i = step
      <4>1. CASE s[1] \in callouts
        BY <1>1, <2>1, <2>2, <3>2, <4>1 DEF Unset, Free
      <4>2. CASE s[1] \notin callouts
        BY <1>1, <2>1, <2>2, <3>2, <4>2 DEF CalledOut, Alive
      <4> QED BY <4>1, <4>2
    <3>3. CASE i \in 1 .. step - 1
      <4>1. pmap[s] # run
        BY <1>1, <2>1, <2>2, <3>3 DEF Unregistered
      <4> QED BY <1>1, <2>1, <4>1 DEF Unset, Free
    <3> QED BY <3>1, <3>2, <3>3
  <2> QED BY <2>1, <2>2 DEF Unregistered
<1>3. CASE Shutdown
  <2>1. /\ pc = "daemon_exit" /\ step = 4 /\ pc' = "closing"
        /\ pmap' = pmap /\ run' = run
    BY <1>1, <1>3 DEF Shutdown, Control
  <2>2. ASSUME NEW s \in Slot PROVE pmap[s] # run
    <3>1. 1 .. step - 1 = 1..3 /\ 1 \in 1..3 /\ 2 \in 1..3 /\ 3 \in 1..3
      BY <2>1
    <3>2. s[1] \in {"NFS3", "MOUNT1", "MOUNT3"}
      BY DEF Slot, Service
    <3> QED BY <1>1, <2>1, <3>1, <3>2 DEF Unregistered
  <2> QED BY <2>1, <2>2 DEF Unregistered
<1>4. CASE Register
  <2>1. pc' \in {"registering", "daemon_exit"} /\ (pc' = "daemon_exit" => step' = 1)
    BY <1>4 DEF Register
  <2>2. step' = 1 => 1 .. step' - 1 = {}
    OBVIOUS
  <2> QED BY <2>1, <2>2 DEF Unregistered
<1>5. CASE CreateTransport("udp", "tcp") \/ CreateTransport("tcp", "registering")
  <2>1. /\ pc' \in {"off", "tcp", "registering", "daemon_exit"}
        /\ pc' = "daemon_exit" => step' = 1
    BY <1>1, <1>5 DEF CreateTransport, End, Control
  <2>2. step' = 1 => 1 .. step' - 1 = {}
    OBVIOUS
  <2> QED BY <2>1, <2>2 DEF Unregistered
<1>6. CASE Interrupt \/ CloseInGoroutine \/ UNCHANGED vars
  <2>1. UNCHANGED <<pc, step, pmap, run>>
    BY <1>6 DEF Interrupt, CloseInGoroutine, vars
  <2> QED BY <1>1, <2>1 DEF Unregistered
<1>7. CASE CloseInThread
  <2>1. pc = "closing" /\ pc' = "closed" /\ pmap' = pmap /\ run' = run
    BY <1>7 DEF CloseInThread
  <2> QED BY <1>1, <2>1 DEF Unregistered
<1>8. CASE pc' \in {"off", "prepared", "udp", "serving", "in_request"}
  BY <1>8 DEF Unregistered
<1>9. CASE Launch \/ BadArguments \/ Notify \/ Registered \/ Dispatch \/ Replied
              \/ PollFails \/ ExitInThread \/ Kill \/ ExitInGoroutine
  BY <1>8, <1>9 DEF Launch, BadArguments, Notify, Registered, Dispatch, Replied,
                    PollFails, ExitInThread, Kill, ExitInGoroutine, End
<1> QED
  BY <1>2, <1>3, <1>4, <1>5, <1>6, <1>7, <1>9 DEF Next, CThread, Goroutine

(* What the process registered stands while it serves.                     *)
LEMMA ServingNext ==
    ASSUME IInv, [Next]_vars
    PROVE  ServingIsRegistered' /\ (pc' = "registering" => Portmapped')
<1>1. /\ TypeOK /\ Control /\ ServingIsRegistered
      /\ pc = "registering" => Portmapped
      /\ Len(Registrations) = 9
      /\ step \in 1..10
  BY RegistrationOrder DEF IInv, TypeOK
<1>2. CASE Register
  <2>1. pc = "registering" /\ pc' \in {"registering", "daemon_exit"}
    BY <1>2 DEF Register
  <2> QED BY <1>1, <1>2, <2>1, RegisterOK DEF ServingIsRegistered
<1>3. CASE Registered
  <2>1. /\ pc = "registering" /\ step = 10 /\ pc' = "serving"
        /\ pmap' = pmap /\ run' = run
    BY <1>1, <1>3 DEF Registered
  <2> QED BY <1>1, <2>1, AllRegistered DEF ServingIsRegistered
<1>4. CASE CreateTransport("tcp", "registering")
  <2>1. /\ pc' \in {"off", "registering", "daemon_exit"}
        /\ pc' = "registering" => step' = 1
    BY <1>1, <1>4 DEF CreateTransport, End, Control
  <2>2. step' = 1 => Portmapped'
    <3>1. step' = 1 => 1 .. step' - 1 = {}
      OBVIOUS
    <3> QED BY <3>1 DEF Portmapped, Before
  <2> QED BY <2>1, <2>2 DEF ServingIsRegistered
<1>5. CASE Dispatch \/ Replied
  <2>1. /\ pc \in {"serving", "in_request"} /\ pc' \in {"serving", "in_request"}
        /\ pmap' = pmap /\ run' = run
    BY <1>5 DEF Dispatch, Replied
  <2> QED BY <1>1, <2>1 DEF ServingIsRegistered
<1>6. CASE Interrupt \/ CloseInGoroutine \/ UNCHANGED vars
  <2>1. UNCHANGED <<pc, step, pmap, run>>
    BY <1>6 DEF Interrupt, CloseInGoroutine, vars
  <2> QED BY <1>1, <2>1 DEF ServingIsRegistered, Portmapped
<1>7. CASE pc' \in {"off", "prepared", "udp", "tcp", "daemon_exit", "closing", "closed"}
  BY <1>7 DEF ServingIsRegistered
<1>8. CASE Launch \/ BadArguments \/ Notify \/ CreateTransport("udp", "tcp")
              \/ PollFails \/ Unregister \/ Shutdown \/ CloseInThread
              \/ ExitInThread \/ Kill \/ ExitInGoroutine
  BY <1>7, <1>8 DEF Launch, BadArguments, Notify, CreateTransport, PollFails,
                    Unregister, Shutdown, CloseInThread, ExitInThread, Kill,
                    ExitInGoroutine, End
<1> QED
  BY <1>2, <1>3, <1>4, <1>5, <1>6, <1>8 DEF Next, CThread, Goroutine

(* How a process may end.                                                  *)
LEMMA ExitNext ==
    ASSUME IInv, [Next]_vars
    PROVE  ErrorExitUnregisters' /\ BackendClosedBeforeExit'
<1>1. /\ TypeOK /\ Control /\ Unregistered
      /\ ErrorExitUnregisters /\ BackendClosedBeforeExit
      /\ closed \in 0..2
  BY DEF IInv, TypeOK
<1> USE DEF ErrorExitUnregisters, BackendClosedBeforeExit
<1>2. CASE ExitInThread
  <2>1. /\ pc = "closed" /\ pmap' = pmap /\ run' = run /\ closed' = closed /\ closed >= 1
    BY <1>1, <1>2 DEF ExitInThread, Control, Alive
  <2> QED BY <1>1, <2>1 DEF Unregistered
<1>3. CASE ExitInGoroutine
  <2>1. sig = "closed" /\ pc # "off" /\ ended' = "interrupt" /\ closed' = closed
    BY <1>1, <1>3 DEF ExitInGoroutine, End, Control
  <2>2. closed >= 1
    BY <1>1, <2>1 DEF Control, Alive
  <2> QED BY <2>1, <2>2
<1>4. CASE BadArguments \/ PollFails \/ Kill
  BY <1>4 DEF BadArguments, PollFails, Kill, End
<1>5. CASE CreateTransport("udp", "tcp") \/ CreateTransport("tcp", "registering")
  BY <1>5 DEF CreateTransport, End
<1>6. CASE Launch \/ Notify \/ Register \/ Registered \/ Dispatch \/ Replied
              \/ Unregister \/ Shutdown \/ CloseInThread
  <2>1. pc' # "off"
    BY <1>6 DEF Launch, Notify, Register, Registered, Dispatch, Replied,
                Unregister, Shutdown, CloseInThread
  <2> QED BY <2>1
<1>7. CASE Interrupt \/ CloseInGoroutine
  <2>1. pc # "off"
    BY <1>1, <1>7 DEF Interrupt, CloseInGoroutine, Control
  <2>2. pc' = pc
    BY <1>7 DEF Interrupt, CloseInGoroutine
  <2> QED BY <2>1, <2>2
<1>8. CASE UNCHANGED vars
  BY <1>1, <1>8 DEF vars
<1> QED
  BY <1>2, <1>3, <1>4, <1>5, <1>6, <1>7, <1>8 DEF Next, CThread, Goroutine

-----------------------------------------------------------------------------
(* All of it together is kept by every step.                               *)
LEMMA Inductive == Spec => []IInv
<1>1. IInv /\ [Next]_vars => IInv'
  BY TypeNext, ControlNext, CalledOutNext, UnregisteredNext, ServingNext, ExitNext DEF IInv
<1> QED BY <1>1, InitOK, PTL DEF Spec

(* The process's counters, program points and owners stay in their sets,   *)
(* however many processes are started.                                     *)
THEOREM TypeCorrect == Spec => []TypeOK
<1>1. IInv => TypeOK
  BY DEF IInv
<1> QED BY <1>1, Inductive, PTL

(* Whenever unfs3_svc_run serves, every service and protocol of the        *)
(* portmapper leads to this process: register_nfs_service and              *)
(* register_mount_service left none out and none to an earlier process.    *)
THEOREM ServesWhatIsRegistered == Spec => []ServingIsRegistered
<1>1. IInv => ServingIsRegistered
  BY DEF IInv
<1> QED BY <1>1, Inductive, PTL

(* svc_register never finds a slot taken: the pmap_unset calls before it   *)
(* freed the slot, and no earlier svc_register took the same one.          *)
THEOREM NoSlotIsTaken == Spec => []RegistrationFindsFreeSlot
<1>1. IInv => RegistrationFindsFreeSlot
  <2> SUFFICES ASSUME IInv, pc = "registering", step <= Len(Registrations),
                      Registrations[step][1] # "unset"
               PROVE  pmap[<<Registrations[step][2], Registrations[step][1]>>] = Free
    BY DEF RegistrationFindsFreeSlot
  <2> DEFINE op == Registrations[step][1]
             service == Registrations[step][2]
  <2>1. /\ step \in 1..9 /\ Registrations[step] = <<op, service>>
        /\ <<service, op>> \in Slot /\ Portmapped
    BY RegistrationOrder DEF IInv, TypeOK, Slot
  <2>2. Before(step, "unset", service) /\ ~Before(step, op, service)
    BY <2>1, RegistrationOrder DEF Before
  <2> QED BY <2>1, <2>2 DEF Portmapped
<1> QED BY <1>1, Inductive, PTL

(* From whatever point of the start-up daemon_exit is reached, the process *)
(* it ends has nothing left in the portmapper.                             *)
THEOREM ErrorExitLeavesNothing == Spec => []ErrorExitUnregisters
<1>1. IInv => ErrorExitUnregisters
  BY DEF IInv
<1> QED BY <1>1, Inductive, PTL

(* Neither daemon_exit nor Ctrl-C ends the process before ns.Close has     *)
(* returned in one of the two threads.                                     *)
THEOREM NeverExitsWithBackendOpen == Spec => []BackendClosedBeforeExit
<1>1. IInv => BackendClosedBeforeExit
  BY DEF IInv
<1> QED BY <1>1, Inductive, PTL

-----------------------------------------------------------------------------
(* The wire.                                                               *)
-----------------------------------------------------------------------------
(* Induction up to n: what holds of 0 and passes on to the successor is    *)
(* given as a set.                                                         *)
LEMMA UpTo ==
    ASSUME NEW n \in Nat, NEW S, 0 \in S, \A k \in Nat : k < n /\ k \in S => k + 1 \in S
    PROVE  n \in S
<1> DEFINE R == OpToRel(<, Nat)
           bad == {k \in Nat : k <= n /\ k \notin S}
<1>1. \A x, y \in Nat : x < y => <<x, y>> \in R
  BY DEF OpToRel
<1>2. bad \subseteq Nat
  OBVIOUS
<1>3. ASSUME bad # {} PROVE FALSE
  <2>1. PICK k \in bad : \A j \in bad : <<j, k>> \notin R
    <3> HIDE DEF bad, R
    <3> QED BY <1>2, <1>3, NatLessThanWellFounded, WFMin DEF R
  <2>2. k \in Nat /\ k <= n /\ k \notin S /\ k # 0
    OBVIOUS
  <2>3. k - 1 \in Nat /\ k - 1 < n /\ k - 1 < k /\ k - 1 + 1 = k
    BY <2>2
  <2> HIDE DEF R
  <2>4. k - 1 \notin bad
    BY <1>1, <2>1, <2>2, <2>3
  <2> QED BY <2>2, <2>3, <2>4
<1> QED BY <1>3

-----------------------------------------------------------------------------
(* The partial sums that Total adds up.                                    *)
Sums(s, f) == f = [k \in 0 .. Len(s) |-> IF k = 0 THEN 0 ELSE f[k - 1] + s[k]]

LEMMA SumsExist ==
    ASSUME NEW s, Len(s) \in Nat
    PROVE  \E f : Sums(s, f)
<1> DEFINE n == Len(s)
           UpToK(k, f) == f = [j \in 0 .. k |-> IF j = 0 THEN 0 ELSE f[j - 1] + s[j]]
           S == {k \in Nat : \E f : UpToK(k, f)}
<1>1. 0 \in S
  <2> DEFINE f == [j \in 0 .. 0 |-> 0]
  <2>1. UpToK(0, f)
    OBVIOUS
  <2> QED BY <2>1
<1>2. ASSUME NEW k \in Nat, k < n, k \in S PROVE k + 1 \in S
  <2>1. PICK f : UpToK(k, f)
    BY <1>2
  <2> DEFINE g == [j \in 0 .. k + 1 |-> IF j = k + 1 THEN f[k] + s[k + 1] ELSE f[j]]
  <2>2. \A j \in 0 .. k : f[j] = IF j = 0 THEN 0 ELSE f[j - 1] + s[j]
    BY <2>1
  <2>3. ASSUME NEW j \in 0 .. k + 1
        PROVE  g[j] = IF j = 0 THEN 0 ELSE g[j - 1] + s[j]
    <3>1. CASE j = k + 1
      <4>1. j # 0 /\ j - 1 = k /\ k \in 0 .. k + 1 /\ k # k + 1
        BY <3>1
      <4> QED BY <3>1, <4>1
    <3>2. CASE j # k + 1
      <4>1. j \in 0 .. k /\ (j # 0 => j - 1 \in 0 .. k + 1 /\ j - 1 # k + 1)
        BY <3>2
      <4> QED BY <2>2, <3>2, <4>1
    <3> QED BY <3>1, <3>2
  <2>4. g = [j \in 0 .. k + 1 |-> IF j = 0 THEN 0 ELSE g[j - 1] + s[j]]
    <3> HIDE DEF g
    <3>1. DOMAIN g = 0 .. k + 1 /\ g = [j \in 0 .. k + 1 |-> g[j]]
      BY DEF g
    <3> QED BY <2>3, <3>1
  <2> HIDE DEF g
  <2>5. UpToK(k + 1, g)
    BY <2>4
  <2> QED BY <2>5
<1> HIDE DEF S
<1>3. n \in S
  <2> HIDE DEF n
  <2> QED BY <1>1, <1>2, UpTo DEF n
<1> QED BY <1>3 DEF S, Sums

LEMMA TotalIsLast ==
    ASSUME NEW s, Len(s) \in Nat
    PROVE  \E f : /\ f[0] = 0
                  /\ \A k \in 1 .. Len(s) : f[k] = f[k - 1] + s[k]
                  /\ Total(s) = f[Len(s)]
<1> DEFINE f == CHOOSE f : Sums(s, f)
<1>1. Sums(s, f)
  BY SumsExist
<1>2. Total(s) = f[Len(s)]
  BY DEF Total, Sums
<1> HIDE DEF f
<1>3. f[0] = 0 /\ \A k \in 1 .. Len(s) : f[k] = f[k - 1] + s[k]
  BY <1>1 DEF Sums
<1> QED BY <1>2, <1>3

(* A sum of sizes is one.                                                  *)
LEMMA TotalType ==
    ASSUME NEW s, Len(s) \in Nat, \A i \in 1 .. Len(s) : s[i] \in Nat
    PROVE  Total(s) \in Nat
<1>1. PICK f : /\ f[0] = 0
               /\ \A k \in 1 .. Len(s) : f[k] = f[k - 1] + s[k]
               /\ Total(s) = f[Len(s)]
  BY TotalIsLast
<1> DEFINE S == {k \in Nat : f[k] \in Nat}
<1>2. 0 \in S
  BY <1>1
<1>3. ASSUME NEW k \in Nat, k < Len(s), k \in S PROVE k + 1 \in S
  <2>1. k + 1 \in 1 .. Len(s) /\ k + 1 - 1 = k
    BY <1>3
  <2>2. f[k + 1] = f[k] + s[k + 1]
    BY <1>1, <2>1
  <2> QED BY <1>3, <2>1, <2>2
<1> HIDE DEF S
<1>4. Len(s) \in S
  BY <1>2, <1>3, UpTo
<1> QED BY <1>1, <1>4 DEF S

(* Sizes of at most 88, but for the one at big.                            *)
LEMMA TotalBound ==
    ASSUME NEW s, Len(s) \in Nat, NEW big, NEW extra \in Nat,
           \A i \in 1 .. Len(s) : s[i] \in Nat /\ s[i] <= 88 + IF i = big THEN extra ELSE 0
    PROVE  Total(s) \in Nat /\ Total(s) <= 88 * Len(s) + extra
<1>1. PICK f : /\ f[0] = 0
               /\ \A k \in 1 .. Len(s) : f[k] = f[k - 1] + s[k]
               /\ Total(s) = f[Len(s)]
  BY TotalIsLast
<1> DEFINE Room(k) == IF big \in 1 .. k THEN extra ELSE 0
           S == {k \in Nat : f[k] \in Nat /\ f[k] <= 88 * k + Room(k)}
<1>2. 0 \in S
  BY <1>1
<1>3. ASSUME NEW k \in Nat, k < Len(s), k \in S PROVE k + 1 \in S
  <2>1. k + 1 \in 1 .. Len(s) /\ k + 1 - 1 = k
    BY <1>3
  <2>2. f[k + 1] = f[k] + s[k + 1]
    BY <1>1, <2>1
  <2>3. s[k + 1] \in Nat /\ s[k + 1] <= 88 + IF k + 1 = big THEN extra ELSE 0
    BY <2>1
  <2>4. f[k] \in Nat /\ f[k] <= 88 * k + Room(k)
    BY <1>3
  <2>5. CASE k + 1 = big
    <3>1. Room(k) = 0 /\ Room(k + 1) = extra
      BY <2>5
    <3> QED BY <2>2, <2>3, <2>4, <2>5, <3>1
  <2>6. CASE k + 1 # big
    <3>1. Room(k) = Room(k + 1)
      BY <2>6
    <3>2. Room(k) \in Nat
      OBVIOUS
    <3> HIDE DEF Room
    <3> QED BY <2>2, <2>3, <2>4, <2>6, <3>1, <3>2
  <2> QED BY <2>5, <2>6
<1> HIDE DEF S
<1>4. Len(s) \in S
  BY <1>2, <1>3, UpTo
<1> QED BY <1>1, <1>4 DEF S

(* Of four sizes: the reply of READDIR.                                    *)
LEMMA TotalOfFour ==
    ASSUME NEW s, Len(s) = 4, \A i \in 1 .. 4 : s[i] \in Nat
    PROVE  Total(s) = s[1] + s[2] + s[3] + s[4]
<1>0. Len(s) \in Nat
  OBVIOUS
<1>1. PICK f : /\ f[0] = 0
               /\ \A k \in 1 .. Len(s) : f[k] = f[k - 1] + s[k]
               /\ Total(s) = f[Len(s)]
  BY <1>0, TotalIsLast
<1>2. f[1] = f[0] + s[1] /\ f[2] = f[1] + s[2] /\ f[3] = f[2] + s[3] /\ f[4] = f[3] + s[4]
  BY <1>1
<1> QED BY <1>1, <1>2

(* Parts in order: their sizes add up, their fields come together.         *)
LEMMA InOrderParts ==
    ASSUME NEW n \in Nat, NEW parts, parts = [i \in 1 .. n |-> parts[i]]
    PROVE  /\ InOrder(parts).size = Total([i \in 1 .. n |-> parts[i].size])
           /\ \A x \in InOrder(parts).from : \E i \in 1 .. n : x \in parts[i].from
           /\ Len([i \in 1 .. n |-> parts[i].size]) = n
<1>1. DOMAIN parts = 1 .. n
  OBVIOUS
<1>2. InOrder(parts).size = Total([i \in 1 .. n |-> parts[i].size])
  BY <1>1 DEF InOrder
<1>3. \A x \in InOrder(parts).from : \E i \in 1 .. n : x \in parts[i].from
  BY <1>1 DEF InOrder
<1>4. Len([i \in 1 .. n |-> parts[i].size]) = n
  OBVIOUS
<1> QED BY <1>2, <1>3, <1>4

-----------------------------------------------------------------------------
(* The writes of a procedure.                                              *)
Writes(proc, mem, writes, f) ==
    f = [k \in 0 .. Len(writes) |-> IF k = 0 THEN mem ELSE Store(proc, f[k - 1], writes[k])]

LEMMA WritesExist ==
    ASSUME NEW proc, NEW mem, NEW writes, Len(writes) \in Nat
    PROVE  \E f : Writes(proc, mem, writes, f)
<1> DEFINE n == Len(writes)
           St(m, w) == Store(proc, m, w)
           UpToK(k, f) == f = [j \in 0 .. k |-> IF j = 0 THEN mem ELSE St(f[j - 1], writes[j])]
           S == {k \in Nat : \E f : UpToK(k, f)}
<1> HIDE DEF St
<1>1. 0 \in S
  <2> DEFINE f == [j \in 0 .. 0 |-> mem]
  <2>1. UpToK(0, f)
    OBVIOUS
  <2> QED BY <2>1
<1>2. ASSUME NEW k \in Nat, k < n, k \in S PROVE k + 1 \in S
  <2>1. PICK f : UpToK(k, f)
    BY <1>2
  <2> DEFINE g == [j \in 0 .. k + 1 |-> IF j = k + 1 THEN St(f[k], writes[k + 1]) ELSE f[j]]
  <2>2. \A j \in 0 .. k : f[j] = IF j = 0 THEN mem ELSE St(f[j - 1], writes[j])
    BY <2>1
  <2>3. ASSUME NEW j \in 0 .. k + 1
        PROVE  g[j] = IF j = 0 THEN mem ELSE St(g[j - 1], writes[j])
    <3>1. CASE j = k + 1
      <4>1. j # 0 /\ j - 1 = k /\ k \in 0 .. k + 1 /\ k # k + 1
        BY <3>1
      <4> QED BY <3>1, <4>1
    <3>2. CASE j # k + 1
      <4>1. j \in 0 .. k /\ (j # 0 => j - 1 \in 0 .. k + 1 /\ j - 1 # k + 1)
        BY <3>2
      <4> QED BY <2>2, <3>2, <4>1
    <3> QED BY <3>1, <3>2
  <2>4. g = [j \in 0 .. k + 1 |-> IF j = 0 THEN mem ELSE St(g[j - 1], writes[j])]
    <3>1. DOMAIN g = 0 .. k + 1 /\ g = [j \in 0 .. k + 1 |-> g[j]]
      OBVIOUS
    <3> HIDE DEF g
    <3> QED BY <2>3, <3>1
  <2> HIDE DEF g
  <2>5. UpToK(k + 1, g)
    BY <2>4
  <2> QED BY <2>5
<1> HIDE DEF S
<1>3. n \in S
  <2> HIDE DEF n
  <2> QED BY <1>1, <1>2, UpTo DEF n
<1> QED BY <1>3 DEF S, Writes, St

LEMMA StoreAllIsLast ==
    ASSUME NEW proc, NEW mem, NEW writes, Len(writes) \in Nat
    PROVE  \E f : /\ f[0] = mem
                  /\ \A k \in 1 .. Len(writes) : f[k] = Store(proc, f[k - 1], writes[k])
                  /\ StoreAll(proc, mem, writes) = f[Len(writes)]
<1> DEFINE f == CHOOSE f : Writes(proc, mem, writes, f)
<1>1. Writes(proc, mem, writes, f)
  BY WritesExist
<1>2. StoreAll(proc, mem, writes) = f[Len(writes)]
  BY DEF StoreAll, Writes
<1> HIDE DEF f
<1>3. f[0] = mem /\ \A k \in 1 .. Len(writes) : f[k] = Store(proc, f[k - 1], writes[k])
  BY <1>1 DEF Writes
<1> QED BY <1>2, <1>3

-----------------------------------------------------------------------------
(* Layouts.  The two arms of each procedure's union have a common initial  *)
(* sequence, as long as resfail: this is what lets a procedure fill in     *)
(* either arm.                                                             *)
Arms == {"resok", "resfail"}
Distinct(arm) ==
    /\ Len(arm) \in Nat
    /\ DOMAIN arm = 1 .. Len(arm)
    /\ \A i, j \in 1 .. Len(arm) : arm[i].member = arm[j].member => i = j
Overlap(resok, resfail) ==
    /\ Distinct(resok) /\ Distinct(resfail)
    /\ Len(resfail) <= Len(resok)
    /\ \A i \in 1 .. Len(resfail) : resfail[i] = resok[i]

LEMMA Layouts == ASSUME NEW p \in Proc PROVE Overlap(Struct[p].resok, Struct[p].resfail)
<1> USE DEF Overlap, Distinct, F, Pre, Post, Fh, Wcc
<1>1. CASE p = "GETATTR"
  <2>1. Struct[p] = GETATTR3
    BY <1>1 DEF Struct
  <2> QED BY <2>1 DEF GETATTR3
<1>2. CASE p = "SETATTR"
  <2>1. Struct[p] = SETATTR3
    BY <1>2 DEF Struct
  <2> QED BY <2>1 DEF SETATTR3
<1>3. CASE p = "LOOKUP"
  <2>1. Struct[p] = LOOKUP3
    BY <1>3 DEF Struct
  <2> QED BY <2>1 DEF LOOKUP3
<1>4. CASE p = "ACCESS"
  <2>1. Struct[p] = ACCESS3
    BY <1>4 DEF Struct
  <2> QED BY <2>1 DEF ACCESS3
<1>5. CASE p = "READLINK"
  <2>1. Struct[p] = READLINK3
    BY <1>5 DEF Struct
  <2> QED BY <2>1 DEF READLINK3
<1>6. CASE p = "READ"
  <2>1. Struct[p] = READ3
    BY <1>6 DEF Struct
  <2> QED BY <2>1 DEF READ3
<1>7. CASE p = "WRITE"
  <2>1. Struct[p] = WRITE3
    BY <1>7 DEF Struct
  <2> QED BY <2>1 DEF WRITE3
<1>8. CASE p = "CREATE"
  <2>1. Struct[p] = CREATE3
    BY <1>8 DEF Struct
  <2> QED BY <2>1 DEF CREATE3, MadeOk
<1>9. CASE p = "MKDIR"
  <2>1. Struct[p] = MKDIR3
    BY <1>9 DEF Struct
  <2> QED BY <2>1 DEF MKDIR3, MadeOk
<1>10. CASE p = "SYMLINK"
  <2>1. Struct[p] = SYMLINK3
    BY <1>10 DEF Struct
  <2> QED BY <2>1 DEF SYMLINK3, MadeOk
<1>11. CASE p = "MKNOD"
  <2>1. Struct[p] = MKNOD3
    BY <1>11 DEF Struct
  <2> QED BY <2>1 DEF MKNOD3, MadeOk
<1>12. CASE p = "REMOVE"
  <2>1. Struct[p] = REMOVE3
    BY <1>12 DEF Struct
  <2> QED BY <2>1 DEF REMOVE3
<1>13. CASE p = "RMDIR"
  <2>1. Struct[p] = RMDIR3
    BY <1>13 DEF Struct
  <2> QED BY <2>1 DEF RMDIR3
<1>14. CASE p = "RENAME"
  <2>1. Struct[p] = RENAME3
    BY <1>14 DEF Struct
  <2> QED BY <2>1 DEF RENAME3, TwoWcc
<1>15. CASE p = "LINK"
  <2>1. Struct[p] = LINK3
    BY <1>15 DEF Struct
  <2> QED BY <2>1 DEF LINK3
<1>16. CASE p = "READDIR"
  <2>1. Struct[p] = READDIR3
    BY <1>16 DEF Struct
  <2> QED BY <2>1 DEF READDIR3, ListOk
<1>17. CASE p = "READDIRPLUS"
  <2>1. Struct[p] = READDIRPLUS3
    BY <1>17 DEF Struct
  <2> QED BY <2>1 DEF READDIRPLUS3, ListOk
<1>18. CASE p = "FSSTAT"
  <2>1. Struct[p] = FSSTAT3
    BY <1>18 DEF Struct
  <2> QED BY <2>1 DEF FSSTAT3
<1>19. CASE p = "FSINFO"
  <2>1. Struct[p] = FSINFO3
    BY <1>19 DEF Struct
  <2> QED BY <2>1 DEF FSINFO3
<1>20. CASE p = "PATHCONF"
  <2>1. Struct[p] = PATHCONF3
    BY <1>20 DEF Struct
  <2> QED BY <2>1 DEF PATHCONF3
<1>21. CASE p = "COMMIT"
  <2>1. Struct[p] = COMMIT3
    BY <1>21 DEF Struct
  <2> QED BY <2>1 DEF COMMIT3
<1>22. CASE p = "MNT"
  <2>1. Struct[p] = mountres3
    BY <1>22 DEF Struct
  <2> QED BY <2>1 DEF mountres3
<1> QED BY <1>1, <1>2, <1>3, <1>4, <1>5, <1>6, <1>7, <1>8, <1>9, <1>10, <1>11,
           <1>12, <1>13, <1>14, <1>15, <1>16, <1>17, <1>18, <1>19, <1>20, <1>21, <1>22
        DEF Proc, Struct

(* The encoders visit members of their arm, at most eleven; the member     *)
(* whose size has no bound of its own has one place.                       *)
BigAt(p) == CASE p = "READ" -> 4 [] p = "READDIR" -> 3 [] OTHER -> 0
Visits(members, arm, big) ==
    /\ Len(members) \in 0 .. 11
    /\ DOMAIN members = 1 .. Len(members)
    /\ \A i \in 1 .. Len(members) : \E j \in 1 .. Len(arm) :
          /\ arm[j].member = members[i]
          /\ arm[j].type \in {"bytes", "entry3"} => i = big

LEMMA Visited ==
    ASSUME NEW p \in Proc, NEW arm \in Arms
    PROVE  Visits(XdrOf[p][arm], Struct[p][arm], BigAt(p))
<1> USE DEF Visits, F, Pre, Post, Fh, Wcc, Order, BigAt
<1>1. CASE p = "GETATTR"
  <2>1. Struct[p] = GETATTR3 /\ XdrOf[p] = xdr_GETATTR3 /\ BigAt(p) = 0
    BY <1>1 DEF Struct, XdrOf
  <2>2. Visits(xdr_GETATTR3.resok, GETATTR3.resok, 0)
    BY DEF GETATTR3, xdr_GETATTR3
  <2>3. Visits(xdr_GETATTR3.resfail, GETATTR3.resfail, 0)
    BY DEF GETATTR3, xdr_GETATTR3
  <2> HIDE DEF Visits
  <2> QED BY <2>1, <2>2, <2>3 DEF Arms
<1>2. CASE p = "SETATTR"
  <2>1. Struct[p] = SETATTR3 /\ XdrOf[p] = xdr_SETATTR3 /\ BigAt(p) = 0
    BY <1>2 DEF Struct, XdrOf
  <2>2. Visits(xdr_SETATTR3.resok, SETATTR3.resok, 0)
    BY DEF SETATTR3, xdr_SETATTR3, wcc_data
  <2>3. Visits(xdr_SETATTR3.resfail, SETATTR3.resfail, 0)
    BY DEF SETATTR3, xdr_SETATTR3, wcc_data
  <2> HIDE DEF Visits
  <2> QED BY <2>1, <2>2, <2>3 DEF Arms
<1>3. CASE p = "LOOKUP"
  <2>1. Struct[p] = LOOKUP3 /\ XdrOf[p] = xdr_LOOKUP3 /\ BigAt(p) = 0
    BY <1>3 DEF Struct, XdrOf
  <2>2. Visits(xdr_LOOKUP3.resok, LOOKUP3.resok, 0)
    BY DEF LOOKUP3, xdr_LOOKUP3
  <2>3. Visits(xdr_LOOKUP3.resfail, LOOKUP3.resfail, 0)
    BY DEF LOOKUP3, xdr_LOOKUP3
  <2> HIDE DEF Visits
  <2> QED BY <2>1, <2>2, <2>3 DEF Arms
<1>4. CASE p = "ACCESS"
  <2>1. Struct[p] = ACCESS3 /\ XdrOf[p] = xdr_ACCESS3 /\ BigAt(p) = 0
    BY <1>4 DEF Struct, XdrOf
  <2>2. Visits(xdr_ACCESS3.resok, ACCESS3.resok, 0)
    BY DEF ACCESS3, xdr_ACCESS3
  <2>3. Visits(xdr_ACCESS3.resfail, ACCESS3.resfail, 0)
    BY DEF ACCESS3, xdr_ACCESS3
  <2> HIDE DEF Visits
  <2> QED BY <2>1, <2>2, <2>3 DEF Arms
<1>5. CASE p = "READLINK"
  <2>1. Struct[p] = READLINK3 /\ XdrOf[p] = xdr_READLINK3 /\ BigAt(p) = 0
    BY <1>5 DEF Struct, XdrOf
  <2>2. Visits(xdr_READLINK3.resok, READLINK3.resok, 0)
    BY DEF READLINK3, xdr_READLINK3
  <2>3. Visits(xdr_READLINK3.resfail, READLINK3.resfail, 0)
    BY DEF READLINK3, xdr_READLINK3
  <2> HIDE DEF Visits
  <2> QED BY <2>1, <2>2, <2>3 DEF Arms
<1>6. CASE p = "READ"
  <2>1. Struct[p] = READ3 /\ XdrOf[p] = xdr_READ3 /\ BigAt(p) = 4
    BY <1>6 DEF Struct, XdrOf
  <2>2. Visits(xdr_READ3.resok, READ3.resok, 4)
    BY DEF READ3, xdr_READ3
  <2>3. Visits(xdr_READ3.resfail, READ3.resfail, 4)
    BY DEF READ3, xdr_READ3
  <2> HIDE DEF Visits
  <2> QED BY <2>1, <2>2, <2>3 DEF Arms
<1>7. CASE p = "WRITE"
  <2>1. Struct[p] = WRITE3 /\ XdrOf[p] = xdr_WRITE3 /\ BigAt(p) = 0
    BY <1>7 DEF Struct, XdrOf
  <2>2. Visits(xdr_WRITE3.resok, WRITE3.resok, 0)
    BY DEF WRITE3, xdr_WRITE3, wcc_data
  <2>3. Visits(xdr_WRITE3.resfail, WRITE3.resfail, 0)
    BY DEF WRITE3, xdr_WRITE3, wcc_data
  <2> HIDE DEF Visits
  <2> QED BY <2>1, <2>2, <2>3 DEF Arms
<1>8. CASE p = "CREATE"
  <2>1. Struct[p] = CREATE3 /\ XdrOf[p] = xdr_CREATE3 /\ BigAt(p) = 0
    BY <1>8 DEF Struct, XdrOf
  <2>2. Visits(xdr_CREATE3.resok, CREATE3.resok, 0)
    BY DEF CREATE3, xdr_CREATE3, MadeOk, made_data, wcc_data
  <2>3. Visits(xdr_CREATE3.resfail, CREATE3.resfail, 0)
    BY DEF CREATE3, xdr_CREATE3, MadeOk, made_data, wcc_data
  <2> HIDE DEF Visits
  <2> QED BY <2>1, <2>2, <2>3 DEF Arms
<1>9. CASE p = "MKDIR"
  <2>1. Struct[p] = MKDIR3 /\ XdrOf[p] = xdr_MKDIR3 /\ BigAt(p) = 0
    BY <1>9 DEF Struct, XdrOf
  <2>2. Visits(xdr_MKDIR3.resok, MKDIR3.resok, 0)
    BY DEF MKDIR3, xdr_MKDIR3, MadeOk, made_data, wcc_data
  <2>3. Visits(xdr_MKDIR3.resfail, MKDIR3.resfail, 0)
    BY DEF MKDIR3, xdr_MKDIR3, MadeOk, made_data, wcc_data
  <2> HIDE DEF Visits
  <2> QED BY <2>1, <2>2, <2>3 DEF Arms
<1>10. CASE p = "SYMLINK"
  <2>1. Struct[p] = SYMLINK3 /\ XdrOf[p] = xdr_SYMLINK3 /\ BigAt(p) = 0
    BY <1>10 DEF Struct, XdrOf
  <2>2. Visits(xdr_SYMLINK3.resok, SYMLINK3.resok, 0)
    BY DEF SYMLINK3, xdr_SYMLINK3, MadeOk, made_data, wcc_data
  <2>3. Visits(xdr_SYMLINK3.resfail, SYMLINK3.resfail, 0)
    BY DEF SYMLINK3, xdr_SYMLINK3, MadeOk, made_data, wcc_data
  <2> HIDE DEF Visits
  <2> QED BY <2>1, <2>2, <2>3 DEF Arms
<1>11. CASE p = "MKNOD"
  <2>1. Struct[p] = MKNOD3 /\ XdrOf[p] = xdr_MKNOD3 /\ BigAt(p) = 0
    BY <1>11 DEF Struct, XdrOf
  <2>2. Visits(xdr_MKNOD3.resok, MKNOD3.resok, 0)
    BY DEF MKNOD3, xdr_MKNOD3, MadeOk, made_data, wcc_data
  <2>3. Visits(xdr_MKNOD3.resfail, MKNOD3.resfail, 0)
    BY DEF MKNOD3, xdr_MKNOD3, MadeOk, made_data, wcc_data
  <2> HIDE DEF Visits
  <2> QED BY <2>1, <2>2, <2>3 DEF Arms
<1>12. CASE p = "REMOVE"
  <2>1. Struct[p] = REMOVE3 /\ XdrOf[p] = xdr_REMOVE3 /\ BigAt(p) = 0
    BY <1>12 DEF Struct, XdrOf
  <2>2. Visits(xdr_REMOVE3.resok, REMOVE3.resok, 0)
    BY DEF REMOVE3, xdr_REMOVE3, wcc_data
  <2>3. Visits(xdr_REMOVE3.resfail, REMOVE3.resfail, 0)
    BY DEF REMOVE3, xdr_REMOVE3, wcc_data
  <2> HIDE DEF Visits
  <2> QED BY <2>1, <2>2, <2>3 DEF Arms
<1>13. CASE p = "RMDIR"
  <2>1. Struct[p] = RMDIR3 /\ XdrOf[p] = xdr_RMDIR3 /\ BigAt(p) = 0
    BY <1>13 DEF Struct, XdrOf
  <2>2. Visits(xdr_RMDIR3.resok, RMDIR3.resok, 0)
    BY DEF RMDIR3, xdr_RMDIR3, wcc_data
  <2>3. Visits(xdr_RMDIR3.resfail, RMDIR3.resfail, 0)
    BY DEF RMDIR3, xdr_RMDIR3, wcc_data
  <2> HIDE DEF Visits
  <2> QED BY <2>1, <2>2, <2>3 DEF Arms
<1>14. CASE p = "RENAME"
  <2>1. Struct[p] = RENAME3 /\ XdrOf[p] = xdr_RENAME3 /\ BigAt(p) = 0
    BY <1>14 DEF Struct, XdrOf
  <2>2. Visits(xdr_RENAME3.resok, RENAME3.resok, 0)
    BY DEF RENAME3, xdr_RENAME3, TwoWcc
  <2>3. Visits(xdr_RENAME3.resfail, RENAME3.resfail, 0)
    BY DEF RENAME3, xdr_RENAME3, TwoWcc
  <2> HIDE DEF Visits
  <2> QED BY <2>1, <2>2, <2>3 DEF Arms
<1>15. CASE p = "LINK"
  <2>1. Struct[p] = LINK3 /\ XdrOf[p] = xdr_LINK3 /\ BigAt(p) = 0
    BY <1>15 DEF Struct, XdrOf
  <2>2. Visits(xdr_LINK3.resok, LINK3.resok, 0)
    BY DEF LINK3, xdr_LINK3
  <2>3. Visits(xdr_LINK3.resfail, LINK3.resfail, 0)
    BY DEF LINK3, xdr_LINK3
  <2> HIDE DEF Visits
  <2> QED BY <2>1, <2>2, <2>3 DEF Arms
<1>16. CASE p = "READDIR"
  <2>1. Struct[p] = READDIR3 /\ XdrOf[p] = xdr_READDIR3 /\ BigAt(p) = 3
    BY <1>16 DEF Struct, XdrOf
  <2>2. Visits(xdr_READDIR3.resok, READDIR3.resok, 3)
    BY DEF READDIR3, xdr_READDIR3, ListOk
  <2>3. Visits(xdr_READDIR3.resfail, READDIR3.resfail, 3)
    BY DEF READDIR3, xdr_READDIR3, ListOk
  <2> HIDE DEF Visits
  <2> QED BY <2>1, <2>2, <2>3 DEF Arms
<1>17. CASE p = "READDIRPLUS"
  <2>1. Struct[p] = READDIRPLUS3 /\ XdrOf[p] = xdr_READDIRPLUS3 /\ BigAt(p) = 0
    BY <1>17 DEF Struct, XdrOf
  <2>2. Visits(xdr_READDIRPLUS3.resok, READDIRPLUS3.resok, 0)
    BY DEF READDIRPLUS3, xdr_READDIRPLUS3, ListOk
  <2>3. Visits(xdr_READDIRPLUS3.resfail, READDIRPLUS3.resfail, 0)
    BY DEF READDIRPLUS3, xdr_READDIRPLUS3, ListOk
  <2> HIDE DEF Visits
  <2> QED BY <2>1, <2>2, <2>3 DEF Arms
<1>18. CASE p = "FSSTAT"
  <2>1. Struct[p] = FSSTAT3 /\ XdrOf[p] = xdr_FSSTAT3 /\ BigAt(p) = 0
    BY <1>18 DEF Struct, XdrOf
  <2>2. Visits(xdr_FSSTAT3.resok, FSSTAT3.resok, 0)
    BY DEF FSSTAT3, xdr_FSSTAT3
  <2>3. Visits(xdr_FSSTAT3.resfail, FSSTAT3.resfail, 0)
    BY DEF FSSTAT3, xdr_FSSTAT3
  <2> HIDE DEF Visits
  <2> QED BY <2>1, <2>2, <2>3 DEF Arms
<1>19. CASE p = "FSINFO"
  <2>1. Struct[p] = FSINFO3 /\ XdrOf[p] = xdr_FSINFO3 /\ BigAt(p) = 0
    BY <1>19 DEF Struct, XdrOf
  <2>2. Visits(xdr_FSINFO3.resok, FSINFO3.resok, 0)
    BY DEF FSINFO3, xdr_FSINFO3
  <2>3. Visits(xdr_FSINFO3.resfail, FSINFO3.resfail, 0)
    BY DEF FSINFO3, xdr_FSINFO3
  <2> HIDE DEF Visits
  <2> QED BY <2>1, <2>2, <2>3 DEF Arms
<1>20. CASE p = "PATHCONF"
  <2>1. Struct[p] = PATHCONF3 /\ XdrOf[p] = xdr_PATHCONF3 /\ BigAt(p) = 0
    BY <1>20 DEF Struct, XdrOf
  <2>2. Visits(xdr_PATHCONF3.resok, PATHCONF3.resok, 0)
    BY DEF PATHCONF3, xdr_PATHCONF3
  <2>3. Visits(xdr_PATHCONF3.resfail, PATHCONF3.resfail, 0)
    BY DEF PATHCONF3, xdr_PATHCONF3
  <2> HIDE DEF Visits
  <2> QED BY <2>1, <2>2, <2>3 DEF Arms
<1>21. CASE p = "COMMIT"
  <2>1. Struct[p] = COMMIT3 /\ XdrOf[p] = xdr_COMMIT3 /\ BigAt(p) = 0
    BY <1>21 DEF Struct, XdrOf
  <2>2. Visits(xdr_COMMIT3.resok, COMMIT3.resok, 0)
    BY DEF COMMIT3, xdr_COMMIT3, wcc_data
  <2>3. Visits(xdr_COMMIT3.resfail, COMMIT3.resfail, 0)
    BY DEF COMMIT3, xdr_COMMIT3, wcc_data
  <2> HIDE DEF Visits
  <2> QED BY <2>1, <2>2, <2>3 DEF Arms
<1>22. CASE p = "MNT"
  <2>1. Struct[p] = mountres3 /\ XdrOf[p] = xdr_mountres3 /\ BigAt(p) = 0
    BY <1>22 DEF Struct, XdrOf
  <2>2. Visits(xdr_mountres3.resok, mountres3.resok, 0)
    BY DEF mountres3, xdr_mountres3
  <2>3. Visits(xdr_mountres3.resfail, mountres3.resfail, 0)
    BY DEF mountres3, xdr_mountres3
  <2> HIDE DEF Visits
  <2> QED BY <2>1, <2>2, <2>3 DEF Arms
<1> QED BY <1>1, <1>2, <1>3, <1>4, <1>5, <1>6, <1>7, <1>8, <1>9, <1>10, <1>11,
           <1>12, <1>13, <1>14, <1>15, <1>16, <1>17, <1>18, <1>19, <1>20, <1>21, <1>22
        DEF Proc, Struct

-----------------------------------------------------------------------------
(* Cells.  A member's cell is the same in either arm, no other member has  *)
(* it, and all cells of a procedure line up: no write spoils another.      *)
CellAt(p, j) == [i \in 1 .. j |-> Struct[p].resok[i].type]

LEMMA CellOf ==
    ASSUME NEW p \in Proc, NEW arm \in Arms, NEW j \in 1 .. Len(Struct[p][arm])
    PROVE  /\ IndexOf(Struct[p][arm], Struct[p][arm][j].member) = j
           /\ j \in 1 .. Len(Struct[p].resok)
           /\ Struct[p][arm][j] = Struct[p].resok[j]
           /\ Cell(Struct[p][arm], Struct[p][arm][j].member) = CellAt(p, j)
<1> DEFINE s == Struct[p][arm]
           ok == Struct[p].resok
<1>1. /\ Len(ok) \in Nat /\ Len(s) \in Nat /\ Len(s) <= Len(ok)
      /\ DOMAIN s = 1 .. Len(s)
      /\ \A a, b \in 1 .. Len(s) : s[a].member = s[b].member => a = b
      /\ \A a \in 1 .. Len(s) : s[a] = ok[a]
  BY Layouts DEF Overlap, Distinct, Arms
<1> HIDE DEF s, ok
<1>2. IndexOf(s, s[j].member) = j
  BY <1>1 DEF IndexOf, s
<1>3. j \in 1 .. Len(s)
  BY DEF s
<1>4. j \in 1 .. Len(ok) /\ s[j] = ok[j] /\ \A i \in 1 .. j : s[i] = ok[i]
  BY <1>1, <1>3
<1>5. Cell(s, s[j].member) = [i \in 1 .. j |-> ok[i].type]
  BY <1>2, <1>4 DEF Cell
<1> QED BY <1>2, <1>4, <1>5 DEF s, ok, CellAt

LEMMA Cells ==
    ASSUME NEW p \in Proc, NEW i \in Nat, NEW j \in Nat
    PROVE  /\ CellAt(p, i) = CellAt(p, j) => i = j
           /\ LineUp(CellAt(p, i), CellAt(p, j))
<1> DEFINE t(k) == Struct[p].resok[k].type
           c(n) == [k \in 1 .. n |-> t(k)]
<1> HIDE DEF t
<1>1. \A n \in Nat : DOMAIN c(n) = 1 .. n /\ Len(c(n)) = n
  OBVIOUS
<1>2. c(i) = c(j) => i = j
  BY <1>1
<1>3. ASSUME NEW a \in Nat, NEW b \in Nat, a <= b PROVE IsPrefix(c(a), c(b))
  <2>1. SubSeq(c(a), 1, a) = c(a) /\ SubSeq(c(b), 1, a) = c(a)
    BY <1>3
  <2> QED BY <1>1, <1>3, <2>1 DEF IsPrefix
<1>4. IsPrefix(c(i), c(j)) \/ IsPrefix(c(j), c(i))
  <2> HIDE DEF c
  <2> QED BY <1>3
<1> QED BY <1>2, <1>4 DEF LineUp, CellAt, t

(* A write to a member of one of the arms.                                 *)
Placed(p, w) ==
    /\ w.arm \in Arms
    /\ \E j \in 1 .. Len(Struct[p][w.arm]) : Struct[p][w.arm][j].member = w.member

(* A member that was written is read with the value of one of the writes   *)
(* from there on.                                                          *)
LEMMA LoadWritten ==
    ASSUME NEW p \in Proc, NEW mem, NEW writes, Len(writes) \in Nat,
           \A i \in 1 .. Len(writes) : Placed(p, writes[i]),
           NEW arm \in Arms, NEW j \in 1 .. Len(Struct[p][arm]),
           NEW k \in 1 .. Len(writes), writes[k].member = Struct[p][arm][j].member
    PROVE  \E i \in k .. Len(writes) :
              /\ writes[i].member = Struct[p][arm][j].member
              /\ Load(p, StoreAll(p, mem, writes), arm, Struct[p][arm][j].member)
                   = writes[i].value
<1> DEFINE m == Struct[p][arm][j].member
           cell == CellAt(p, j)
<1>1. PICK f : /\ f[0] = mem
               /\ \A n \in 1 .. Len(writes) : f[n] = Store(p, f[n - 1], writes[n])
               /\ StoreAll(p, mem, writes) = f[Len(writes)]
  BY StoreAllIsLast
<1>2. Cell(Struct[p][arm], m) = cell /\ Struct[p].resok[j].member = m
      /\ j \in 1 .. Len(Struct[p].resok)
  BY CellOf
<1>3. ASSUME NEW n \in 1 .. Len(writes)
      PROVE  /\ cell \in DOMAIN f[n - 1] => cell \in DOMAIN f[n]
             /\ writes[n].member = m => cell \in DOMAIN f[n] /\ f[n][cell] = writes[n].value
             /\ writes[n].member # m /\ cell \in DOMAIN f[n - 1] =>
                   f[n][cell] = f[n - 1][cell]
  <2> DEFINE w == writes[n]
  <2>1. PICK i \in 1 .. Len(Struct[p][w.arm]) : Struct[p][w.arm][i].member = w.member
    BY DEF Placed
  <2>2. w.arm \in Arms
    BY DEF Placed
  <2>3. /\ Cell(Struct[p][w.arm], w.member) = CellAt(p, i)
        /\ Struct[p].resok[i].member = w.member
        /\ i \in 1 .. Len(Struct[p].resok)
    BY <2>1, <2>2, CellOf
  <2>4. i = j <=> w.member = m
    BY <1>2, <2>3, Layouts DEF Overlap, Distinct
  <2>5. i \in Nat /\ j \in Nat
    BY <1>2, <2>3
  <2>6. LineUp(cell, CellAt(p, i)) /\ (cell = CellAt(p, i) <=> i = j)
    BY <2>5, Cells
  <2>7. f[n] = [c \in {d \in DOMAIN f[n - 1] : LineUp(d, CellAt(p, i))} \cup {CellAt(p, i)} |->
                   IF c = CellAt(p, i) THEN w.value ELSE f[n - 1][c]]
    BY <1>1, <2>3 DEF Store
  <2> HIDE DEF cell, m
  <2> QED BY <2>4, <2>6, <2>7
<1> DEFINE S == {n \in Nat : n >= k => /\ cell \in DOMAIN f[n]
                                       /\ \E i \in k .. n : /\ writes[i].member = m
                                                            /\ f[n][cell] = writes[i].value}
<1>4. 0 \in S
  OBVIOUS
<1>5. ASSUME NEW n \in Nat, n < Len(writes), n \in S PROVE n + 1 \in S
  <2>1. n + 1 \in 1 .. Len(writes) /\ n + 1 - 1 = n
    BY <1>5
  <2>2. CASE n + 1 < k
    BY <2>2
  <2>3. CASE n + 1 >= k /\ writes[n + 1].member = m
    <3>1. cell \in DOMAIN f[n + 1] /\ f[n + 1][cell] = writes[n + 1].value
      BY <1>3, <2>1, <2>3
    <3> HIDE DEF cell, m
    <3> QED BY <2>3, <3>1
  <2>4. CASE n + 1 >= k /\ writes[n + 1].member # m
    <3>1. n >= k
      BY <2>4
    <3>2. PICK i \in k .. n : writes[i].member = m /\ f[n][cell] = writes[i].value
      BY <1>5, <3>1
    <3>3. cell \in DOMAIN f[n]
      BY <1>5, <3>1
    <3>4. cell \in DOMAIN f[n + 1] /\ f[n + 1][cell] = f[n][cell]
      BY <1>3, <2>1, <2>4, <3>3
    <3>5. i \in k .. n + 1
      OBVIOUS
    <3> HIDE DEF cell, m
    <3> QED BY <3>2, <3>4, <3>5
  <2> QED BY <2>2, <2>3, <2>4
<1> HIDE DEF S
<1>6. Len(writes) \in S
  BY <1>4, <1>5, UpTo
<1>7. PICK i \in k .. Len(writes) : /\ cell \in DOMAIN f[Len(writes)]
                                    /\ writes[i].member = m
                                    /\ f[Len(writes)][cell] = writes[i].value
  BY <1>6 DEF S
<1>8. Load(p, StoreAll(p, mem, writes), arm, m) = writes[i].value
  BY <1>1, <1>2, <1>7 DEF Load
<1> QED BY <1>7, <1>8

-----------------------------------------------------------------------------
(* Fresh values: what a request may leave in a member of a given type.     *)
FreshAttributes(a) ==
    /\ \A f \in {"type", "mode", "size", "fsid", "fileid", "atime", "mtime", "ctime"} :
          a[f] = This
    /\ \A f \in {"nlink", "uid", "gid", "used", "rdev"} : a[f] \in {This, Stack}
FreshWcc(a) == \A f \in {"size", "mtime", "ctime"} : a[f] = This

Plain == {"uint32", "uint64", "verf3", "nfstime3", "int_array", "nfs_fh3", "post_op_fh3"}
Fresh(type, v) ==
    /\ v.by = This
    /\ v.follows \in BOOLEAN
    /\ \/ type \in Plain
       \/ type = "fattr3" /\ FreshAttributes(v.attributes)
       \/ type = "post_op_attr" /\ (v.follows => FreshAttributes(v.attributes))
       \/ type = "pre_op_attr" /\ (v.follows => FreshWcc(v.attributes))
       \/ type = "bytes" /\ v.len \in Nat
       \/ type = "entry3" /\ v.names \in Pages

LEMMA FreshNow ==
    ASSUME NEW type \in Plain \cup {"post_op_attr", "pre_op_attr"}
    PROVE  Fresh(type, Now)
  BY DEF Fresh, Now, Zero, Plain

LEMMA FreshHandle ==
    /\ Fresh("post_op_fh3", fh_comp_post)
    /\ \A found \in BOOLEAN : Fresh("post_op_fh3", fh_comp_type(found))
  BY DEF Fresh, Now, Zero, Plain, fh_comp_type, fh_comp_post

LEMMA FreshPost ==
    ASSUME NEW found \in BOOLEAN, NEW type \in {"post_op_attr", "fattr3"}
    PROVE  /\ Fresh(type, get_post(found))
           /\ Fresh(type, get_post_buf(statTranslator))
<1>1. Fresh(type, get_post_buf(statTranslator))
  <2>1. FreshAttributes(get_post_buf(statTranslator).attributes)
    BY DEF FreshAttributes, get_post_buf, statTranslator, StatField, Now, Zero
  <2>2. /\ get_post_buf(statTranslator).by = This
        /\ get_post_buf(statTranslator).follows = TRUE
    BY DEF get_post_buf, Now, Zero
  <2> QED BY <2>1, <2>2 DEF Fresh
<1>2. Fresh(type, error_attr)
  <2>1. FreshAttributes(error_attr.attributes)
    BY DEF FreshAttributes, error_attr, ZeroAttributes, Now, Zero
  <2>2. error_attr.by = This /\ error_attr.follows = FALSE
    BY DEF error_attr, Now, Zero
  <2> QED BY <2>1, <2>2 DEF Fresh
<1> QED BY <1>1, <1>2 DEF get_post

LEMMA FreshPre == ASSUME NEW found \in BOOLEAN PROVE Fresh("pre_op_attr", get_pre(found))
<1>1. Fresh("pre_op_attr", get_pre_buf(statTranslator))
  BY DEF Fresh, FreshWcc, get_pre_buf, statTranslator, StatField, Now, Zero
<1>2. ~found => get_pre(found).by = This /\ get_pre(found).follows = FALSE
  BY DEF get_pre, Now, Zero
<1> QED BY <1>1, <1>2 DEF get_pre, Fresh

LEMMA FreshData ==
    /\ \A n \in Nat : Fresh("bytes", Data(n)) /\ Data(n).len = n
    /\ \A names \in Pages : Fresh("entry3", Page(names)) /\ Page(names).names = names
  BY DEF Fresh, Data, Page, Now, Zero

-----------------------------------------------------------------------------
(* Encodings.  What is fresh is encoded as this request's, and no type but *)
(* the two open ones takes more than 88 bytes.                             *)
Own(e) == \A x \in e.from : x.by = This \/ (x.by = Stack /\ x.leaf \in NeverWritten)
(* Attributes are recognised by their type.                                *)
NoType(e) == \A x \in e.from : x.leaf # "type"
Sized(e, least, most) == e.size \in least .. most

LEMMA ItemIs ==
    ASSUME NEW leaf, NEW size, NEW by
    PROVE  /\ Item(leaf, size, by).size = size
           /\ by = This => Own(Item(leaf, size, by))
           /\ by = Stack /\ leaf \in NeverWritten => Own(Item(leaf, size, by))
           /\ leaf # "type" => NoType(Item(leaf, size, by))
  BY DEF Item, Own, NoType

LEMMA Behind ==
    ASSUME NEW x, NEW y
    PROVE  /\ (x ++ y).size = x.size + y.size
           /\ Own(x) /\ Own(y) => Own(x ++ y)
           /\ NoType(x) /\ NoType(y) => NoType(x ++ y)
  BY DEF ++, Own, NoType

LEMMA PaddedSize ==
    ASSUME NEW n \in Nat
    PROVE  NAME_SIZE(n) \in Nat /\ n <= NAME_SIZE(n) /\ NAME_SIZE(n) <= n + 3
  BY DEF NAME_SIZE

LEMMA EncodeHandle ==
    ASSUME NEW v, NEW b, v.by = This, b.fh = This
    PROVE  Own(xdr_nfs_fh3(v, b)) /\ xdr_nfs_fh3(v, b).size = 16 /\ NoType(xdr_nfs_fh3(v, b))
<1> DEFINE i1 == uint32("data_len", v.by)
           i2 == Item("handle", unfs3_fh_t_size, b.fh)
           i3 == Item("handle_past", fh_length - unfs3_fh_t_size, Stack)
           i4 == Item("padding", NAME_SIZE(fh_length) - fh_length, v.by)
<1>1. Own(i1) /\ i1.size = 4 /\ NoType(i1)
  BY ItemIs DEF uint32
<1>2. Own(i2) /\ i2.size = 9 /\ NoType(i2)
  BY ItemIs DEF unfs3_fh_t_size
<1>3. Own(i3) /\ i3.size = 1 /\ NoType(i3)
  BY ItemIs DEF unfs3_fh_t_size, fh_length, NeverWritten
<1>4. Own(i4) /\ i4.size = 2 /\ NoType(i4)
  BY ItemIs DEF NAME_SIZE, fh_length
<1> HIDE DEF i1, i2, i3, i4
<1>5. Own(i1 ++ i2) /\ (i1 ++ i2).size = 13 /\ NoType(i1 ++ i2)
  BY <1>1, <1>2, Behind
<1>6. Own(i1 ++ i2 ++ i3) /\ (i1 ++ i2 ++ i3).size = 14 /\ NoType(i1 ++ i2 ++ i3)
  BY <1>3, <1>5, Behind
<1>7. Own(i1 ++ i2 ++ i3 ++ i4) /\ (i1 ++ i2 ++ i3 ++ i4).size = 16
      /\ NoType(i1 ++ i2 ++ i3 ++ i4)
  BY <1>4, <1>6, Behind
<1> QED BY <1>7 DEF xdr_nfs_fh3, i1, i2, i3, i4

LEMMA EncodeAttributes ==
    ASSUME NEW a, FreshAttributes(a)
    PROVE  Own(xdr_fattr3(a)) /\ xdr_fattr3(a).size = 84
<1> DEFINE word(f) == uint32(f, a[f])
           long(f) == uint64(f, a[f])
           time(f) == xdr_nfstime3(f, a[f])
<1>1. \A f \in {"type", "mode", "nlink", "uid", "gid", "rdev"} :
         Own(word(f)) /\ word(f).size = 4
  BY ItemIs DEF FreshAttributes, NeverWritten, uint32
<1>2. \A f \in {"size", "used", "fsid", "fileid"} : Own(long(f)) /\ long(f).size = 8
  BY ItemIs DEF FreshAttributes, NeverWritten, uint64
<1>3. \A f \in {"atime", "mtime", "ctime"} : Own(time(f)) /\ time(f).size = 8
  <2>1. \A f \in {"atime", "mtime", "ctime"} : Own(word(f)) /\ word(f).size = 4
    BY ItemIs DEF FreshAttributes, uint32
  <2> QED BY <2>1, Behind DEF xdr_nfstime3
<1>4. xdr_fattr3(a) =
         word("type") ++ word("mode") ++ word("nlink") ++ word("uid") ++ word("gid")
         ++ long("size") ++ long("used") ++ word("rdev") ++ word("rdev")
         ++ long("fsid") ++ long("fileid") ++ time("atime") ++ time("mtime") ++ time("ctime")
  BY DEF xdr_fattr3
<1> HIDE DEF word, long, time
<1> DEFINE ids == word("type") ++ word("mode") ++ word("nlink") ++ word("uid") ++ word("gid")
           sizes == ids ++ long("size") ++ long("used") ++ word("rdev") ++ word("rdev")
           names == sizes ++ long("fsid") ++ long("fileid")
<1>5. Own(ids) /\ ids.size = 20
  BY <1>1, Behind
<1> HIDE DEF ids
<1>6. Own(sizes) /\ sizes.size = 44
  BY <1>1, <1>2, <1>5, Behind
<1> HIDE DEF sizes
<1>7. Own(names) /\ names.size = 60
  BY <1>2, <1>6, Behind
<1>8. xdr_fattr3(a) = names ++ time("atime") ++ time("mtime") ++ time("ctime")
  BY <1>4 DEF ids, sizes
<1> HIDE DEF names
<1> QED BY <1>3, <1>7, <1>8, Behind

LEMMA EncodeWcc ==
    ASSUME NEW a, FreshWcc(a)
    PROVE  Own(xdr_wcc_attr(a)) /\ xdr_wcc_attr(a).size = 24 /\ NoType(xdr_wcc_attr(a))
  BY DEF FreshWcc, Own, NoType, xdr_wcc_attr, uint64, uint32, xdr_nfstime3, Item, ++

LEMMA EncodeNothing == Own(Nothing) /\ Nothing.size = 0 /\ NoType(Nothing)
  BY DEF Own, Nothing, NoType

LEMMA EncodeEntry ==
    ASSUME NEW n \in Nat, NEW by, by = This
    PROVE  /\ Own(xdr_entry3(n, by)) /\ NoType(xdr_entry3(n, by))
           /\ xdr_entry3(n, by).size = ENTRY_SIZE + NAME_SIZE(n)
<1>1. NAME_SIZE(n) \in Nat
  BY PaddedSize
<1>2. Own(xdr_entry3(n, by)) /\ NoType(xdr_entry3(n, by))
  BY DEF Own, NoType, xdr_entry3, uint32, uint64, bytes, Item, ++
<1>3. xdr_entry3(n, by).size = ENTRY_SIZE + NAME_SIZE(n)
  <2> DEFINE size == NAME_SIZE(n)
  <2>1. xdr_entry3(n, by).size = 4 + 8 + (4 + size) + 8
    BY DEF xdr_entry3, uint32, uint64, bytes, Item, ++
  <2>2. size \in Nat
    BY <1>1
  <2> HIDE DEF size
  <2>3. xdr_entry3(n, by).size = 24 + size
    BY <2>1, <2>2
  <2> QED BY <2>3 DEF ENTRY_SIZE, size
<1> QED BY <1>2, <1>3

(* A page takes what READDIR budgets for it, less its heading.             *)
LEMMA EncodePage ==
    ASSUME NEW v, NEW b, v.by = This, b.entries = This, v.names \in Pages
    PROVE  /\ Own(xdr_entries(v, b)) /\ NoType(xdr_entries(v, b))
           /\ xdr_entries(v, b).size = 4 + PageSize(v.names) - RESOK_SIZE
           /\ PageSize(v.names) \in Nat /\ PageSize(v.names) >= RESOK_SIZE
<1> DEFINE names == v.names
           n == Len(names)
           e(i) == xdr_entry3(names[i], b.entries)
           parts == [i \in 1 .. n |-> e(i)]
           sizes == [i \in 1 .. n |-> ENTRY_SIZE + NAME_SIZE(names[i])]
<1>1. /\ names \in Seq(Nat) /\ n \in Nat /\ DOMAIN names = 1 .. n
      /\ \A i \in 1 .. n : names[i] \in Nat
  BY WireAssumption
<1> HIDE DEF names, n
<1>2. \A i \in 1 .. n : /\ Own(e(i)) /\ NoType(e(i))
                        /\ e(i).size = ENTRY_SIZE + NAME_SIZE(names[i])
  BY <1>1, EncodeEntry
<1>3. ASSUME NEW i \in 1 .. n PROVE ENTRY_SIZE + NAME_SIZE(names[i]) \in Nat
  <2>1. NAME_SIZE(names[i]) \in Nat
    BY <1>1, PaddedSize
  <2> QED BY <2>1 DEF ENTRY_SIZE
<1> HIDE DEF e
<1>4. parts = [i \in 1 .. n |-> parts[i]]
  OBVIOUS
<1>5. [i \in 1 .. n |-> parts[i].size] = sizes
  BY <1>2
<1>6. /\ InOrder(parts).size = Total(sizes)
      /\ \A x \in InOrder(parts).from : \E i \in 1 .. n : x \in parts[i].from
      /\ Len(sizes) = n
  <2> HIDE DEF parts, sizes
  <2> QED BY <1>1, <1>4, <1>5, InOrderParts
<1>7. Own(InOrder(parts)) /\ NoType(InOrder(parts))
  BY <1>2, <1>6 DEF Own, NoType
<1>8. Total(sizes) \in Nat
  <2>1. \A i \in 1 .. n : sizes[i] \in Nat
    BY <1>3
  <2> HIDE DEF sizes
  <2> QED BY <1>1, <1>6, <2>1, TotalType
<1>9. PageSize(names) = RESOK_SIZE + Total(sizes)
  BY <1>1 DEF PageSize
<1> DEFINE end == uint32("more", v.by)
<1>10. Own(end) /\ NoType(end) /\ end.size = 4
  BY ItemIs DEF uint32
<1>11. xdr_entries(v, b) = InOrder(parts) ++ end
  BY DEF xdr_entries, e, n, names
<1> HIDE DEF parts, sizes, end
<1>12. /\ Own(InOrder(parts) ++ end) /\ NoType(InOrder(parts) ++ end)
       /\ (InOrder(parts) ++ end).size = Total(sizes) + 4
  BY <1>6, <1>7, <1>10, Behind
<1> QED BY <1>1, <1>8, <1>9, <1>11, <1>12 DEF RESOK_SIZE, names

LEMMA EncodePost ==
    ASSUME NEW v, Fresh("post_op_attr", v)
    PROVE  /\ Own(xdr_post_op_attr(v)) /\ Sized(xdr_post_op_attr(v), 4, 88)
           /\ xdr_post_op_attr(v).size = IF v.follows THEN 88 ELSE 4
           /\ NoType(xdr_post_op_attr(v)) \/ v.follows
<1> DEFINE head == uint32("attributes_follow", v.by)
<1>1. v.by = This /\ v.follows \in BOOLEAN /\ (v.follows => FreshAttributes(v.attributes))
  BY DEF Fresh, Plain
<1>2. Own(head) /\ NoType(head) /\ head.size = 4
  BY <1>1, ItemIs DEF uint32
<1> HIDE DEF head
<1>3. xdr_post_op_attr(v) = head ++ IF v.follows THEN xdr_fattr3(v.attributes) ELSE Nothing
  BY DEF xdr_post_op_attr, head
<1>4. CASE v.follows
  BY <1>1, <1>2, <1>3, <1>4, EncodeAttributes, Behind DEF Sized
<1>5. CASE ~v.follows
  BY <1>2, <1>3, <1>5, EncodeNothing, Behind DEF Sized
<1> QED BY <1>4, <1>5

LEMMA EncodePre ==
    ASSUME NEW v, Fresh("pre_op_attr", v)
    PROVE  Own(xdr_pre_op_attr(v)) /\ Sized(xdr_pre_op_attr(v), 4, 88)
<1> DEFINE head == uint32("attributes_follow", v.by)
<1>1. v.by = This /\ v.follows \in BOOLEAN /\ (v.follows => FreshWcc(v.attributes))
  BY DEF Fresh, Plain
<1>2. Own(head) /\ head.size = 4
  BY <1>1, ItemIs DEF uint32
<1> HIDE DEF head
<1>3. xdr_pre_op_attr(v) = head ++ IF v.follows THEN xdr_wcc_attr(v.attributes) ELSE Nothing
  BY DEF xdr_pre_op_attr, head
<1>4. CASE v.follows
  BY <1>1, <1>2, <1>3, <1>4, EncodeWcc, Behind DEF Sized
<1>5. CASE ~v.follows
  BY <1>2, <1>3, <1>5, EncodeNothing, Behind DEF Sized
<1> QED BY <1>4, <1>5

LEMMA EncodeMadeHandle ==
    ASSUME NEW v, NEW b, Fresh("post_op_fh3", v), v.follows => b.fh = This
    PROVE  Own(xdr_post_op_fh3(v, b)) /\ Sized(xdr_post_op_fh3(v, b), 4, 88)
<1> DEFINE head == uint32("handle_follows", v.by)
<1>1. v.by = This /\ v.follows \in BOOLEAN
  BY DEF Fresh
<1>2. Own(head) /\ head.size = 4
  BY <1>1, ItemIs DEF uint32
<1> HIDE DEF head
<1>3. xdr_post_op_fh3(v, b) = head ++ IF v.follows THEN xdr_nfs_fh3(v, b) ELSE Nothing
  BY DEF xdr_post_op_fh3, head
<1>4. CASE v.follows
  BY <1>1, <1>2, <1>3, <1>4, EncodeHandle, Behind DEF Sized
<1>5. CASE ~v.follows
  BY <1>2, <1>3, <1>5, EncodeNothing, Behind DEF Sized
<1> QED BY <1>4, <1>5

(* The static buffers that a member's pointers lead to, and its bytes      *)
(* beyond 88.                                                              *)
Buffered(type, v, b) ==
    /\ type = "nfs_fh3" \/ (type = "post_op_fh3" /\ v.follows) => b.fh = This
    /\ type = "bytes" => b.data = This
    /\ type = "entry3" => b.entries = This
Beyond(type, v) ==
    IF type = "bytes" THEN v.len ELSE IF type = "entry3" THEN PageSize(v.names) ELSE 0
OkValue(type, v, b, extra) ==
    Fresh(type, v) /\ Buffered(type, v, b) /\ Beyond(type, v) <= extra

LEMMA EncodedMember ==
    ASSUME NEW type, NEW member, NEW v, NEW b, NEW extra \in Nat, OkValue(type, v, b, extra)
    PROVE  LET e == Encode(type, member, v, b)
           IN /\ Own(e)
              /\ e.size \in Nat
              /\ e.size <= 88 + IF type \in {"bytes", "entry3"} THEN extra ELSE 0
<1> DEFINE e == Encode(type, member, v, b)
           Goal == /\ Own(e) /\ e.size \in Nat
                   /\ e.size <= 88 + IF type \in {"bytes", "entry3"} THEN extra ELSE 0
<1> SUFFICES Goal
  OBVIOUS
<1>1. Fresh(type, v) /\ Buffered(type, v, b) /\ Beyond(type, v) <= extra /\ v.by = This
  BY DEF OkValue, Fresh
<1>2. CASE type = "fattr3"
  <2>1. Own(xdr_fattr3(v.attributes)) /\ xdr_fattr3(v.attributes).size = 84
    BY <1>1, <1>2, EncodeAttributes DEF Fresh, Plain
  <2>2. e = xdr_fattr3(v.attributes)
    BY <1>2 DEF Encode
  <2> HIDE DEF e
  <2> QED BY <1>2, <2>1, <2>2
<1>3. CASE type = "post_op_attr"
  <2>1. Own(xdr_post_op_attr(v)) /\ Sized(xdr_post_op_attr(v), 4, 88)
    BY <1>1, <1>3, EncodePost
  <2>2. e = xdr_post_op_attr(v)
    BY <1>3 DEF Encode
  <2> HIDE DEF e
  <2> QED BY <1>3, <2>1, <2>2 DEF Sized
<1>4. CASE type = "pre_op_attr"
  <2>1. Own(xdr_pre_op_attr(v)) /\ Sized(xdr_pre_op_attr(v), 4, 88)
    BY <1>1, <1>4, EncodePre
  <2>2. e = xdr_pre_op_attr(v)
    BY <1>4 DEF Encode
  <2> HIDE DEF e
  <2> QED BY <1>4, <2>1, <2>2 DEF Sized
<1>5. CASE type = "nfs_fh3"
  <2>1. Own(xdr_nfs_fh3(v, b)) /\ xdr_nfs_fh3(v, b).size = 16
    BY <1>1, <1>5, EncodeHandle DEF Buffered
  <2>2. e = xdr_nfs_fh3(v, b)
    BY <1>5 DEF Encode
  <2> HIDE DEF e
  <2> QED BY <1>5, <2>1, <2>2
<1>6. CASE type = "post_op_fh3"
  <2>1. Own(xdr_post_op_fh3(v, b)) /\ Sized(xdr_post_op_fh3(v, b), 4, 88)
    BY <1>1, <1>6, EncodeMadeHandle DEF Buffered
  <2>2. e = xdr_post_op_fh3(v, b)
    BY <1>6 DEF Encode
  <2> HIDE DEF e
  <2> QED BY <1>6, <2>1, <2>2 DEF Sized
<1>7. CASE type = "bytes"
  <2> DEFINE head == uint32(member, v.by)
             data == Item(member, NAME_SIZE(v.len), b.data)
  <2>1. v.len \in Nat /\ v.len <= extra
    BY <1>1, <1>7 DEF Fresh, Plain, Beyond
  <2>2. NAME_SIZE(v.len) \in Nat /\ NAME_SIZE(v.len) <= v.len + 3
    BY <2>1, PaddedSize
  <2>3. Own(head) /\ head.size = 4 /\ Own(data) /\ data.size = NAME_SIZE(v.len)
    BY <1>1, <1>7, ItemIs DEF uint32, Buffered
  <2>4. e = head ++ data
    BY <1>7 DEF Encode, bytes
  <2> HIDE DEF e, head, data
  <2>5. Own(e) /\ e.size = 4 + NAME_SIZE(v.len)
    BY <2>3, <2>4, Behind
  <2> QED BY <1>7, <2>1, <2>2, <2>5
<1>8. CASE type = "entry3"
  <2>1. /\ Own(xdr_entries(v, b))
        /\ xdr_entries(v, b).size = 4 + PageSize(v.names) - RESOK_SIZE
        /\ PageSize(v.names) \in Nat /\ PageSize(v.names) >= RESOK_SIZE
    BY <1>1, <1>8, EncodePage DEF Fresh, Plain, Buffered
  <2>2. PageSize(v.names) <= extra
    BY <1>1, <1>8 DEF Beyond
  <2>3. e = xdr_entries(v, b)
    BY <1>8 DEF Encode
  <2> HIDE DEF e
  <2> DEFINE n == PageSize(v.names) - RESOK_SIZE
  <2>4. n \in Nat /\ n <= extra /\ e.size = 4 + n
    <3> DEFINE size == PageSize(v.names)
    <3> HIDE DEF e
    <3>1. size \in Nat /\ size >= RESOK_SIZE /\ e.size = 4 + size - RESOK_SIZE
      BY <2>1, <2>3
    <3>2. n = size - RESOK_SIZE /\ size <= extra
      BY <2>2
    <3> HIDE DEF n, size
    <3> QED BY <3>1, <3>2 DEF RESOK_SIZE
  <2> HIDE DEF n
  <2> QED BY <1>8, <2>1, <2>3, <2>4
<1>9. CASE type = "uint32"
  <2>1. e = uint32(member, v.by)
    BY <1>9 DEF Encode
  <2> HIDE DEF e
  <2> QED BY <1>1, <1>9, <2>1, ItemIs DEF uint32
<1>10. CASE type \in {"uint64", "verf3"}
  <2>1. e = uint64(member, v.by)
    BY <1>10 DEF Encode
  <2> HIDE DEF e
  <2> QED BY <1>1, <1>10, <2>1, ItemIs DEF uint64
<1>11. CASE type \in {"nfstime3", "int_array"}
  <2>1. e = uint32(member, v.by) ++ uint32(member, v.by)
    BY <1>11 DEF Encode, xdr_nfstime3
  <2>2. Own(uint32(member, v.by)) /\ uint32(member, v.by).size = 4
    BY <1>1, ItemIs DEF uint32
  <2> HIDE DEF e
  <2>3. Own(e) /\ e.size = 8
    BY <2>1, <2>2, Behind
  <2> QED BY <1>11, <2>3
<1> HIDE DEF Goal
<1> QED
  BY <1>1, <1>2, <1>3, <1>4, <1>5, <1>6, <1>7, <1>8, <1>9, <1>10, <1>11 DEF Fresh, Plain

-----------------------------------------------------------------------------
(* Answers.  What a procedure must have written before its result is       *)
(* encoded: every member that the encoder visits, last with a good value.  *)
ArmOf(status) == IF status = "OK" THEN "resok" ELSE "resfail"
Settled(writes, field, b, extra) ==
    \E k \in 1 .. Len(writes) :
       /\ writes[k].member = field.member
       /\ \A i \in k .. Len(writes) :
             writes[i].member = field.member => OkValue(field.type, writes[i].value, b, extra)
Answered(p, status, writes, b, extra) ==
    /\ Len(writes) \in Nat
    /\ \A i \in 1 .. Len(writes) : Placed(p, writes[i])
    /\ \A i \in 1 .. Len(XdrOf[p][ArmOf(status)]), j \in 1 .. Len(Struct[p][ArmOf(status)]) :
          Struct[p][ArmOf(status)][j].member = XdrOf[p][ArmOf(status)][i]
             => Settled(writes, Struct[p][ArmOf(status)][j], b, extra)

LEMMA AnsweredMember ==
    ASSUME NEW p \in Proc, NEW status, NEW mem, NEW writes, NEW b, NEW extra \in Nat,
           Answered(p, status, writes, b, extra),
           NEW i \in 1 .. Len(XdrOf[p][ArmOf(status)])
    PROVE  \E j \in 1 .. Len(Struct[p][ArmOf(status)]) :
             LET field == Struct[p][ArmOf(status)][j]
                 v == Load(p, StoreAll(p, mem, writes), ArmOf(status), field.member)
             IN /\ field.member = XdrOf[p][ArmOf(status)][i]
                /\ OkValue(field.type, v, b, extra)
                /\ field.type \in {"bytes", "entry3"} => i = BigAt(p)
                /\ EncodeMember(p, ArmOf(status), field.member, StoreAll(p, mem, writes), b)
                     = Encode(field.type, field.member, v, b)
                /\ \E k \in 1 .. Len(writes) : /\ writes[k].member = field.member
                                               /\ v = writes[k].value
<1> DEFINE arm == ArmOf(status)
           st == StoreAll(p, mem, writes)
<1>1. arm \in Arms
  BY DEF ArmOf, Arms
<1>2. PICK j \in 1 .. Len(Struct[p][arm]) :
         /\ Struct[p][arm][j].member = XdrOf[p][arm][i]
         /\ Struct[p][arm][j].type \in {"bytes", "entry3"} => i = BigAt(p)
  BY <1>1, Visited DEF Visits
<1> DEFINE field == Struct[p][arm][j]
           v == Load(p, st, arm, field.member)
<1>3. Settled(writes, field, b, extra)
  BY <1>2 DEF Answered
<1>4. PICK k \in 1 .. Len(writes) :
         /\ writes[k].member = field.member
         /\ \A n \in k .. Len(writes) :
               writes[n].member = field.member => OkValue(field.type, writes[n].value, b, extra)
  BY <1>3 DEF Settled
<1>5. Len(writes) \in Nat /\ \A n \in 1 .. Len(writes) : Placed(p, writes[n])
  BY DEF Answered
<1> HIDE DEF arm
<1>6. PICK n \in k .. Len(writes) : writes[n].member = field.member /\ v = writes[n].value
  <2> HIDE DEF st, field
  <2>1. writes[k].member = Struct[p][arm][j].member
    BY <1>4 DEF field
  <2> QED BY <1>1, <1>5, <2>1, LoadWritten DEF field, st
<1>7. IndexOf(Struct[p][arm], field.member) = j
  BY <1>1, CellOf
<1>8. EncodeMember(p, arm, field.member, st, b) = Encode(field.type, field.member, v, b)
  BY <1>7 DEF EncodeMember
<1>9. OkValue(field.type, v, b, extra) /\ n \in 1 .. Len(writes)
  BY <1>4, <1>5, <1>6
<1> HIDE DEF v, field, st
<1>10. /\ field.member = XdrOf[p][arm][i]
       /\ OkValue(field.type, v, b, extra)
       /\ field.type \in {"bytes", "entry3"} => i = BigAt(p)
       /\ EncodeMember(p, arm, field.member, st, b) = Encode(field.type, field.member, v, b)
       /\ \E x \in 1 .. Len(writes) : writes[x].member = field.member /\ v = writes[x].value
  BY <1>2, <1>6, <1>8, <1>9 DEF field
<1> QED BY <1>10 DEF arm, v, field, st

LEMMA AnswerIs ==
    ASSUME NEW p \in Proc, NEW status, NEW mem, NEW writes, NEW b, NEW extra \in Nat,
           Answered(p, status, writes, b, extra)
    PROVE  LET e == EncodeRes(p, status, StoreAll(p, mem, writes), b)
           IN /\ Own(e)
              /\ e.size \in Nat
              /\ e.size <= 4 + 88 * 11 + extra
<1> DEFINE arm == ArmOf(status)
           members == XdrOf[p][arm]
           n == Len(members)
           enc(m) == EncodeMember(p, arm, m, StoreAll(p, mem, writes), b)
           parts == [i \in 1 .. n |-> enc(members[i])]
           sizes == [i \in 1 .. n |-> parts[i].size]
           head == uint32("status", This)
<1>1. n \in 0 .. 11 /\ DOMAIN members = 1 .. n
  <2>1. arm \in Arms
    BY DEF ArmOf, Arms
  <2> QED BY <2>1, Visited DEF Visits
<1>2. ASSUME NEW i \in 1 .. n
      PROVE  /\ Own(enc(members[i]))
             /\ enc(members[i]).size \in Nat
             /\ enc(members[i]).size <= 88 + IF i = BigAt(p) THEN extra ELSE 0
  <2>1. PICK j \in 1 .. Len(Struct[p][arm]) :
           LET field == Struct[p][arm][j]
               v == Load(p, StoreAll(p, mem, writes), arm, field.member)
           IN /\ field.member = members[i]
              /\ OkValue(field.type, v, b, extra)
              /\ field.type \in {"bytes", "entry3"} => i = BigAt(p)
              /\ enc(field.member) = Encode(field.type, field.member, v, b)
    BY AnsweredMember
  <2> DEFINE type == Struct[p][arm][j].type
             v == Load(p, StoreAll(p, mem, writes), arm, members[i])
             e == Encode(type, members[i], v, b)
  <2>2. /\ Own(e)
        /\ e.size \in Nat
        /\ e.size <= 88 + IF type \in {"bytes", "entry3"} THEN extra ELSE 0
    BY <2>1, EncodedMember
  <2>3. enc(members[i]) = e /\ (type \in {"bytes", "entry3"} => i = BigAt(p))
    BY <2>1
  <2> HIDE DEF enc, e, type
  <2> QED BY <2>2, <2>3
<1>3. EncodeRes(p, status, StoreAll(p, mem, writes), b) = head ++ InOrder(parts)
  BY <1>1 DEF EncodeRes, ArmOf
<1> HIDE DEF enc, n, members
<1>4. n \in Nat /\ parts = [i \in 1 .. n |-> parts[i]]
  BY <1>1
<1>5. \A i \in 1 .. n : parts[i] = enc(members[i]) /\ sizes[i] = enc(members[i]).size
  OBVIOUS
<1> HIDE DEF parts, sizes
<1>6. /\ InOrder(parts).size = Total(sizes)
      /\ \A x \in InOrder(parts).from : \E i \in 1 .. n : x \in parts[i].from
      /\ Len(sizes) = n
  BY <1>4, InOrderParts DEF sizes
<1>7. Own(InOrder(parts))
  BY <1>2, <1>5, <1>6 DEF Own
<1>8. Total(sizes) \in Nat /\ Total(sizes) <= 88 * n + extra
  <2>1. \A i \in 1 .. n : sizes[i] \in Nat /\ sizes[i] <= 88 + IF i = BigAt(p) THEN extra ELSE 0
    BY <1>2, <1>5
  <2> QED BY <1>4, <1>6, <2>1, TotalBound
<1>9. Own(head) /\ head.size = 4
  BY ItemIs DEF uint32
<1> HIDE DEF head
<1>10. /\ Own(head ++ InOrder(parts))
       /\ (head ++ InOrder(parts)).size = 4 + Total(sizes)
  BY <1>6, <1>7, <1>9, Behind
<1> QED BY <1>1, <1>3, <1>8, <1>10

-----------------------------------------------------------------------------
(* The invariant: the types of what is carried from one request to the     *)
(* next, and what is said of the last reply.                               *)
Buffers == [fh : Nat, data : Nat, entries : Nat]
WireTyped == served \in Nat /\ buffers \in Buffers
WireInv ==
    /\ WireTyped
    /\ ReplyIsThisRequests /\ ReadsDecoded /\ ReplyFits /\ ReaddirSizes /\ ReadStopsAtEof

(* What a call with this time_how may read without its being decoded.      *)
Skipped(a) == IF a.time \in time_how THEN {} ELSE {"mtime"}

(* A request that is answered this way, and reads only what was decoded,   *)
(* leaves a reply that is right; a page and the data of a READ apart.      *)
LEMMA ServedWell ==
    ASSUME NEW p \in Proc, NEW a, NEW reads, NEW status, NEW writes, NEW b \in Buffers,
           NEW udp \in BOOLEAN, NEW data, NEW extra \in Nat,
           WireTyped, ServeData(p, a, reads, status, writes, b, udp, data),
           Answered(p, status, writes, b, extra),
           udp /\ PageSize(data.names) <= ReplyLimit => extra <= NFS_MAXDATA_UDP,
           reads \subseteq Decoded(p, a) \cup {"new_attr"} \cup Skipped(a)
    PROVE  /\ WireTyped' /\ ReplyIsThisRequests' /\ ReadsDecoded' /\ ReplyFits'
           /\ p # "READDIR" => ReaddirSizes'
           /\ data = NoData => ReadStopsAtEof'
<1> DEFINE e == EncodeRes(p, status, StoreAll(p, result[p], writes), b)
           u == Undecoded(p, a, reads)
<1>1. /\ reply' = Reply("accepted", p, status, e, u, udp)
      /\ buffers' = b /\ served' = This /\ sent' = data
  BY DEF ServeData
<1>2. Own(e) /\ e.size \in Nat /\ e.size <= 4 + 88 * 11 + extra
  BY AnswerIs
<1>3. \A x \in u : \/ x.member = "mtime" /\ x.time \notin time_how /\ x.by = 0
                   \/ x.member = "new_attr"
  <2>1. SUFFICES ASSUME NEW m \in reads \ Decoded(p, a), m # "new_attr"
                 PROVE  m = "mtime" /\ a.time \notin time_how /\ Argument(m) = 0
    BY DEF Undecoded
  <2> QED BY <2>1 DEF Skipped, Argument, cleared
<1> HIDE DEF e, u
<1>4. /\ reply'.body = e /\ reply'.undecoded = u /\ reply'.udp = udp /\ reply'.proc = p
  BY <1>1 DEF Reply
<1>5. WireTyped'
  BY <1>1 DEF WireTyped, This
<1>6. ReplyIsThisRequests'
  BY <1>1, <1>2, <1>4 DEF ReplyIsThisRequests, Own
<1>7. ReadsDecoded'
  BY <1>3, <1>4 DEF ReadsDecoded
<1>8. ReplyFits'
  <2>1. SUFFICES ASSUME udp, PageSize(data.names) <= ReplyLimit
                 PROVE  RpcHeader + e.size <= NFS_MAX_UDP_PACKET
    BY <1>1, <1>4 DEF ReplyFits
  <2>2. extra <= NFS_MAXDATA_UDP
    BY <2>1
  <2> QED BY <1>2, <2>2 DEF RpcHeader, NFS_MAX_UDP_PACKET, NFS_MAXDATA_UDP
<1>9. p # "READDIR" => ReaddirSizes'
  BY <1>4 DEF ReaddirSizes
<1>10. data = NoData => ReadStopsAtEof'
  BY <1>1 DEF ReadStopsAtEof, NoData
<1> QED BY <1>5, <1>6, <1>7, <1>8, <1>9, <1>10

-----------------------------------------------------------------------------
(* Writes.  At names a member of an arm; Sound writes are to members, and  *)
(* good where the member is among those encoded; they Cover those.         *)
At(p, arm, member, type) ==
    arm \in Arms /\ \E j \in 1 .. Len(Struct[p][arm]) : Struct[p][arm][j] = F(member, type)
OkWrite(p, members, w, b, extra) ==
    \E type : /\ At(p, w.arm, w.member, type)
              /\ w.member \in members => OkValue(type, w.value, b, extra)
Sound(p, members, writes, b, extra) ==
    /\ Len(writes) \in Nat
    /\ writes = [i \in 1 .. Len(writes) |-> writes[i]]
    /\ \A i \in 1 .. Len(writes) : OkWrite(p, members, writes[i], b, extra)
Covers(members, writes) ==
    \A m \in members : \E i \in 1 .. Len(writes) : writes[i].member = m
Encodes(p, status) == {XdrOf[p][ArmOf(status)][i] : i \in 1 .. Len(XdrOf[p][ArmOf(status)])}

(* A member has one type, whichever arm it is looked up in.                *)
LEMMA FieldAt ==
    ASSUME NEW p \in Proc, NEW arm \in Arms, NEW j \in 1 .. Len(Struct[p][arm]),
           NEW other, NEW type, At(p, other, Struct[p][arm][j].member, type)
    PROVE  Struct[p][arm][j] = F(Struct[p][arm][j].member, type)
<1> DEFINE field == Struct[p][arm][j]
<1>1. other \in Arms
  BY DEF At
<1>2. PICK i \in 1 .. Len(Struct[p][other]) : Struct[p][other][i] = F(field.member, type)
  BY DEF At
<1>3. Struct[p].resok[i] = F(field.member, type) /\ i \in 1 .. Len(Struct[p].resok)
  BY <1>1, <1>2, CellOf
<1>4. Struct[p].resok[j] = field /\ j \in 1 .. Len(Struct[p].resok)
  BY CellOf
<1>5. Distinct(Struct[p].resok)
  BY Layouts DEF Overlap
<1>6. i = j
  BY <1>3, <1>4, <1>5 DEF Distinct, F
<1> QED BY <1>3, <1>4, <1>6

LEMMA AllSettled ==
    ASSUME NEW p \in Proc, NEW status, NEW writes, NEW b, NEW extra,
           Sound(p, Encodes(p, status), writes, b, extra), Covers(Encodes(p, status), writes)
    PROVE  Answered(p, status, writes, b, extra)
<1> DEFINE arm == ArmOf(status)
<1>0. arm \in Arms
  BY DEF ArmOf, Arms
<1>1. Len(writes) \in Nat
  BY DEF Sound
<1>2. ASSUME NEW i \in 1 .. Len(writes) PROVE Placed(p, writes[i])
  <2>1. PICK type : At(p, writes[i].arm, writes[i].member, type)
    BY DEF Sound, OkWrite
  <2>2. \A m : F(m, type).member = m
    BY DEF F
  <2> QED BY <2>1, <2>2 DEF At, Placed
<1>3. ASSUME NEW i \in 1 .. Len(XdrOf[p][arm]), NEW j \in 1 .. Len(Struct[p][arm]),
             Struct[p][arm][j].member = XdrOf[p][arm][i]
      PROVE  Settled(writes, Struct[p][arm][j], b, extra)
  <2> DEFINE field == Struct[p][arm][j]
  <2>1. field.member \in Encodes(p, status)
    BY <1>3 DEF Encodes
  <2>2. PICK k \in 1 .. Len(writes) : writes[k].member = field.member
    BY <2>1 DEF Covers
  <2>3. ASSUME NEW n \in k .. Len(writes), writes[n].member = field.member
        PROVE  OkValue(field.type, writes[n].value, b, extra)
    <3>1. n \in 1 .. Len(writes)
      BY <1>1
    <3>2. PICK type : /\ At(p, writes[n].arm, writes[n].member, type)
                      /\ OkValue(type, writes[n].value, b, extra)
      BY <2>1, <2>3, <3>1 DEF Sound, OkWrite
    <3>3. field = F(field.member, type)
      BY <1>0, <2>3, <3>2, FieldAt
    <3>4. field.type = type
      BY <3>3 DEF F
    <3> QED BY <3>2, <3>4
  <2> QED BY <2>2, <2>3 DEF Settled
<1> QED BY <1>1, <1>2, <1>3 DEF Answered

LEMMA SoundWrite ==
    ASSUME NEW p, NEW members, NEW arm, NEW m, NEW type, NEW v, NEW b, NEW extra,
           At(p, arm, m, type), m \in members => OkValue(type, v, b, extra)
    PROVE  OkWrite(p, members, W(arm, m, v), b, extra) /\ W(arm, m, v).member = m
  BY DEF OkWrite, W

LEMMA SoundOne ==
    ASSUME NEW p, NEW members, NEW b, NEW extra, NEW w, OkWrite(p, members, w, b, extra)
    PROVE  Sound(p, members, <<w>>, b, extra) /\ Covers({w.member}, <<w>>)
<1>1. Len(<<w>>) = 1 /\ <<w>> = [i \in 1 .. 1 |-> <<w>>[i]]
  OBVIOUS
<1>2. \A i \in 1 .. 1 : OkWrite(p, members, <<w>>[i], b, extra)
  OBVIOUS
<1>3. Covers({w.member}, <<w>>)
  BY DEF Covers
<1> QED BY <1>1, <1>2, <1>3 DEF Sound

LEMMA SoundEmpty ==
    ASSUME NEW p, NEW members, NEW b, NEW extra
    PROVE  Sound(p, members, <<>>, b, extra) /\ Covers({}, <<>>)
  BY DEF Sound, Covers

LEMMA SoundConcat ==
    ASSUME NEW p, NEW members, NEW b, NEW extra, NEW s, NEW t, NEW M, NEW N,
           Sound(p, members, s, b, extra), Covers(M, s),
           Sound(p, members, t, b, extra), Covers(N, t)
    PROVE  Sound(p, members, s \o t, b, extra) /\ Covers(M \cup N, s \o t)
<1> DEFINE all == {s[i] : i \in 1 .. Len(s)} \cup {t[i] : i \in 1 .. Len(t)}
           st == s \o t
<1>1. Len(s) \in Nat /\ Len(t) \in Nat
  BY DEF Sound
<1>2. s \in Seq(all) /\ t \in Seq(all)
  <2>1. s = [i \in 1 .. Len(s) |-> s[i]] /\ t = [i \in 1 .. Len(t) |-> t[i]]
    BY DEF Sound
  <2>2. \A i \in 1 .. Len(s) : s[i] \in all
    OBVIOUS
  <2>3. \A i \in 1 .. Len(t) : t[i] \in all
    OBVIOUS
  <2> HIDE DEF all
  <2>4. s \in [1 .. Len(s) -> all] /\ t \in [1 .. Len(t) -> all]
    BY <2>1, <2>2, <2>3
  <2> QED BY <1>1, <2>4
<1> HIDE DEF all
<1>3. /\ st \in Seq(all) /\ Len(st) = Len(s) + Len(t)
      /\ \A i \in 1 .. Len(s) + Len(t) :
            st[i] = IF i <= Len(s) THEN s[i] ELSE t[i - Len(s)]
  BY <1>2, ConcatProperties
<1> HIDE DEF st
<1>4. st = [i \in 1 .. Len(st) |-> st[i]] /\ Len(st) \in Nat
  BY <1>1, <1>3
<1>5. ASSUME NEW i \in 1 .. Len(st) PROVE OkWrite(p, members, st[i], b, extra)
  <2>1. CASE i <= Len(s)
    <3>1. i \in 1 .. Len(s) /\ st[i] = s[i]
      BY <1>1, <1>3, <2>1
    <3> QED BY <3>1 DEF Sound
  <2>2. CASE i > Len(s)
    <3>1. i - Len(s) \in 1 .. Len(t) /\ st[i] = t[i - Len(s)]
      BY <1>1, <1>3, <2>2
    <3> QED BY <3>1 DEF Sound
  <2> QED BY <1>1, <2>1, <2>2
<1>6. ASSUME NEW m \in M \cup N PROVE \E i \in 1 .. Len(st) : st[i].member = m
  <2>1. CASE m \in M
    <3>1. PICK i \in 1 .. Len(s) : s[i].member = m
      BY <2>1 DEF Covers
    <3>2. i \in 1 .. Len(st) /\ st[i] = s[i]
      BY <1>1, <1>3
    <3> QED BY <3>1, <3>2
  <2>2. CASE m \in N
    <3>1. PICK i \in 1 .. Len(t) : t[i].member = m
      BY <2>2 DEF Covers
    <3>2. Len(s) + i \in 1 .. Len(st) /\ st[Len(s) + i] = t[i]
      <4>1. Len(s) + i \in 1 .. Len(s) + Len(t) /\ Len(s) + i - Len(s) = i
            /\ (Len(s) + i <= Len(s) <=> FALSE)
        BY <1>1
      <4> QED BY <1>3, <4>1
    <3> QED BY <3>1, <3>2
  <2> QED BY <2>1, <2>2
<1> QED BY <1>4, <1>5, <1>6 DEF Sound, Covers, st

LEMMA SoundTwo ==
    ASSUME NEW p, NEW members, NEW b, NEW extra, NEW w1, NEW w2,
           OkWrite(p, members, w1, b, extra), OkWrite(p, members, w2, b, extra)
    PROVE  Sound(p, members, <<w1, w2>>, b, extra) /\ Covers({w1.member, w2.member}, <<w1, w2>>)
<1> DEFINE s == <<w1, w2>>
<1>1. Len(s) = 2 /\ s = [i \in 1 .. 2 |-> s[i]] /\ s[1] = w1 /\ s[2] = w2
  OBVIOUS
<1> HIDE DEF s
<1>2. \A i \in 1 .. 2 : OkWrite(p, members, s[i], b, extra)
  BY <1>1
<1>3. Covers({w1.member, w2.member}, s)
  BY <1>1 DEF Covers
<1> QED BY <1>1, <1>2, <1>3 DEF Sound, s

LEMMA SoundThree ==
    ASSUME NEW p, NEW members, NEW b, NEW extra, NEW w1, NEW w2, NEW w3,
           OkWrite(p, members, w1, b, extra), OkWrite(p, members, w2, b, extra),
           OkWrite(p, members, w3, b, extra)
    PROVE  /\ Sound(p, members, <<w1, w2, w3>>, b, extra)
           /\ Covers({w1.member, w2.member, w3.member}, <<w1, w2, w3>>)
<1> DEFINE s == <<w1, w2, w3>>
<1>1. /\ Len(s) = 3 /\ s = [i \in 1 .. 3 |-> s[i]]
      /\ s[1] = w1 /\ s[2] = w2 /\ s[3] = w3
  OBVIOUS
<1> HIDE DEF s
<1>2. \A i \in 1 .. 3 : OkWrite(p, members, s[i], b, extra)
  BY <1>1
<1>3. Covers({w1.member, w2.member, w3.member}, s)
  BY <1>1 DEF Covers
<1> QED BY <1>1, <1>2, <1>3 DEF Sound, s

(* Good values.                                                            *)
LEMMA OkNow ==
    ASSUME NEW b, NEW extra \in Nat,
           NEW type \in {"uint32", "uint64", "verf3", "nfstime3", "int_array",
                         "post_op_fh3", "post_op_attr", "pre_op_attr"}
    PROVE  OkValue(type, Now, b, extra)
<1>1. Fresh(type, Now)
  BY FreshNow DEF Plain
<1>2. Now.follows = FALSE
  BY DEF Now, Zero
<1> QED BY <1>1, <1>2 DEF OkValue, Buffered, Beyond

LEMMA OkHandle ==
    ASSUME NEW b, NEW extra \in Nat, b.fh = This
    PROVE  OkValue("nfs_fh3", Now, b, extra) /\ OkValue("post_op_fh3", fh_comp_post, b, extra)
<1>1. Fresh("nfs_fh3", Now)
  BY FreshNow DEF Plain
<1>2. Fresh("post_op_fh3", fh_comp_post)
  BY FreshHandle
<1>3. ASSUME NEW v, NEW type \in {"nfs_fh3", "post_op_fh3"}
      PROVE  Buffered(type, v, b) /\ Beyond(type, v) = 0
  BY DEF Buffered, Beyond
<1> QED BY <1>1, <1>2, <1>3 DEF OkValue

LEMMA OkMadeHandle ==
    ASSUME NEW b, NEW extra \in Nat, NEW found \in BOOLEAN, found => b.fh = This
    PROVE  OkValue("post_op_fh3", fh_comp_type(found), b, extra)
<1>1. CASE found
  <2>1. fh_comp_type(found) = fh_comp_post
    BY <1>1 DEF fh_comp_type
  <2> QED BY <1>1, <2>1, OkHandle
<1>2. CASE ~found
  <2>1. fh_comp_type(found) = Now
    BY <1>2 DEF fh_comp_type
  <2> QED BY <2>1, OkNow
<1> QED BY <1>1, <1>2

LEMMA OkPost ==
    ASSUME NEW b, NEW extra \in Nat, NEW found \in BOOLEAN,
           NEW type \in {"post_op_attr", "fattr3"}
    PROVE  /\ OkValue(type, get_post(found), b, extra)
           /\ OkValue(type, get_post_buf(statTranslator), b, extra)
  BY FreshPost DEF OkValue, Buffered, Beyond

LEMMA OkPre ==
    ASSUME NEW b, NEW extra \in Nat, NEW found \in BOOLEAN
    PROVE  OkValue("pre_op_attr", get_pre(found), b, extra)
<1>1. Fresh("pre_op_attr", get_pre(found))
  BY FreshPre
<1> QED BY <1>1 DEF OkValue, Buffered, Beyond

LEMMA SoundWcc ==
    ASSUME NEW p, NEW members, NEW b, NEW extra \in Nat, NEW arm,
           NEW pre \in BOOLEAN, NEW post \in BOOLEAN,
           At(p, arm, "before", "pre_op_attr"), At(p, arm, "after", "post_op_attr")
    PROVE  /\ Sound(p, members, WccOf(arm, pre, post), b, extra)
           /\ Covers({"before", "after"}, WccOf(arm, pre, post))
<1> DEFINE w1 == W(arm, "before", get_pre(pre))
           w2 == W(arm, "after", get_post(post))
<1>1. OkWrite(p, members, w1, b, extra) /\ w1.member = "before"
  BY OkPre, SoundWrite
<1>2. OkWrite(p, members, w2, b, extra) /\ w2.member = "after"
  BY OkPost, SoundWrite
<1>3. WccOf(arm, pre, post) = <<w1, w2>>
  BY DEF WccOf
<1> HIDE DEF w1, w2
<1> QED BY <1>1, <1>2, <1>3, SoundTwo

(* The fixed numbers of FSSTAT, FSINFO and PATHCONF, behind the attributes.*)
LEMMA SoundFixed ==
    ASSUME NEW p, NEW members, NEW b, NEW extra \in Nat, NEW post \in BOOLEAN,
           NEW names, Len(names) \in Nat, DOMAIN names = 1 .. Len(names),
           At(p, "resok", "obj_attributes", "post_op_attr"),
           \A i \in 1 .. Len(names) :
              \E type \in {"uint32", "uint64", "nfstime3"} : At(p, "resok", names[i], type)
    PROVE  LET writes == <<W("resok", "obj_attributes", get_post(post))>> \o Fixed(names)
           IN /\ Sound(p, members, writes, b, extra)
              /\ Covers({"obj_attributes"} \cup {names[i] : i \in 1 .. Len(names)}, writes)
<1> DEFINE n == Len(names)
           w(i) == W("resok", names[i], Now)
           head == W("resok", "obj_attributes", get_post(post))
           tail == Fixed(names)
<1>1. \A i \in 1 .. n : OkWrite(p, members, w(i), b, extra) /\ w(i).member = names[i]
  <2> SUFFICES ASSUME NEW i \in 1 .. n
               PROVE  OkWrite(p, members, w(i), b, extra) /\ w(i).member = names[i]
    OBVIOUS
  <2>1. PICK type \in {"uint32", "uint64", "nfstime3"} : At(p, "resok", names[i], type)
    OBVIOUS
  <2>2. OkValue(type, Now, b, extra)
    BY OkNow
  <2> QED BY <2>1, <2>2, SoundWrite
<1>2. OkWrite(p, members, head, b, extra) /\ head.member = "obj_attributes"
  <2>1. OkValue("post_op_attr", get_post(post), b, extra)
    BY OkPost
  <2> QED BY <2>1, SoundWrite
<1> HIDE DEF w, head, n
<1>3. tail = [i \in 1 .. n |-> w(i)]
  BY DEF Fixed, w, n
<1> HIDE DEF tail
<1>4. n \in Nat
  BY DEF n
<1>5. Len(tail) = n /\ tail = [i \in 1 .. Len(tail) |-> tail[i]]
      /\ \A i \in 1 .. n : tail[i] = w(i)
  BY <1>3, <1>4
<1>6. Sound(p, members, tail, b, extra)
  BY <1>1, <1>4, <1>5 DEF Sound
<1>7. Covers({names[i] : i \in 1 .. n}, tail)
  <2> SUFFICES ASSUME NEW i \in 1 .. n PROVE \E k \in 1 .. Len(tail) : tail[k].member = names[i]
    BY DEF Covers
  <2> QED BY <1>1, <1>5
<1>8. Sound(p, members, <<head>>, b, extra) /\ Covers({"obj_attributes"}, <<head>>)
  BY <1>2, SoundOne
<1>9. /\ Sound(p, members, <<head>> \o tail, b, extra)
      /\ Covers({"obj_attributes"} \cup {names[i] : i \in 1 .. n}, <<head>> \o tail)
  BY <1>6, <1>7, <1>8, SoundConcat
<1> QED BY <1>9 DEF head, tail, n

-----------------------------------------------------------------------------
(* Arguments: each is decoded as its type says.                            *)
Arg(p, member, type) ==
    /\ \E i \in DOMAIN Struct[p].args : Struct[p].args[i] = F(member, type)
    /\ \E k \in DOMAIN XdrOf[p].args : XdrOf[p].args[k] = member

LEMMA ArgDecoded ==
    ASSUME NEW p, NEW member, NEW type, NEW a, Arg(p, member, type)
    PROVE  Decode(type, member, a) \subseteq Decoded(p, a)
<1>1. PICK i \in DOMAIN Struct[p].args : Struct[p].args[i] = F(member, type)
  BY DEF Arg
<1>2. Struct[p].args[i].member = member /\ Struct[p].args[i].type = type
  BY <1>1 DEF F
<1>3. \E k \in DOMAIN XdrOf[p].args : XdrOf[p].args[k] = Struct[p].args[i].member
  BY <1>2 DEF Arg
<1> QED BY <1>2, <1>3 DEF Decoded

LEMMA BareDecoded ==
    ASSUME NEW p, NEW member, NEW a, NEW type \in {"nfs_fh3", "uint32", "uint64", "verf3",
                                                   "bytes", "nfspath3", "dirpath"},
           Arg(p, member, type)
    PROVE  member \in Decoded(p, a)
<1>1. Decode(type, member, a) = {member}
  BY DEF Decode
<1> QED BY <1>1, ArgDecoded

LEMMA NameDecoded ==
    ASSUME NEW p, NEW member, NEW a, Arg(p, member, "diropargs3")
    PROVE  {"dir", "name"} \subseteq Decoded(p, a)
<1>1. Decode("diropargs3", member, a) = {"dir", "name"}
  BY DEF Decode
<1> QED BY <1>1, ArgDecoded

(* A procedure other than READDIR and READ: what is to be shown of it.     *)
LEMMA Right ==
    ASSUME WireTyped, NEW p \in Proc, p # "READDIR", NEW a, NEW reads, NEW status, NEW writes,
           NEW b \in Buffers, Serve(p, a, reads, status, writes, b, TRUE),
           reads \subseteq Decoded(p, a) \cup {"new_attr"} \cup Skipped(a),
           NEW M, Encodes(p, status) \subseteq M,
           Sound(p, Encodes(p, status), writes, b, 0), Covers(M, writes)
    PROVE  WireInv'
<1>1. Covers(Encodes(p, status), writes)
  BY DEF Covers
<1>2. Answered(p, status, writes, b, 0)
  BY <1>1, AllSettled
<1>3. ServeData(p, a, reads, status, writes, b, TRUE, NoData)
  BY DEF Serve
<1>4. 0 <= NFS_MAXDATA_UDP
  BY DEF NFS_MAXDATA_UDP
<1>5. /\ WireTyped' /\ ReplyIsThisRequests' /\ ReadsDecoded' /\ ReplyFits'
      /\ ReaddirSizes' /\ ReadStopsAtEof'
  BY <1>2, <1>3, <1>4, ServedWell
<1> QED BY <1>5 DEF WireInv

-----------------------------------------------------------------------------
(* What each procedure's structures and routines give: arguments and       *)
(* members with their types, and the members encoded.                      *)
LEMMA GetattrTable ==
    /\ "GETATTR" \in Proc /\ Arg("GETATTR", "object", "nfs_fh3")
    /\ At("GETATTR", "resok", "obj_attributes", "fattr3")
    /\ Encodes("GETATTR", "OK") = {"obj_attributes"}
<1>1. Struct["GETATTR"] = GETATTR3 /\ XdrOf["GETATTR"] = xdr_GETATTR3 /\ "GETATTR" \in Proc
  BY DEF Struct, XdrOf, Proc
<1>2. /\ Arg("GETATTR", "object", "nfs_fh3")
  BY <1>1 DEF Arg, GETATTR3, xdr_GETATTR3, Order, F, Pre, Post, Fh, Wcc
<1>3. /\ At("GETATTR", "resok", "obj_attributes", "fattr3")
  BY <1>1 DEF At, Arms, GETATTR3, F, Pre, Post, Fh, Wcc
<1>4. /\ Encodes("GETATTR", "OK") = {"obj_attributes"}
  BY <1>1 DEF Encodes, ArmOf, xdr_GETATTR3, Order
<1> QED BY <1>1, <1>2, <1>3, <1>4

LEMMA SetattrTable ==
    /\ "SETATTR" \in Proc /\ Arg("SETATTR", "object", "nfs_fh3")
    /\ Arg("SETATTR", "new_attributes", "sattr3")
    /\ At("SETATTR", "resok", "before", "pre_op_attr")
    /\ At("SETATTR", "resok", "after", "post_op_attr")
    /\ Encodes("SETATTR", "OK") = {"before", "after"}
    /\ Encodes("SETATTR", "ERR") = {"before", "after"}
<1>1. Struct["SETATTR"] = SETATTR3 /\ XdrOf["SETATTR"] = xdr_SETATTR3 /\ "SETATTR" \in Proc
  BY DEF Struct, XdrOf, Proc
<1>2. /\ Arg("SETATTR", "object", "nfs_fh3") /\ Arg("SETATTR", "new_attributes", "sattr3")
  BY <1>1 DEF Arg, SETATTR3, xdr_SETATTR3, Order, F, Pre, Post, Fh, Wcc, wcc_data
<1>3. /\ At("SETATTR", "resok", "before", "pre_op_attr")
      /\ At("SETATTR", "resok", "after", "post_op_attr")
  BY <1>1 DEF At, Arms, SETATTR3, F, Pre, Post, Fh, Wcc
<1>4. /\ Encodes("SETATTR", "OK") = {"before", "after"}
      /\ Encodes("SETATTR", "ERR") = {"before", "after"}
  BY <1>1 DEF Encodes, ArmOf, xdr_SETATTR3, Order, wcc_data
<1> QED BY <1>1, <1>2, <1>3, <1>4

LEMMA LookupTable ==
    /\ "LOOKUP" \in Proc /\ Arg("LOOKUP", "what", "diropargs3")
    /\ At("LOOKUP", "resok", "object", "nfs_fh3")
    /\ At("LOOKUP", "resok", "obj_attributes", "post_op_attr")
    /\ At("LOOKUP", "resok", "dir_attributes", "post_op_attr")
    /\ Encodes("LOOKUP", "OK") = {"object", "obj_attributes", "dir_attributes"}
    /\ Encodes("LOOKUP", "ERR") = {"dir_attributes"}
<1>1. Struct["LOOKUP"] = LOOKUP3 /\ XdrOf["LOOKUP"] = xdr_LOOKUP3 /\ "LOOKUP" \in Proc
  BY DEF Struct, XdrOf, Proc
<1>2. /\ Arg("LOOKUP", "what", "diropargs3")
  BY <1>1 DEF Arg, LOOKUP3, xdr_LOOKUP3, Order, F, Pre, Post, Fh, Wcc
<1>3. /\ At("LOOKUP", "resok", "object", "nfs_fh3")
      /\ At("LOOKUP", "resok", "obj_attributes", "post_op_attr")
      /\ At("LOOKUP", "resok", "dir_attributes", "post_op_attr")
  BY <1>1 DEF At, Arms, LOOKUP3, F, Pre, Post, Fh, Wcc
<1>4. /\ Encodes("LOOKUP", "OK") = {"object", "obj_attributes", "dir_attributes"}
      /\ Encodes("LOOKUP", "ERR") = {"dir_attributes"}
  BY <1>1 DEF Encodes, ArmOf, xdr_LOOKUP3, Order
<1> QED BY <1>1, <1>2, <1>3, <1>4

LEMMA AccessTable ==
    /\ "ACCESS" \in Proc /\ Arg("ACCESS", "object", "nfs_fh3")
    /\ At("ACCESS", "resok", "access", "uint32")
    /\ At("ACCESS", "resok", "obj_attributes", "post_op_attr")
    /\ Encodes("ACCESS", "OK") = {"obj_attributes", "access"}
    /\ Encodes("ACCESS", "ERR") = {"obj_attributes"}
<1>1. Struct["ACCESS"] = ACCESS3 /\ XdrOf["ACCESS"] = xdr_ACCESS3 /\ "ACCESS" \in Proc
  BY DEF Struct, XdrOf, Proc
<1>2. /\ Arg("ACCESS", "object", "nfs_fh3")
  BY <1>1 DEF Arg, ACCESS3, xdr_ACCESS3, Order, F, Pre, Post, Fh, Wcc
<1>3. /\ At("ACCESS", "resok", "access", "uint32")
      /\ At("ACCESS", "resok", "obj_attributes", "post_op_attr")
  BY <1>1 DEF At, Arms, ACCESS3, F, Pre, Post, Fh, Wcc
<1>4. /\ Encodes("ACCESS", "OK") = {"obj_attributes", "access"}
      /\ Encodes("ACCESS", "ERR") = {"obj_attributes"}
  BY <1>1 DEF Encodes, ArmOf, xdr_ACCESS3, Order
<1> QED BY <1>1, <1>2, <1>3, <1>4

LEMMA ReadlinkTable ==
    /\ "READLINK" \in Proc /\ At("READLINK", "resfail", "symlink_attributes", "post_op_attr")
    /\ Encodes("READLINK", "ERR") = {"symlink_attributes"}
<1>1. Struct["READLINK"] = READLINK3 /\ XdrOf["READLINK"] = xdr_READLINK3 /\ "READLINK" \in Proc
  BY DEF Struct, XdrOf, Proc
<1>2. /\ At("READLINK", "resfail", "symlink_attributes", "post_op_attr")
  BY <1>1 DEF At, Arms, READLINK3, F, Pre, Post, Fh, Wcc
<1>3. /\ Encodes("READLINK", "ERR") = {"symlink_attributes"}
  BY <1>1 DEF Encodes, ArmOf, xdr_READLINK3, Order
<1> QED BY <1>1, <1>2, <1>3

LEMMA ReadTable ==
    /\ "READ" \in Proc /\ Arg("READ", "file", "nfs_fh3") /\ Arg("READ", "offset", "uint64")
    /\ Arg("READ", "count", "uint32") /\ At("READ", "resok", "eof", "uint32")
    /\ At("READ", "resok", "count", "uint32") /\ At("READ", "resok", "data", "bytes")
    /\ At("READ", "resok", "file_attributes", "post_op_attr")
    /\ Encodes("READ", "OK") = {"file_attributes", "count", "eof", "data"}
    /\ Encodes("READ", "ERR") = {"file_attributes"}
<1>1. Struct["READ"] = READ3 /\ XdrOf["READ"] = xdr_READ3 /\ "READ" \in Proc
  BY DEF Struct, XdrOf, Proc
<1>2. /\ Arg("READ", "file", "nfs_fh3") /\ Arg("READ", "offset", "uint64")
      /\ Arg("READ", "count", "uint32")
  BY <1>1 DEF Arg, READ3, xdr_READ3, Order, F, Pre, Post, Fh, Wcc
<1>3. /\ At("READ", "resok", "eof", "uint32") /\ At("READ", "resok", "count", "uint32")
      /\ At("READ", "resok", "data", "bytes")
      /\ At("READ", "resok", "file_attributes", "post_op_attr")
  BY <1>1 DEF At, Arms, READ3, F, Pre, Post, Fh, Wcc
<1>4. /\ Encodes("READ", "OK") = {"file_attributes", "count", "eof", "data"}
      /\ Encodes("READ", "ERR") = {"file_attributes"}
  BY <1>1 DEF Encodes, ArmOf, xdr_READ3, Order
<1> QED BY <1>1, <1>2, <1>3, <1>4

LEMMA WriteTable ==
    /\ "WRITE" \in Proc /\ Arg("WRITE", "file", "nfs_fh3") /\ Arg("WRITE", "offset", "uint64")
    /\ Arg("WRITE", "data", "bytes") /\ At("WRITE", "resok", "count", "uint32")
    /\ At("WRITE", "resok", "committed", "uint32") /\ At("WRITE", "resok", "verf", "verf3")
    /\ At("WRITE", "resok", "before", "pre_op_attr")
    /\ At("WRITE", "resok", "after", "post_op_attr")
    /\ Encodes("WRITE", "OK") = {"before", "after", "count", "committed", "verf"}
    /\ Encodes("WRITE", "ERR") = {"before", "after"}
<1>1. Struct["WRITE"] = WRITE3 /\ XdrOf["WRITE"] = xdr_WRITE3 /\ "WRITE" \in Proc
  BY DEF Struct, XdrOf, Proc
<1>2. /\ Arg("WRITE", "file", "nfs_fh3") /\ Arg("WRITE", "offset", "uint64")
      /\ Arg("WRITE", "data", "bytes")
  BY <1>1 DEF Arg, WRITE3, xdr_WRITE3, Order, F, Pre, Post, Fh, Wcc, wcc_data
<1>3. /\ At("WRITE", "resok", "count", "uint32") /\ At("WRITE", "resok", "committed", "uint32")
      /\ At("WRITE", "resok", "verf", "verf3") /\ At("WRITE", "resok", "before", "pre_op_attr")
      /\ At("WRITE", "resok", "after", "post_op_attr")
  BY <1>1 DEF At, Arms, WRITE3, F, Pre, Post, Fh, Wcc
<1>4. /\ Encodes("WRITE", "OK") = {"before", "after", "count", "committed", "verf"}
      /\ Encodes("WRITE", "ERR") = {"before", "after"}
  BY <1>1 DEF Encodes, ArmOf, xdr_WRITE3, Order, wcc_data
<1> QED BY <1>1, <1>2, <1>3, <1>4

LEMMA CreateTable ==
    /\ "CREATE" \in Proc /\ Arg("CREATE", "where", "diropargs3")
    /\ Arg("CREATE", "how", "createhow3") /\ At("CREATE", "resok", "obj", "post_op_fh3")
    /\ At("CREATE", "resok", "obj_attributes", "post_op_attr")
    /\ At("CREATE", "resok", "before", "pre_op_attr")
    /\ At("CREATE", "resok", "after", "post_op_attr")
    /\ Encodes("CREATE", "OK") = {"obj", "obj_attributes", "before", "after"}
    /\ Encodes("CREATE", "ERR") = {"before", "after"}
<1>1. Struct["CREATE"] = CREATE3 /\ XdrOf["CREATE"] = xdr_CREATE3 /\ "CREATE" \in Proc
  BY DEF Struct, XdrOf, Proc
<1>2. /\ Arg("CREATE", "where", "diropargs3") /\ Arg("CREATE", "how", "createhow3")
  BY <1>1 DEF Arg, CREATE3, xdr_CREATE3, Order, F, Pre, Post, Fh, Wcc, MadeOk, made_data, wcc_data
<1>3. /\ At("CREATE", "resok", "obj", "post_op_fh3")
      /\ At("CREATE", "resok", "obj_attributes", "post_op_attr")
      /\ At("CREATE", "resok", "before", "pre_op_attr")
      /\ At("CREATE", "resok", "after", "post_op_attr")
  BY <1>1 DEF At, Arms, CREATE3, F, Pre, Post, Fh, Wcc, MadeOk
<1>4. /\ Encodes("CREATE", "OK") = {"obj", "obj_attributes", "before", "after"}
      /\ Encodes("CREATE", "ERR") = {"before", "after"}
  BY <1>1 DEF Encodes, ArmOf, xdr_CREATE3, Order, made_data, wcc_data
<1> QED BY <1>1, <1>2, <1>3, <1>4

LEMMA MkdirTable ==
    /\ "MKDIR" \in Proc /\ Arg("MKDIR", "where", "diropargs3")
    /\ Arg("MKDIR", "attributes", "sattr3") /\ At("MKDIR", "resok", "obj", "post_op_fh3")
    /\ At("MKDIR", "resok", "obj_attributes", "post_op_attr")
    /\ At("MKDIR", "resok", "before", "pre_op_attr")
    /\ At("MKDIR", "resok", "after", "post_op_attr")
    /\ Encodes("MKDIR", "OK") = {"obj", "obj_attributes", "before", "after"}
    /\ Encodes("MKDIR", "ERR") = {"before", "after"}
<1>1. Struct["MKDIR"] = MKDIR3 /\ XdrOf["MKDIR"] = xdr_MKDIR3 /\ "MKDIR" \in Proc
  BY DEF Struct, XdrOf, Proc
<1>2. /\ Arg("MKDIR", "where", "diropargs3") /\ Arg("MKDIR", "attributes", "sattr3")
  BY <1>1 DEF Arg, MKDIR3, xdr_MKDIR3, Order, F, Pre, Post, Fh, Wcc, MadeOk, made_data, wcc_data
<1>3. /\ At("MKDIR", "resok", "obj", "post_op_fh3")
      /\ At("MKDIR", "resok", "obj_attributes", "post_op_attr")
      /\ At("MKDIR", "resok", "before", "pre_op_attr")
      /\ At("MKDIR", "resok", "after", "post_op_attr")
  BY <1>1 DEF At, Arms, MKDIR3, F, Pre, Post, Fh, Wcc, MadeOk
<1>4. /\ Encodes("MKDIR", "OK") = {"obj", "obj_attributes", "before", "after"}
      /\ Encodes("MKDIR", "ERR") = {"before", "after"}
  BY <1>1 DEF Encodes, ArmOf, xdr_MKDIR3, Order, made_data, wcc_data
<1> QED BY <1>1, <1>2, <1>3, <1>4

LEMMA SymlinkTable ==
    /\ "SYMLINK" \in Proc /\ At("SYMLINK", "resfail", "before", "pre_op_attr")
    /\ At("SYMLINK", "resfail", "after", "post_op_attr")
    /\ Encodes("SYMLINK", "ERR") = {"before", "after"}
<1>1. Struct["SYMLINK"] = SYMLINK3 /\ XdrOf["SYMLINK"] = xdr_SYMLINK3 /\ "SYMLINK" \in Proc
  BY DEF Struct, XdrOf, Proc
<1>2. /\ At("SYMLINK", "resfail", "before", "pre_op_attr")
      /\ At("SYMLINK", "resfail", "after", "post_op_attr")
  BY <1>1 DEF At, Arms, SYMLINK3, F, Pre, Post, Fh, Wcc
<1>3. /\ Encodes("SYMLINK", "ERR") = {"before", "after"}
  BY <1>1 DEF Encodes, ArmOf, xdr_SYMLINK3, Order, wcc_data
<1> QED BY <1>1, <1>2, <1>3

LEMMA MknodTable ==
    /\ "MKNOD" \in Proc /\ At("MKNOD", "resfail", "before", "pre_op_attr")
    /\ At("MKNOD", "resfail", "after", "post_op_attr")
    /\ Encodes("MKNOD", "ERR") = {"before", "after"}
<1>1. Struct["MKNOD"] = MKNOD3 /\ XdrOf["MKNOD"] = xdr_MKNOD3 /\ "MKNOD" \in Proc
  BY DEF Struct, XdrOf, Proc
<1>2. /\ At("MKNOD", "resfail", "before", "pre_op_attr")
      /\ At("MKNOD", "resfail", "after", "post_op_attr")
  BY <1>1 DEF At, Arms, MKNOD3, F, Pre, Post, Fh, Wcc
<1>3. /\ Encodes("MKNOD", "ERR") = {"before", "after"}
  BY <1>1 DEF Encodes, ArmOf, xdr_MKNOD3, Order, wcc_data
<1> QED BY <1>1, <1>2, <1>3

LEMMA RemoveTable ==
    /\ "REMOVE" \in Proc /\ Arg("REMOVE", "object", "diropargs3")
    /\ At("REMOVE", "resok", "before", "pre_op_attr")
    /\ At("REMOVE", "resok", "after", "post_op_attr")
    /\ Encodes("REMOVE", "OK") = {"before", "after"}
    /\ Encodes("REMOVE", "ERR") = {"before", "after"}
<1>1. Struct["REMOVE"] = REMOVE3 /\ XdrOf["REMOVE"] = xdr_REMOVE3 /\ "REMOVE" \in Proc
  BY DEF Struct, XdrOf, Proc
<1>2. /\ Arg("REMOVE", "object", "diropargs3")
  BY <1>1 DEF Arg, REMOVE3, xdr_REMOVE3, Order, F, Pre, Post, Fh, Wcc, wcc_data
<1>3. /\ At("REMOVE", "resok", "before", "pre_op_attr")
      /\ At("REMOVE", "resok", "after", "post_op_attr")
  BY <1>1 DEF At, Arms, REMOVE3, F, Pre, Post, Fh, Wcc
<1>4. /\ Encodes("REMOVE", "OK") = {"before", "after"}
      /\ Encodes("REMOVE", "ERR") = {"before", "after"}
  BY <1>1 DEF Encodes, ArmOf, xdr_REMOVE3, Order, wcc_data
<1> QED BY <1>1, <1>2, <1>3, <1>4

LEMMA RmdirTable ==
    /\ "RMDIR" \in Proc /\ Arg("RMDIR", "object", "diropargs3")
    /\ At("RMDIR", "resok", "before", "pre_op_attr")
    /\ At("RMDIR", "resok", "after", "post_op_attr")
    /\ Encodes("RMDIR", "OK") = {"before", "after"}
    /\ Encodes("RMDIR", "ERR") = {"before", "after"}
<1>1. Struct["RMDIR"] = RMDIR3 /\ XdrOf["RMDIR"] = xdr_RMDIR3 /\ "RMDIR" \in Proc
  BY DEF Struct, XdrOf, Proc
<1>2. /\ Arg("RMDIR", "object", "diropargs3")
  BY <1>1 DEF Arg, RMDIR3, xdr_RMDIR3, Order, F, Pre, Post, Fh, Wcc, wcc_data
<1>3. /\ At("RMDIR", "resok", "before", "pre_op_attr")
      /\ At("RMDIR", "resok", "after", "post_op_attr")
  BY <1>1 DEF At, Arms, RMDIR3, F, Pre, Post, Fh, Wcc
<1>4. /\ Encodes("RMDIR", "OK") = {"before", "after"}
      /\ Encodes("RMDIR", "ERR") = {"before", "after"}
  BY <1>1 DEF Encodes, ArmOf, xdr_RMDIR3, Order, wcc_data
<1> QED BY <1>1, <1>2, <1>3, <1>4

LEMMA RenameTable ==
    /\ "RENAME" \in Proc /\ Arg("RENAME", "from", "diropargs3")
    /\ Arg("RENAME", "to", "diropargs3") /\ At("RENAME", "resok", "from_before", "pre_op_attr")
    /\ At("RENAME", "resok", "from_after", "post_op_attr")
    /\ At("RENAME", "resok", "to_before", "pre_op_attr")
    /\ At("RENAME", "resok", "to_after", "post_op_attr")
    /\ Encodes("RENAME", "OK") = {"from_before", "from_after", "to_before", "to_after"}
    /\ Encodes("RENAME", "ERR") = {"from_before", "from_after", "to_before", "to_after"}
<1>1. Struct["RENAME"] = RENAME3 /\ XdrOf["RENAME"] = xdr_RENAME3 /\ "RENAME" \in Proc
  BY DEF Struct, XdrOf, Proc
<1>2. /\ Arg("RENAME", "from", "diropargs3") /\ Arg("RENAME", "to", "diropargs3")
  BY <1>1 DEF Arg, RENAME3, xdr_RENAME3, Order, F, Pre, Post, Fh, Wcc, TwoWcc
<1>3. /\ At("RENAME", "resok", "from_before", "pre_op_attr")
      /\ At("RENAME", "resok", "from_after", "post_op_attr")
      /\ At("RENAME", "resok", "to_before", "pre_op_attr")
      /\ At("RENAME", "resok", "to_after", "post_op_attr")
  BY <1>1 DEF At, Arms, RENAME3, F, Pre, Post, Fh, Wcc, TwoWcc
<1>4. /\ Encodes("RENAME", "OK") = {"from_before", "from_after", "to_before", "to_after"}
      /\ Encodes("RENAME", "ERR") = {"from_before", "from_after", "to_before", "to_after"}
  BY <1>1 DEF Encodes, ArmOf, xdr_RENAME3, Order
<1> QED BY <1>1, <1>2, <1>3, <1>4

LEMMA LinkTable ==
    /\ "LINK" \in Proc /\ At("LINK", "resfail", "file_attributes", "post_op_attr")
    /\ At("LINK", "resfail", "before", "pre_op_attr")
    /\ At("LINK", "resfail", "after", "post_op_attr")
    /\ Encodes("LINK", "ERR") = {"file_attributes", "before", "after"}
<1>1. Struct["LINK"] = LINK3 /\ XdrOf["LINK"] = xdr_LINK3 /\ "LINK" \in Proc
  BY DEF Struct, XdrOf, Proc
<1>2. /\ At("LINK", "resfail", "file_attributes", "post_op_attr")
      /\ At("LINK", "resfail", "before", "pre_op_attr")
      /\ At("LINK", "resfail", "after", "post_op_attr")
  BY <1>1 DEF At, Arms, LINK3, F, Pre, Post, Fh, Wcc
<1>3. /\ Encodes("LINK", "ERR") = {"file_attributes", "before", "after"}
  BY <1>1 DEF Encodes, ArmOf, xdr_LINK3, Order
<1> QED BY <1>1, <1>2, <1>3

LEMMA ReaddirTable ==
    /\ "READDIR" \in Proc /\ Arg("READDIR", "dir", "nfs_fh3")
    /\ Arg("READDIR", "cookie", "uint64") /\ Arg("READDIR", "count", "uint32")
    /\ At("READDIR", "resok", "dir_attributes", "post_op_attr")
    /\ At("READDIR", "resok", "cookieverf", "verf3")
    /\ At("READDIR", "resok", "entries", "entry3") /\ At("READDIR", "resok", "eof", "uint32")
    /\ Encodes("READDIR", "OK") = {"dir_attributes", "cookieverf", "entries", "eof"}
    /\ Encodes("READDIR", "ERR") = {"dir_attributes"}
<1>1. Struct["READDIR"] = READDIR3 /\ XdrOf["READDIR"] = xdr_READDIR3 /\ "READDIR" \in Proc
  BY DEF Struct, XdrOf, Proc
<1>2. /\ Arg("READDIR", "dir", "nfs_fh3") /\ Arg("READDIR", "cookie", "uint64")
      /\ Arg("READDIR", "count", "uint32")
  BY <1>1 DEF Arg, READDIR3, xdr_READDIR3, Order, F, Pre, Post, Fh, Wcc, ListOk
<1>3. /\ At("READDIR", "resok", "dir_attributes", "post_op_attr")
      /\ At("READDIR", "resok", "cookieverf", "verf3")
      /\ At("READDIR", "resok", "entries", "entry3") /\ At("READDIR", "resok", "eof", "uint32")
  BY <1>1 DEF At, Arms, READDIR3, F, Pre, Post, Fh, Wcc, ListOk
<1>4. /\ Encodes("READDIR", "OK") = {"dir_attributes", "cookieverf", "entries", "eof"}
      /\ Encodes("READDIR", "ERR") = {"dir_attributes"}
  BY <1>1 DEF Encodes, ArmOf, xdr_READDIR3, Order
<1> QED BY <1>1, <1>2, <1>3, <1>4

LEMMA ReaddirplusTable ==
    /\ "READDIRPLUS" \in Proc /\ At("READDIRPLUS", "resfail", "dir_attributes", "post_op_attr")
    /\ Encodes("READDIRPLUS", "ERR") = {"dir_attributes"}
<1>1. /\ Struct["READDIRPLUS"] = READDIRPLUS3
      /\ XdrOf["READDIRPLUS"] = xdr_READDIRPLUS3
      /\ "READDIRPLUS" \in Proc
  BY DEF Struct, XdrOf, Proc
<1>2. /\ At("READDIRPLUS", "resfail", "dir_attributes", "post_op_attr")
  BY <1>1 DEF At, Arms, READDIRPLUS3, F, Pre, Post, Fh, Wcc
<1>3. /\ Encodes("READDIRPLUS", "ERR") = {"dir_attributes"}
  BY <1>1 DEF Encodes, ArmOf, xdr_READDIRPLUS3, Order
<1> QED BY <1>1, <1>2, <1>3

LEMMA FsstatTable ==
    /\ "FSSTAT" \in Proc /\ Arg("FSSTAT", "fsroot", "nfs_fh3")
    /\ At("FSSTAT", "resok", "obj_attributes", "post_op_attr")
    /\ At("FSSTAT", "resok", "tbytes", "uint64") /\ At("FSSTAT", "resok", "fbytes", "uint64")
    /\ At("FSSTAT", "resok", "abytes", "uint64") /\ At("FSSTAT", "resok", "tfiles", "uint64")
    /\ At("FSSTAT", "resok", "ffiles", "uint64") /\ At("FSSTAT", "resok", "afiles", "uint64")
    /\ At("FSSTAT", "resok", "invarsec", "uint32")
    /\ Encodes("FSSTAT", "OK") =
            {"obj_attributes", "tbytes", "fbytes", "abytes", "tfiles", "ffiles", "afiles",
             "invarsec"}
<1>1. Struct["FSSTAT"] = FSSTAT3 /\ XdrOf["FSSTAT"] = xdr_FSSTAT3 /\ "FSSTAT" \in Proc
  BY DEF Struct, XdrOf, Proc
<1>2. /\ Arg("FSSTAT", "fsroot", "nfs_fh3")
  BY <1>1 DEF Arg, FSSTAT3, xdr_FSSTAT3, Order, F, Pre, Post, Fh, Wcc
<1>3. /\ At("FSSTAT", "resok", "obj_attributes", "post_op_attr")
      /\ At("FSSTAT", "resok", "tbytes", "uint64") /\ At("FSSTAT", "resok", "fbytes", "uint64")
      /\ At("FSSTAT", "resok", "abytes", "uint64") /\ At("FSSTAT", "resok", "tfiles", "uint64")
      /\ At("FSSTAT", "resok", "ffiles", "uint64") /\ At("FSSTAT", "resok", "afiles", "uint64")
      /\ At("FSSTAT", "resok", "invarsec", "uint32")
  BY <1>1 DEF At, Arms, FSSTAT3, F, Pre, Post, Fh, Wcc
<1>4. /\ Encodes("FSSTAT", "OK") =
        {"obj_attributes", "tbytes", "fbytes", "abytes", "tfiles", "ffiles", "afiles",
         "invarsec"}
  BY <1>1 DEF Encodes, ArmOf, xdr_FSSTAT3, Order
<1> QED BY <1>1, <1>2, <1>3, <1>4

LEMMA FsinfoTable ==
    /\ "FSINFO" \in Proc /\ Arg("FSINFO", "fsroot", "nfs_fh3")
    /\ At("FSINFO", "resok", "obj_attributes", "post_op_attr")
    /\ At("FSINFO", "resok", "rtmax", "uint32") /\ At("FSINFO", "resok", "rtpref", "uint32")
    /\ At("FSINFO", "resok", "rtmult", "uint32") /\ At("FSINFO", "resok", "wtmax", "uint32")
    /\ At("FSINFO", "resok", "wtpref", "uint32") /\ At("FSINFO", "resok", "wtmult", "uint32")
    /\ At("FSINFO", "resok", "dtpref", "uint32")
    /\ At("FSINFO", "resok", "properties", "uint32")
    /\ At("FSINFO", "resok", "maxfilesize", "uint64")
    /\ At("FSINFO", "resok", "time_delta", "nfstime3")
    /\ Encodes("FSINFO", "OK") =
            {"obj_attributes", "rtmax", "rtpref", "rtmult", "wtmax", "wtpref", "wtmult",
             "dtpref", "maxfilesize", "time_delta", "properties"}
<1>1. Struct["FSINFO"] = FSINFO3 /\ XdrOf["FSINFO"] = xdr_FSINFO3 /\ "FSINFO" \in Proc
  BY DEF Struct, XdrOf, Proc
<1>2. /\ Arg("FSINFO", "fsroot", "nfs_fh3")
  BY <1>1 DEF Arg, FSINFO3, xdr_FSINFO3, Order, F, Pre, Post, Fh, Wcc
<1>3. /\ At("FSINFO", "resok", "obj_attributes", "post_op_attr")
      /\ At("FSINFO", "resok", "rtmax", "uint32") /\ At("FSINFO", "resok", "rtpref", "uint32")
      /\ At("FSINFO", "resok", "rtmult", "uint32") /\ At("FSINFO", "resok", "wtmax", "uint32")
      /\ At("FSINFO", "resok", "wtpref", "uint32") /\ At("FSINFO", "resok", "wtmult", "uint32")
      /\ At("FSINFO", "resok", "dtpref", "uint32")
      /\ At("FSINFO", "resok", "properties", "uint32")
      /\ At("FSINFO", "resok", "maxfilesize", "uint64")
      /\ At("FSINFO", "resok", "time_delta", "nfstime3")
  BY <1>1 DEF At, Arms, FSINFO3, F, Pre, Post, Fh, Wcc
<1>4. /\ Encodes("FSINFO", "OK") =
        {"obj_attributes", "rtmax", "rtpref", "rtmult", "wtmax", "wtpref", "wtmult",
         "dtpref", "maxfilesize", "time_delta", "properties"}
  BY <1>1 DEF Encodes, ArmOf, xdr_FSINFO3, Order
<1> QED BY <1>1, <1>2, <1>3, <1>4

LEMMA PathconfTable ==
    /\ "PATHCONF" \in Proc /\ Arg("PATHCONF", "object", "nfs_fh3")
    /\ At("PATHCONF", "resok", "obj_attributes", "post_op_attr")
    /\ At("PATHCONF", "resok", "linkmax", "uint32")
    /\ At("PATHCONF", "resok", "name_max", "uint32")
    /\ At("PATHCONF", "resok", "no_trunc", "uint32")
    /\ At("PATHCONF", "resok", "chown_restricted", "uint32")
    /\ At("PATHCONF", "resok", "case_insensitive", "uint32")
    /\ At("PATHCONF", "resok", "case_preserving", "uint32")
    /\ Encodes("PATHCONF", "OK") =
            {"obj_attributes", "linkmax", "name_max", "no_trunc", "chown_restricted",
             "case_insensitive", "case_preserving"}
<1>1. Struct["PATHCONF"] = PATHCONF3 /\ XdrOf["PATHCONF"] = xdr_PATHCONF3 /\ "PATHCONF" \in Proc
  BY DEF Struct, XdrOf, Proc
<1>2. /\ Arg("PATHCONF", "object", "nfs_fh3")
  BY <1>1 DEF Arg, PATHCONF3, xdr_PATHCONF3, Order, F, Pre, Post, Fh, Wcc
<1>3. /\ At("PATHCONF", "resok", "obj_attributes", "post_op_attr")
      /\ At("PATHCONF", "resok", "linkmax", "uint32")
      /\ At("PATHCONF", "resok", "name_max", "uint32")
      /\ At("PATHCONF", "resok", "no_trunc", "uint32")
      /\ At("PATHCONF", "resok", "chown_restricted", "uint32")
      /\ At("PATHCONF", "resok", "case_insensitive", "uint32")
      /\ At("PATHCONF", "resok", "case_preserving", "uint32")
  BY <1>1 DEF At, Arms, PATHCONF3, F, Pre, Post, Fh, Wcc
<1>4. /\ Encodes("PATHCONF", "OK") =
        {"obj_attributes", "linkmax", "name_max", "no_trunc", "chown_restricted",
         "case_insensitive", "case_preserving"}
  BY <1>1 DEF Encodes, ArmOf, xdr_PATHCONF3, Order
<1> QED BY <1>1, <1>2, <1>3, <1>4

LEMMA CommitTable ==
    /\ "COMMIT" \in Proc /\ Arg("COMMIT", "file", "nfs_fh3")
    /\ At("COMMIT", "resok", "verf", "verf3")
    /\ At("COMMIT", "resfail", "before", "pre_op_attr")
    /\ At("COMMIT", "resfail", "after", "post_op_attr")
    /\ Encodes("COMMIT", "OK") = {"before", "after", "verf"}
    /\ Encodes("COMMIT", "ERR") = {"before", "after"}
<1>1. Struct["COMMIT"] = COMMIT3 /\ XdrOf["COMMIT"] = xdr_COMMIT3 /\ "COMMIT" \in Proc
  BY DEF Struct, XdrOf, Proc
<1>2. /\ Arg("COMMIT", "file", "nfs_fh3")
  BY <1>1 DEF Arg, COMMIT3, xdr_COMMIT3, Order, F, Pre, Post, Fh, Wcc, wcc_data
<1>3. /\ At("COMMIT", "resok", "verf", "verf3")
      /\ At("COMMIT", "resfail", "before", "pre_op_attr")
      /\ At("COMMIT", "resfail", "after", "post_op_attr")
  BY <1>1 DEF At, Arms, COMMIT3, F, Pre, Post, Fh, Wcc
<1>4. /\ Encodes("COMMIT", "OK") = {"before", "after", "verf"}
      /\ Encodes("COMMIT", "ERR") = {"before", "after"}
  BY <1>1 DEF Encodes, ArmOf, xdr_COMMIT3, Order, wcc_data
<1> QED BY <1>1, <1>2, <1>3, <1>4

LEMMA MntTable ==
    /\ "MNT" \in Proc /\ Arg("MNT", "path", "dirpath")
    /\ At("MNT", "resok", "fhandle", "nfs_fh3")
    /\ At("MNT", "resok", "auth_flavors", "int_array")
    /\ Encodes("MNT", "OK") = {"fhandle", "auth_flavors"} /\ Encodes("MNT", "ERR") = {}
<1>1. Struct["MNT"] = mountres3 /\ XdrOf["MNT"] = xdr_mountres3 /\ "MNT" \in Proc
  BY DEF Struct, XdrOf, Proc
<1>2. /\ Arg("MNT", "path", "dirpath")
  BY <1>1 DEF Arg, mountres3, xdr_mountres3, Order, F, Pre, Post, Fh, Wcc
<1>3. /\ At("MNT", "resok", "fhandle", "nfs_fh3")
      /\ At("MNT", "resok", "auth_flavors", "int_array")
  BY <1>1 DEF At, Arms, mountres3, F, Pre, Post, Fh, Wcc
<1>4. /\ Encodes("MNT", "OK") = {"fhandle", "auth_flavors"} /\ Encodes("MNT", "ERR") = {}
  BY <1>1 DEF Encodes, ArmOf, xdr_mountres3, Order
<1> QED BY <1>1, <1>2, <1>3, <1>4

-----------------------------------------------------------------------------
(* The steps.                                                              *)
LEMMA SetBuffers ==
    ASSUME WireTyped
    PROVE  /\ buffers \in Buffers
           /\ [buffers EXCEPT !.fh = This] \in Buffers
           /\ [buffers EXCEPT !.fh = This].fh = This
           /\ [buffers EXCEPT !.data = This] \in Buffers
           /\ [buffers EXCEPT !.data = This].data = This
           /\ [buffers EXCEPT !.entries = This] \in Buffers
           /\ [buffers EXCEPT !.entries = This].entries = This
  BY DEF WireTyped, Buffers, This

LEMMA SoundIf ==
    ASSUME NEW p, NEW members, NEW b, NEW extra, NEW s, NEW M, NEW c \in BOOLEAN,
           c => Sound(p, members, s, b, extra) /\ Covers(M, s)
    PROVE  /\ Sound(p, members, If(c, s), b, extra)
           /\ Covers(IF c THEN M ELSE {}, If(c, s))
<1>1. CASE c
  BY <1>1 DEF If
<1>2. CASE ~c
  <2>1. If(c, s) = <<>> /\ (IF c THEN M ELSE {}) = {}
    BY <1>2 DEF If
  <2> QED BY <2>1, SoundEmpty
<1> QED BY <1>1, <1>2

(* An answer whose first writes depend on how the request ends.            *)
LEMMA RightIf ==
    ASSUME WireTyped, NEW p \in Proc, p # "READDIR", NEW a, NEW reads, NEW status,
           NEW b \in Buffers, NEW c \in BOOLEAN, NEW s, NEW t,
           Serve(p, a, reads, status, If(c, s) \o t, b, TRUE),
           reads \subseteq Decoded(p, a) \cup {"new_attr"} \cup Skipped(a), NEW M, NEW N,
           c => Sound(p, Encodes(p, status), s, b, 0) /\ Covers(M, s),
           Sound(p, Encodes(p, status), t, b, 0), Covers(N, t),
           Encodes(p, status) \subseteq N \cup IF c THEN M ELSE {}
    PROVE  WireInv'
<1> DEFINE L == IF c THEN M ELSE {}
           first == If(c, s)
<1>1. Sound(p, Encodes(p, status), first, b, 0) /\ Covers(L, first)
  BY SoundIf
<1>2. Encodes(p, status) \subseteq L \cup N
  OBVIOUS
<1> HIDE DEF first, L
<1>3. Sound(p, Encodes(p, status), first \o t, b, 0) /\ Covers(L \cup N, first \o t)
  BY <1>1, SoundConcat
<1>4. Serve(p, a, reads, status, first \o t, b, TRUE)
  BY DEF first
<1> QED BY <1>2, <1>3, <1>4, Right

LEMMA StepGetattr == ASSUME WireTyped, Getattr PROVE WireInv'
<1> DEFINE p == "GETATTR"
           reads == {"object"}
           w(found) == W("resok", "obj_attributes", get_post(found))
<1>1. PICK found \in BOOLEAN :
         Serve(p, NoUnions, reads, "OK", <<w(found)>>, buffers, TRUE)
  BY DEF Getattr
<1>2. OkValue("fattr3", get_post(found), buffers, 0)
  BY OkPost
<1>3. OkWrite(p, Encodes(p, "OK"), w(found), buffers, 0) /\ w(found).member = "obj_attributes"
  BY <1>2, GetattrTable, SoundWrite
<1> HIDE DEF w
<1>4. /\ Sound(p, Encodes(p, "OK"), <<w(found)>>, buffers, 0)
      /\ Covers({"obj_attributes"}, <<w(found)>>)
  BY <1>3, SoundOne
<1>5. reads \subseteq Decoded(p, NoUnions)
  BY GetattrTable, BareDecoded
<1>6. p \in Proc /\ Encodes(p, "OK") \subseteq {"obj_attributes"} /\ buffers \in Buffers
  BY GetattrTable, SetBuffers
<1> HIDE DEF reads
<1> QED BY <1>1, <1>4, <1>5, <1>6, Right

(* SETATTR reads a time where the decoder filled it in, or skipped it for  *)
(* a time_how it does not know.                                            *)
LEMMA StepSetattr == ASSUME WireTyped, Setattr PROVE WireInv'
<1> DEFINE p == "SETATTR"
           writes(pre, post) == WccOf("resok", pre, post)
           call(set, time, check) ==
              [NoUnions EXCEPT !.set = set, !.time = time, !.check = check]
<1>1. PICK set \in SUBSET {"mode", "size"}, check \in {"TRUE", "FALSE"}, status \in Status,
           time \in time_how \cup {"other"},
           pre \in BOOLEAN, post \in BOOLEAN :
         Serve(p, call(set, time, check), SetattrReads(call(set, time, check)), status,
               writes(pre, post), buffers, TRUE)
  BY DEF Setattr
<1> DEFINE a == call(set, time, check)
<1>2. Encodes(p, status) \subseteq {"before", "after"}
  BY SetattrTable DEF Status
<1>3. /\ Sound(p, Encodes(p, status), writes(pre, post), buffers, 0)
      /\ Covers({"before", "after"}, writes(pre, post))
  BY SetattrTable, SoundWcc
<1>4. SetattrReads(a) \subseteq Decoded(p, a) \cup Skipped(a)
  <2>1. "object" \in Decoded(p, a)
    BY SetattrTable, BareDecoded
  <2>2. Decode("sattr3", "new_attributes", a) \subseteq Decoded(p, a)
    BY SetattrTable, ArgDecoded
  <2>3. Decode("sattr3", "new_attributes", a) = xdr_sattr3(a)
    BY DEF Decode
  <2>4. a.set = set /\ a.time = time
    BY DEF NoUnions
  <2> HIDE DEF a
  <2> QED BY <2>1, <2>2, <2>3, <2>4 DEF SetattrReads, xdr_sattr3, Skipped, time_how
<1> HIDE DEF a, writes
<1>5. Serve(p, a, SetattrReads(a), status, writes(pre, post), buffers, TRUE)
  BY <1>1 DEF a
<1> QED BY <1>2, <1>3, <1>4, <1>5, SetattrTable, SetBuffers, Right

LEMMA StepLookup == ASSUME WireTyped, Lookup PROVE WireInv'
<1> DEFINE p == "LOOKUP"
           reads == {"dir", "name"}
           fh == W("resok", "object", Now)
           obj == W("resok", "obj_attributes", get_post_buf(statTranslator))
           dir(found) == W("resok", "dir_attributes", get_post(found))
           b(status) == IF status = "OK" THEN [buffers EXCEPT !.fh = This] ELSE buffers
<1>1. PICK status \in Status, found \in BOOLEAN :
         Serve(p, NoUnions, reads, status, If(status = "OK", <<fh, obj>>) \o <<dir(found)>>,
               b(status), TRUE)
  BY DEF Lookup
<1> DEFINE members == Encodes(p, status)
<1>2. b(status) \in Buffers /\ (status = "OK" => b(status).fh = This)
  BY SetBuffers
<1> HIDE DEF b
<1>3. ASSUME status = "OK"
      PROVE  /\ Sound(p, members, <<fh, obj>>, b(status), 0)
             /\ Covers({"object", "obj_attributes"}, <<fh, obj>>)
  <2>1. OkWrite(p, members, fh, b(status), 0) /\ fh.member = "object"
    BY <1>2, <1>3, OkHandle, LookupTable, SoundWrite
  <2>2. OkValue("post_op_attr", get_post_buf(statTranslator), b(status), 0)
    BY OkPost
  <2>3. OkWrite(p, members, obj, b(status), 0) /\ obj.member = "obj_attributes"
    BY <2>2, LookupTable, SoundWrite
  <2> HIDE DEF fh, obj
  <2> QED BY <2>1, <2>3, SoundTwo
<1>4. OkWrite(p, members, dir(found), b(status), 0) /\ dir(found).member = "dir_attributes"
  <2>1. OkValue("post_op_attr", get_post(found), b(status), 0)
    BY OkPost
  <2> QED BY <2>1, LookupTable, SoundWrite
<1> HIDE DEF fh, obj, dir
<1>5. /\ Sound(p, members, <<dir(found)>>, b(status), 0)
      /\ Covers({"dir_attributes"}, <<dir(found)>>)
  BY <1>4, SoundOne
<1>6. p \in Proc /\ members \subseteq {"dir_attributes"} \cup
         IF status = "OK" THEN {"object", "obj_attributes"} ELSE {}
  BY LookupTable DEF Status
<1>7. reads \subseteq Decoded(p, NoUnions)
  BY LookupTable, NameDecoded
<1> HIDE DEF members, reads
<1> QED BY <1>1, <1>2, <1>3, <1>5, <1>6, <1>7, RightIf DEF members

LEMMA StepAccess == ASSUME WireTyped, Access PROVE WireInv'
<1> DEFINE p == "ACCESS"
           reads == {"object"}
           status(found) == IF found THEN "OK" ELSE "ERR"
           access == W("resok", "access", Now)
           obj(found) == W("resok", "obj_attributes", get_post(found))
<1>1. PICK found \in BOOLEAN :
         Serve(p, NoUnions, reads, status(found), <<access, obj(found)>>, buffers, TRUE)
  BY DEF Access
<1> DEFINE members == Encodes(p, status(found))
<1>2. OkWrite(p, members, access, buffers, 0) /\ access.member = "access"
  <2>1. OkValue("uint32", Now, buffers, 0)
    BY OkNow
  <2> QED BY <2>1, AccessTable, SoundWrite
<1>3. OkWrite(p, members, obj(found), buffers, 0) /\ obj(found).member = "obj_attributes"
  <2>1. OkValue("post_op_attr", get_post(found), buffers, 0)
    BY OkPost
  <2> QED BY <2>1, AccessTable, SoundWrite
<1> HIDE DEF access, obj
<1>4. /\ Sound(p, members, <<access, obj(found)>>, buffers, 0)
      /\ Covers({"access", "obj_attributes"}, <<access, obj(found)>>)
  BY <1>2, <1>3, SoundTwo
<1>5. /\ p \in Proc /\ buffers \in Buffers
      /\ members \subseteq {"access", "obj_attributes"}
  BY AccessTable, SetBuffers
<1>6. reads \subseteq Decoded(p, NoUnions)
  BY AccessTable, BareDecoded
<1> HIDE DEF members, reads, status
<1> QED BY <1>1, <1>4, <1>5, <1>6, Right DEF members

LEMMA StepReadlink == ASSUME WireTyped, Readlink PROVE WireInv'
<1> DEFINE p == "READLINK"
           reads == {}
           w == W("resfail", "symlink_attributes", Now)
           members == Encodes(p, "ERR")
<1>1. Serve(p, NoUnions, reads, "ERR", <<w>>, buffers, TRUE)
  BY DEF Readlink
<1>2. OkWrite(p, members, w, buffers, 0) /\ w.member = "symlink_attributes"
  <2>1. OkValue("post_op_attr", Now, buffers, 0)
    BY OkNow
  <2> QED BY <2>1, ReadlinkTable, SoundWrite
<1> HIDE DEF w
<1>3. Sound(p, members, <<w>>, buffers, 0) /\ Covers({"symlink_attributes"}, <<w>>)
  BY <1>2, SoundOne
<1>4. p \in Proc /\ buffers \in Buffers /\ members \subseteq {"symlink_attributes"}
  BY ReadlinkTable, SetBuffers
<1>5. reads \subseteq Decoded(p, NoUnions)
  OBVIOUS
<1> HIDE DEF members, reads
<1> QED BY <1>1, <1>3, <1>4, <1>5, Right DEF members

LEMMA StepReaddirplus == ASSUME WireTyped, Readdirplus PROVE WireInv'
<1> DEFINE p == "READDIRPLUS"
           reads == {}
           w == W("resfail", "dir_attributes", Now)
           members == Encodes(p, "ERR")
<1>1. Serve(p, NoUnions, reads, "ERR", <<w>>, buffers, TRUE)
  BY DEF Readdirplus
<1>2. OkWrite(p, members, w, buffers, 0) /\ w.member = "dir_attributes"
  <2>1. OkValue("post_op_attr", Now, buffers, 0)
    BY OkNow
  <2> QED BY <2>1, ReaddirplusTable, SoundWrite
<1> HIDE DEF w
<1>3. Sound(p, members, <<w>>, buffers, 0) /\ Covers({"dir_attributes"}, <<w>>)
  BY <1>2, SoundOne
<1>4. p \in Proc /\ buffers \in Buffers /\ members \subseteq {"dir_attributes"}
  BY ReaddirplusTable, SetBuffers
<1>5. reads \subseteq Decoded(p, NoUnions)
  OBVIOUS
<1> HIDE DEF members, reads
<1> QED BY <1>1, <1>3, <1>4, <1>5, Right DEF members

(* SYMLINK and MKNOD are refused with an empty wcc_data.                   *)
LEMMA NoWcc ==
    ASSUME NEW p, NEW members, At(p, "resfail", "before", "pre_op_attr"),
           At(p, "resfail", "after", "post_op_attr")
    PROVE  LET s == <<W("resfail", "before", Now), W("resfail", "after", Now)>>
           IN Sound(p, members, s, buffers, 0) /\ Covers({"before", "after"}, s)
<1> DEFINE w1 == W("resfail", "before", Now)
           w2 == W("resfail", "after", Now)
<1>1. OkValue("pre_op_attr", Now, buffers, 0) /\ OkValue("post_op_attr", Now, buffers, 0)
  BY OkNow
<1>2. OkWrite(p, members, w1, buffers, 0) /\ w1.member = "before"
  BY <1>1, SoundWrite
<1>3. OkWrite(p, members, w2, buffers, 0) /\ w2.member = "after"
  BY <1>1, SoundWrite
<1> HIDE DEF w1, w2
<1>4. Sound(p, members, <<w1, w2>>, buffers, 0) /\ Covers({"before", "after"}, <<w1, w2>>)
  BY <1>2, <1>3, SoundTwo
<1> QED BY <1>4 DEF w1, w2

LEMMA StepSymlink == ASSUME WireTyped, Symlink PROVE WireInv'
<1> DEFINE p == "SYMLINK"
           reads == {}
           s == <<W("resfail", "before", Now), W("resfail", "after", Now)>>
           members == Encodes(p, "ERR")
<1>1. Serve(p, NoUnions, reads, "ERR", s, buffers, TRUE)
  BY DEF Symlink
<1>2. Sound(p, members, s, buffers, 0) /\ Covers({"before", "after"}, s)
  BY SymlinkTable, NoWcc
<1>3. p \in Proc /\ buffers \in Buffers /\ members \subseteq {"before", "after"}
  BY SymlinkTable, SetBuffers
<1>4. reads \subseteq Decoded(p, NoUnions)
  OBVIOUS
<1> HIDE DEF s, members, reads
<1> QED BY <1>1, <1>2, <1>3, <1>4, Right DEF members

LEMMA StepMknod == ASSUME WireTyped, Mknod PROVE WireInv'
<1> DEFINE p == "MKNOD"
           reads == {}
           a(ftype) == [NoUnions EXCEPT !.ftype = ftype]
           s == <<W("resfail", "before", Now), W("resfail", "after", Now)>>
           members == Encodes(p, "ERR")
<1>1. PICK ftype : Serve(p, a(ftype), reads, "ERR", s, buffers, TRUE)
  BY DEF Mknod
<1>2. Sound(p, members, s, buffers, 0) /\ Covers({"before", "after"}, s)
  BY MknodTable, NoWcc
<1>3. p \in Proc /\ buffers \in Buffers /\ members \subseteq {"before", "after"}
  BY MknodTable, SetBuffers
<1>4. reads \subseteq Decoded(p, a(ftype))
  OBVIOUS
<1> HIDE DEF a, s, members, reads
<1> QED BY <1>1, <1>2, <1>3, <1>4, Right DEF members

LEMMA StepLink == ASSUME WireTyped, Link PROVE WireInv'
<1> DEFINE p == "LINK"
           reads == {}
           w1 == W("resfail", "file_attributes", Now)
           w2 == W("resfail", "before", Now)
           w3 == W("resfail", "after", Now)
           members == Encodes(p, "ERR")
<1>1. Serve(p, NoUnions, reads, "ERR", <<w1, w2, w3>>, buffers, TRUE)
  BY DEF Link
<1>2. OkValue("pre_op_attr", Now, buffers, 0) /\ OkValue("post_op_attr", Now, buffers, 0)
  BY OkNow
<1>3. OkWrite(p, members, w1, buffers, 0) /\ w1.member = "file_attributes"
  BY <1>2, LinkTable, SoundWrite
<1>4. OkWrite(p, members, w2, buffers, 0) /\ w2.member = "before"
  BY <1>2, LinkTable, SoundWrite
<1>5. OkWrite(p, members, w3, buffers, 0) /\ w3.member = "after"
  BY <1>2, LinkTable, SoundWrite
<1> DEFINE M == {"file_attributes", "before", "after"}
<1> HIDE DEF w1, w2, w3
<1>6. Sound(p, members, <<w1, w2, w3>>, buffers, 0) /\ Covers(M, <<w1, w2, w3>>)
  BY <1>3, <1>4, <1>5, SoundThree
<1>7. p \in Proc /\ buffers \in Buffers /\ members \subseteq M
  BY LinkTable, SetBuffers
<1>8. reads \subseteq Decoded(p, NoUnions)
  OBVIOUS
<1> HIDE DEF members, M, reads
<1> QED BY <1>1, <1>6, <1>7, <1>8, Right DEF members

LEMMA StepRemove == ASSUME WireTyped, Remove3 PROVE WireInv'
<1> DEFINE p == "REMOVE"
           reads == {"dir", "name"}
           writes(pre, post) == WccOf("resok", pre, post)
<1>1. PICK status \in Status, pre \in BOOLEAN, post \in BOOLEAN :
         Serve(p, NoUnions, reads, status, writes(pre, post), buffers, TRUE)
  BY DEF Remove3
<1> DEFINE members == Encodes(p, status)
<1>2. Sound(p, members, writes(pre, post), buffers, 0)
      /\ Covers({"before", "after"}, writes(pre, post))
  BY RemoveTable, SoundWcc
<1>3. p \in Proc /\ buffers \in Buffers /\ members \subseteq {"before", "after"}
  BY RemoveTable, SetBuffers DEF Status
<1>4. reads \subseteq Decoded(p, NoUnions)
  BY RemoveTable, NameDecoded
<1> HIDE DEF members, reads, writes
<1> QED BY <1>1, <1>2, <1>3, <1>4, Right DEF members

LEMMA StepRmdir == ASSUME WireTyped, Rmdir PROVE WireInv'
<1> DEFINE p == "RMDIR"
           reads == {"dir", "name"}
           writes(pre, post) == WccOf("resok", pre, post)
<1>1. PICK status \in Status, pre \in BOOLEAN, post \in BOOLEAN :
         Serve(p, NoUnions, reads, status, writes(pre, post), buffers, TRUE)
  BY DEF Rmdir
<1> DEFINE members == Encodes(p, status)
<1>2. Sound(p, members, writes(pre, post), buffers, 0)
      /\ Covers({"before", "after"}, writes(pre, post))
  BY RmdirTable, SoundWcc
<1>3. p \in Proc /\ buffers \in Buffers /\ members \subseteq {"before", "after"}
  BY RmdirTable, SetBuffers DEF Status
<1>4. reads \subseteq Decoded(p, NoUnions)
  BY RmdirTable, NameDecoded
<1> HIDE DEF members, reads, writes
<1> QED BY <1>1, <1>2, <1>3, <1>4, Right DEF members

LEMMA StepWrite == ASSUME WireTyped, Write PROVE WireInv'
<1> DEFINE p == "WRITE"
           reads == {"file", "offset", "data"}
           w1 == W("resok", "count", Now)
           w2 == W("resok", "committed", Now)
           w3 == W("resok", "verf", Now)
           wcc(pre, post) == WccOf("resok", pre, post)
           done(status) == status = "OK"
<1>1. PICK status \in Status, pre \in BOOLEAN, post \in BOOLEAN :
         Serve(p, NoUnions, reads, status, If(done(status), <<w1, w2, w3>>) \o wcc(pre, post),
               buffers, TRUE)
  BY DEF Write
<1> DEFINE members == Encodes(p, status)
           M == {"count", "committed", "verf"}
           N == {"before", "after"}
<1>2. OkValue("uint32", Now, buffers, 0) /\ OkValue("verf3", Now, buffers, 0)
  BY OkNow
<1>3. OkWrite(p, members, w1, buffers, 0) /\ w1.member = "count"
  BY <1>2, WriteTable, SoundWrite
<1>4. OkWrite(p, members, w2, buffers, 0) /\ w2.member = "committed"
  BY <1>2, WriteTable, SoundWrite
<1>5. OkWrite(p, members, w3, buffers, 0) /\ w3.member = "verf"
  BY <1>2, WriteTable, SoundWrite
<1> HIDE DEF w1, w2, w3
<1>6. Sound(p, members, <<w1, w2, w3>>, buffers, 0) /\ Covers(M, <<w1, w2, w3>>)
  BY <1>3, <1>4, <1>5, SoundThree
<1>7. Sound(p, members, wcc(pre, post), buffers, 0) /\ Covers(N, wcc(pre, post))
  BY WriteTable, SoundWcc
<1>8. /\ p \in Proc /\ buffers \in Buffers /\ done(status) \in BOOLEAN
      /\ members \subseteq N \cup IF done(status) THEN M ELSE {}
  BY WriteTable, SetBuffers DEF Status
<1>9. reads \subseteq Decoded(p, NoUnions)
  BY WriteTable, BareDecoded
<1> HIDE DEF members, M, N, reads, wcc, done
<1> QED BY <1>1, <1>6, <1>7, <1>8, <1>9, RightIf DEF members

(* What is decoded of a sattr3 that carries a mode or not.                 *)
LEMMA ModeDecoded == ASSUME NEW a PROVE create_mode(a) \subseteq xdr_sattr3(a)
  BY DEF create_mode, xdr_sattr3

(* An object made by an exchange that then fails: its handle and           *)
(* attributes are written, with nothing valid in them, but not encoded.    *)
LEMMA StepCreate == ASSUME WireTyped, Create PROVE WireInv'
<1> DEFINE p == "CREATE"
           a(how, set) == [NoUnions EXCEPT !.how = how, !.set = set]
           reads(how, set) == {"dir", "name", "how.mode"}
              \cup IF how = "EXCLUSIVE" THEN {"new_attr"} ELSE create_mode(a(how, set))
           fh == W("resok", "obj", fh_comp_post)
           attr(status) == get_post_buf(IF status = "OK" THEN statTranslator ELSE unwritten)
           obj(status) == W("resok", "obj_attributes", attr(status))
           wcc(pre, post) == WccOf("resok", pre, post)
           done(status, made) == status = "OK" \/ made
           b(status, made) ==
              IF status = "OK" \/ made THEN [buffers EXCEPT !.fh = This] ELSE buffers
<1>1. PICK status \in Status, how \in {"UNCHECKED", "GUARDED", "EXCLUSIVE"},
           set \in SUBSET {"mode"}, made \in BOOLEAN, pre \in BOOLEAN, post \in BOOLEAN :
         Serve(p, a(how, set), reads(how, set), status,
               If(done(status, made), <<fh, obj(status)>>) \o wcc(pre, post),
               b(status, made), TRUE)
  BY DEF Create
<1> DEFINE members == Encodes(p, status)
           M == {"obj", "obj_attributes"}
           N == {"before", "after"}
<1>2. b(status, made) \in Buffers /\ (done(status, made) => b(status, made).fh = This)
  BY SetBuffers
<1>3. "obj_attributes" \in members => status = "OK"
  BY CreateTable DEF Status
<1> HIDE DEF b
<1>4. ASSUME done(status, made)
      PROVE  /\ Sound(p, members, <<fh, obj(status)>>, b(status, made), 0)
             /\ Covers(M, <<fh, obj(status)>>)
  <2>1. OkWrite(p, members, fh, b(status, made), 0) /\ fh.member = "obj"
    BY <1>2, <1>4, OkHandle, CreateTable, SoundWrite
  <2>2. status = "OK" => OkValue("post_op_attr", attr(status), b(status, made), 0)
    <3>1. OkValue("post_op_attr", get_post_buf(statTranslator), b(status, made), 0)
      BY OkPost
    <3> QED BY <3>1
  <2> HIDE DEF attr
  <2>3. OkWrite(p, members, obj(status), b(status, made), 0)
        /\ obj(status).member = "obj_attributes"
    BY <1>3, <2>2, CreateTable, SoundWrite
  <2> HIDE DEF fh, obj
  <2> QED BY <2>1, <2>3, SoundTwo
<1>5. Sound(p, members, wcc(pre, post), b(status, made), 0) /\ Covers(N, wcc(pre, post))
  BY CreateTable, SoundWcc
<1>6. /\ p \in Proc /\ done(status, made) \in BOOLEAN
      /\ members \subseteq N \cup IF done(status, made) THEN M ELSE {}
  BY CreateTable DEF Status
<1>7. reads(how, set) \subseteq Decoded(p, a(how, set)) \cup {"new_attr"}
  <2> DEFINE c == a(how, set)
  <2>1. {"dir", "name"} \subseteq Decoded(p, c)
    BY CreateTable, NameDecoded
  <2>2. Decode("createhow3", "how", c) \subseteq Decoded(p, c)
    BY CreateTable, ArgDecoded
  <2>3. Decode("createhow3", "how", c) = xdr_createhow3(c)
    BY DEF Decode
  <2>4. c.how = how
    BY DEF NoUnions
  <2> HIDE DEF c
  <2>5. "how.mode" \in xdr_createhow3(c)
    BY DEF xdr_createhow3
  <2>6. how # "EXCLUSIVE" => xdr_sattr3(c) \subseteq xdr_createhow3(c)
    BY <2>4 DEF xdr_createhow3
  <2>7. how # "EXCLUSIVE" => create_mode(c) \subseteq Decoded(p, c)
    BY <2>2, <2>3, <2>6, ModeDecoded
  <2> QED BY <2>1, <2>2, <2>3, <2>5, <2>7 DEF c
<1> HIDE DEF members, M, N, reads, a, fh, obj, wcc, done
<1> QED BY <1>1, <1>2, <1>4, <1>5, <1>6, <1>7, RightIf DEF members

LEMMA StepMkdir == ASSUME WireTyped, Mkdir PROVE WireInv'
<1> DEFINE p == "MKDIR"
           a(set) == [NoUnions EXCEPT !.set = set]
           reads(set) == {"dir", "name"} \cup create_mode(a(set))
           fh(dir) == W("resok", "obj", fh_comp_type(dir))
           obj(found) == W("resok", "obj_attributes", get_post(found))
           wcc(pre, post) == WccOf("resok", pre, post)
           done(status) == status = "OK"
           b(status, dir) ==
              IF status = "OK" /\ dir THEN [buffers EXCEPT !.fh = This] ELSE buffers
<1>1. PICK status \in Status, set \in SUBSET {"mode"}, dir \in BOOLEAN, found \in BOOLEAN,
           pre \in BOOLEAN, post \in BOOLEAN :
         Serve(p, a(set), reads(set), status,
               If(done(status), <<fh(dir), obj(found)>>) \o wcc(pre, post),
               b(status, dir), TRUE)
  BY DEF Mkdir
<1> DEFINE members == Encodes(p, status)
           M == {"obj", "obj_attributes"}
           N == {"before", "after"}
<1>2. b(status, dir) \in Buffers /\ (done(status) /\ dir => b(status, dir).fh = This)
  BY SetBuffers
<1> HIDE DEF b
<1>3. ASSUME done(status)
      PROVE  /\ Sound(p, members, <<fh(dir), obj(found)>>, b(status, dir), 0)
             /\ Covers(M, <<fh(dir), obj(found)>>)
  <2>1. OkValue("post_op_fh3", fh_comp_type(dir), b(status, dir), 0)
    BY <1>2, <1>3, OkMadeHandle
  <2>2. OkWrite(p, members, fh(dir), b(status, dir), 0) /\ fh(dir).member = "obj"
    BY <2>1, MkdirTable, SoundWrite
  <2>3. OkValue("post_op_attr", get_post(found), b(status, dir), 0)
    BY OkPost
  <2>4. OkWrite(p, members, obj(found), b(status, dir), 0)
        /\ obj(found).member = "obj_attributes"
    BY <2>3, MkdirTable, SoundWrite
  <2> HIDE DEF fh, obj
  <2> QED BY <2>2, <2>4, SoundTwo
<1>4. Sound(p, members, wcc(pre, post), b(status, dir), 0) /\ Covers(N, wcc(pre, post))
  BY MkdirTable, SoundWcc
<1>5. /\ p \in Proc /\ done(status) \in BOOLEAN
      /\ members \subseteq N \cup IF done(status) THEN M ELSE {}
  BY MkdirTable DEF Status
<1>6. reads(set) \subseteq Decoded(p, a(set))
  <2> DEFINE c == a(set)
  <2>1. {"dir", "name"} \subseteq Decoded(p, c)
    BY MkdirTable, NameDecoded
  <2>2. Decode("sattr3", "attributes", c) \subseteq Decoded(p, c)
    BY MkdirTable, ArgDecoded
  <2>3. Decode("sattr3", "attributes", c) = xdr_sattr3(c)
    BY DEF Decode
  <2> HIDE DEF c
  <2>4. create_mode(c) \subseteq Decoded(p, c)
    BY <2>2, <2>3, ModeDecoded
  <2> QED BY <2>1, <2>4 DEF c
<1> HIDE DEF members, M, N, reads, a, fh, obj, wcc, done
<1> QED BY <1>1, <1>2, <1>3, <1>4, <1>5, <1>6, RightIf DEF members

LEMMA StepRename == ASSUME WireTyped, Rename PROVE WireInv'
<1> DEFINE p == "RENAME"
           reads == {"dir", "name"}
           w1(found) == W("resok", "from_before", get_pre(found))
           w2(found) == W("resok", "from_after", get_post(found))
           w3(found) == W("resok", "to_before", get_pre(found))
           w4(found) == W("resok", "to_after", get_post(found))
<1>1. PICK status \in Status, x1 \in BOOLEAN, x2 \in BOOLEAN, x3 \in BOOLEAN, x4 \in BOOLEAN :
         Serve(p, NoUnions, reads, status, <<w1(x1), w2(x2), w3(x3), w4(x4)>>, buffers, TRUE)
  BY DEF Rename
<1> DEFINE members == Encodes(p, status)
           M == {"from_before", "from_after", "to_before", "to_after"}
           s == <<w1(x1), w2(x2), w3(x3), w4(x4)>>
<1>2. \A found \in BOOLEAN : /\ OkValue("pre_op_attr", get_pre(found), buffers, 0)
                             /\ OkValue("post_op_attr", get_post(found), buffers, 0)
  BY OkPre, OkPost
<1>3. OkWrite(p, members, w1(x1), buffers, 0) /\ w1(x1).member = "from_before"
  BY <1>2, RenameTable, SoundWrite
<1>4. OkWrite(p, members, w2(x2), buffers, 0) /\ w2(x2).member = "from_after"
  BY <1>2, RenameTable, SoundWrite
<1>5. OkWrite(p, members, w3(x3), buffers, 0) /\ w3(x3).member = "to_before"
  BY <1>2, RenameTable, SoundWrite
<1>6. OkWrite(p, members, w4(x4), buffers, 0) /\ w4(x4).member = "to_after"
  BY <1>2, RenameTable, SoundWrite
<1> HIDE DEF w1, w2, w3, w4
<1>7. /\ Len(s) = 4 /\ s = [i \in 1 .. 4 |-> s[i]]
      /\ s[1] = w1(x1) /\ s[2] = w2(x2) /\ s[3] = w3(x3) /\ s[4] = w4(x4)
  OBVIOUS
<1>8. Serve(p, NoUnions, reads, status, s, buffers, TRUE)
  BY <1>1
<1> HIDE DEF s
<1>9. Sound(p, members, s, buffers, 0)
  <2>1. \A i \in 1 .. 4 : OkWrite(p, members, s[i], buffers, 0)
    BY <1>3, <1>4, <1>5, <1>6, <1>7
  <2> QED BY <1>7, <2>1 DEF Sound
<1>10. Covers(M, s)
  BY <1>3, <1>4, <1>5, <1>6, <1>7 DEF Covers
<1>11. p \in Proc /\ buffers \in Buffers /\ members \subseteq M
  BY RenameTable, SetBuffers DEF Status
<1>12. reads \subseteq Decoded(p, NoUnions)
  BY RenameTable, NameDecoded
<1> HIDE DEF members, M, reads
<1> QED BY <1>8, <1>9, <1>10, <1>11, <1>12, Right DEF members

LEMMA StepFsstat == ASSUME WireTyped, Fsstat PROVE WireInv'
<1> DEFINE p == "FSSTAT"
           reads == {"fsroot"}
           numbers == <<"tbytes", "fbytes", "abytes", "tfiles", "ffiles", "afiles", "invarsec">>
           writes(post) == <<W("resok", "obj_attributes", get_post(post))>> \o Fixed(numbers)
           M == {"obj_attributes"} \cup {numbers[i] : i \in 1 .. Len(numbers)}
           members == Encodes(p, "OK")
<1>1. PICK post \in BOOLEAN :
         Serve(p, NoUnions, reads, "OK", writes(post), buffers, TRUE)
  BY DEF Fsstat
<1>2. /\ Len(numbers) \in Nat /\ DOMAIN numbers = 1 .. Len(numbers)
      /\ \A i \in 1 .. Len(numbers) :
            \E type \in {"uint32", "uint64", "nfstime3"} : At(p, "resok", numbers[i], type)
      /\ At(p, "resok", "obj_attributes", "post_op_attr")
  BY FsstatTable
<1>3. members \subseteq M
  BY FsstatTable
<1> HIDE DEF numbers
<1>4. Sound(p, members, writes(post), buffers, 0) /\ Covers(M, writes(post))
  BY <1>2, SoundFixed
<1>5. p \in Proc /\ buffers \in Buffers
  BY FsstatTable, SetBuffers
<1>6. reads \subseteq Decoded(p, NoUnions)
  BY FsstatTable, BareDecoded
<1> HIDE DEF members, M, reads, writes
<1> QED BY <1>1, <1>3, <1>4, <1>5, <1>6, Right DEF members

LEMMA StepFsinfo == ASSUME WireTyped, Fsinfo PROVE WireInv'
<1> DEFINE p == "FSINFO"
           reads == {"fsroot"}
           numbers == <<"rtmax", "rtpref", "rtmult", "wtmax", "wtpref", "wtmult", "dtpref",
                      "maxfilesize", "time_delta", "properties">>
           writes(post) == <<W("resok", "obj_attributes", get_post(post))>> \o Fixed(numbers)
           M == {"obj_attributes"} \cup {numbers[i] : i \in 1 .. Len(numbers)}
           members == Encodes(p, "OK")
<1>1. PICK post \in BOOLEAN :
         Serve(p, NoUnions, reads, "OK", writes(post), buffers, TRUE)
  BY DEF Fsinfo
<1>2. /\ Len(numbers) \in Nat /\ DOMAIN numbers = 1 .. Len(numbers)
      /\ \A i \in 1 .. Len(numbers) :
            \E type \in {"uint32", "uint64", "nfstime3"} : At(p, "resok", numbers[i], type)
      /\ At(p, "resok", "obj_attributes", "post_op_attr")
  BY FsinfoTable
<1>3. members \subseteq M
  BY FsinfoTable
<1> HIDE DEF numbers
<1>4. Sound(p, members, writes(post), buffers, 0) /\ Covers(M, writes(post))
  BY <1>2, SoundFixed
<1>5. p \in Proc /\ buffers \in Buffers
  BY FsinfoTable, SetBuffers
<1>6. reads \subseteq Decoded(p, NoUnions)
  BY FsinfoTable, BareDecoded
<1> HIDE DEF members, M, reads, writes
<1> QED BY <1>1, <1>3, <1>4, <1>5, <1>6, Right DEF members

LEMMA StepPathconf == ASSUME WireTyped, Pathconf PROVE WireInv'
<1> DEFINE p == "PATHCONF"
           reads == {"object"}
           numbers == <<"linkmax", "name_max", "no_trunc", "chown_restricted",
                      "case_insensitive", "case_preserving">>
           writes(post) == <<W("resok", "obj_attributes", get_post(post))>> \o Fixed(numbers)
           M == {"obj_attributes"} \cup {numbers[i] : i \in 1 .. Len(numbers)}
           members == Encodes(p, "OK")
<1>1. PICK post \in BOOLEAN :
         Serve(p, NoUnions, reads, "OK", writes(post), buffers, TRUE)
  BY DEF Pathconf
<1>2. /\ Len(numbers) \in Nat /\ DOMAIN numbers = 1 .. Len(numbers)
      /\ \A i \in 1 .. Len(numbers) :
            \E type \in {"uint32", "uint64", "nfstime3"} : At(p, "resok", numbers[i], type)
      /\ At(p, "resok", "obj_attributes", "post_op_attr")
  BY PathconfTable
<1>3. members \subseteq M
  BY PathconfTable
<1> HIDE DEF numbers
<1>4. Sound(p, members, writes(post), buffers, 0) /\ Covers(M, writes(post))
  BY <1>2, SoundFixed
<1>5. p \in Proc /\ buffers \in Buffers
  BY PathconfTable, SetBuffers
<1>6. reads \subseteq Decoded(p, NoUnions)
  BY PathconfTable, BareDecoded
<1> HIDE DEF members, M, reads, writes
<1> QED BY <1>1, <1>3, <1>4, <1>5, <1>6, Right DEF members

(* The wcc_data is written to resfail and read from resok.                 *)
LEMMA StepCommit == ASSUME WireTyped, Commit PROVE WireInv'
<1> DEFINE p == "COMMIT"
           reads == {"file"}
           status(found) == IF found THEN "OK" ELSE "ERR"
           verf == W("resok", "verf", Now)
           wcc(found) == WccOf("resfail", found, found)
<1>1. PICK found \in BOOLEAN :
         Serve(p, NoUnions, reads, status(found), If(found, <<verf>>) \o wcc(found),
               buffers, TRUE)
  BY DEF Commit
<1> DEFINE members == Encodes(p, status(found))
           M == {"verf"}
           N == {"before", "after"}
<1>2. OkWrite(p, members, verf, buffers, 0) /\ verf.member = "verf"
  <2>1. OkValue("verf3", Now, buffers, 0)
    BY OkNow
  <2> QED BY <2>1, CommitTable, SoundWrite
<1> HIDE DEF verf
<1>3. Sound(p, members, <<verf>>, buffers, 0) /\ Covers(M, <<verf>>)
  BY <1>2, SoundOne
<1>4. Sound(p, members, wcc(found), buffers, 0) /\ Covers(N, wcc(found))
  BY CommitTable, SoundWcc
<1>5. /\ p \in Proc /\ buffers \in Buffers
      /\ members \subseteq N \cup IF found THEN M ELSE {}
  BY CommitTable, SetBuffers
<1>6. reads \subseteq Decoded(p, NoUnions)
  BY CommitTable, BareDecoded
<1> HIDE DEF members, M, N, reads, wcc, status
<1> QED BY <1>1, <1>3, <1>4, <1>5, <1>6, RightIf DEF members

LEMMA StepMnt == ASSUME WireTyped, Mnt PROVE WireInv'
<1> DEFINE p == "MNT"
           reads == {"path"}
           fh == W("resok", "fhandle", Now)
           flavors == W("resok", "auth_flavors", Now)
           done(status) == status = "OK"
           b(status) == IF status = "OK" THEN [buffers EXCEPT !.fh = This] ELSE buffers
<1>1. PICK status \in Status :
         Serve(p, NoUnions, reads, status, If(done(status), <<fh, flavors>>), b(status), TRUE)
  BY DEF Mnt
<1> DEFINE members == Encodes(p, status)
           all == {"fhandle", "auth_flavors"}
           M == IF done(status) THEN all ELSE {}
           writes == If(done(status), <<fh, flavors>>)
<1>2. b(status) \in Buffers /\ (done(status) => b(status).fh = This)
  BY SetBuffers
<1> HIDE DEF b
<1>3. ASSUME done(status)
      PROVE  /\ Sound(p, members, <<fh, flavors>>, b(status), 0)
             /\ Covers(all, <<fh, flavors>>)
  <2>1. OkWrite(p, members, fh, b(status), 0) /\ fh.member = "fhandle"
    BY <1>2, <1>3, OkHandle, MntTable, SoundWrite
  <2>2. OkValue("int_array", Now, b(status), 0)
    BY OkNow
  <2>3. OkWrite(p, members, flavors, b(status), 0) /\ flavors.member = "auth_flavors"
    BY <2>2, MntTable, SoundWrite
  <2> HIDE DEF fh, flavors
  <2> QED BY <2>1, <2>3, SoundTwo
<1>4. p \in Proc /\ done(status) \in BOOLEAN /\ members \subseteq M
  BY MntTable DEF Status
<1>5. reads \subseteq Decoded(p, NoUnions)
  BY MntTable, BareDecoded
<1> HIDE DEF members, all, fh, flavors, done
<1>6. Sound(p, members, writes, b(status), 0) /\ Covers(M, writes)
  BY <1>3, <1>4, SoundIf
<1>7. Serve(p, NoUnions, reads, status, writes, b(status), TRUE)
  BY <1>1
<1> HIDE DEF writes, M, reads
<1> QED BY <1>2, <1>4, <1>5, <1>6, <1>7, Right DEF members

(* Nothing is encoded of a call that cannot be decoded.                    *)
LEMMA StepRefuse == ASSUME WireTyped, Refuse PROVE WireInv'
<1>1. /\ reply'.body = Nothing /\ reply'.undecoded = {} /\ reply'.status = "none"
      /\ served' = This /\ sent' = NoData /\ buffers' = buffers
  BY DEF Refuse, Reply
<1>2. WireTyped'
  BY <1>1 DEF WireTyped, This
<1>3. ReplyIsThisRequests' /\ ReadsDecoded'
  BY <1>1 DEF ReplyIsThisRequests, ReadsDecoded, Nothing
<1>4. ReplyFits'
  BY <1>1 DEF ReplyFits, Nothing, RpcHeader, NFS_MAX_UDP_PACKET, NFS_MAXDATA_UDP
<1>5. ReaddirSizes' /\ ReadStopsAtEof'
  BY <1>1 DEF ReaddirSizes, ReadStopsAtEof, NoData
<1> QED BY <1>2, <1>3, <1>4, <1>5 DEF WireInv

(* READ sends what is left of the file, or what was asked for, or what the *)
(* transport carries, whichever is least.                                  *)
LEMMA StepRead == ASSUME WireTyped, Read PROVE WireInv'
<1> DEFINE p == "READ"
           reads == {"file", "offset", "count"}
           count(udp, asked) == IF asked > maxdata(udp) THEN maxdata(udp) ELSE asked
           res(udp, asked, left) == go_pread(left, count(udp, asked) + 1)
           len(udp, asked, left) == Readjusted(res(udp, asked, left), count(udp, asked))
           w1 == W("resok", "eof", Now)
           w2 == W("resok", "count", Now)
           w3(n) == W("resok", "data", Data(n))
           w4(found) == W("resok", "file_attributes", get_post(found))
           done(status) == status = "OK"
           b(status) == IF status = "OK" THEN [buffers EXCEPT !.data = This] ELSE buffers
           data(status, udp, asked, left) ==
              IF status = "OK"
              THEN [NoData EXCEPT !.asked = asked, !.left = left, !.len = len(udp, asked, left),
                                  !.eof = res(udp, asked, left) <= count(udp, asked)]
              ELSE NoData
<1>1. PICK status \in Status, udp \in BOOLEAN, found \in BOOLEAN, asked \in Counts,
           left \in Lefts :
         ServeData(p, NoUnions, reads, status,
               If(done(status), <<w1, w2, w3(len(udp, asked, left))>>) \o <<w4(found)>>,
               b(status), udp, data(status, udp, asked, left))
  BY DEF Read
<1> DEFINE members == Encodes(p, status)
           M == {"eof", "count", "data"}
           N == {"file_attributes"}
           c == count(udp, asked)
           r == res(udp, asked, left)
           n == len(udp, asked, left)
           most == maxdata(udp)
           first == If(done(status), <<w1, w2, w3(n)>>)
           L == IF done(status) THEN M ELSE {}
           writes == first \o <<w4(found)>>
<1>2. asked \in Nat /\ left \in Nat
  BY WireAssumption
<1>3. most \in Nat /\ most > 0 /\ (udp => most <= NFS_MAXDATA_UDP)
  BY DEF maxdata, NFS_MAXDATA_UDP, NFS_MAXDATA_TCP
<1>4. /\ c \in Nat /\ c <= most /\ c <= asked /\ (c = 0 => asked = 0)
      /\ n \in Nat
      /\ n = IF left <= c THEN left ELSE c
      /\ r <= c <=> left <= c
  <2> HIDE DEF most
  <2>1. c \in Nat /\ c <= most /\ c <= asked /\ (c = 0 => asked = 0)
    BY <1>2, <1>3 DEF most
  <2> HIDE DEF c
  <2>2. r = IF left < c + 1 THEN left ELSE c + 1
    BY DEF go_pread, c
  <2>3. n = IF r <= c THEN r ELSE r - 1
    BY DEF Readjusted, c
  <2> HIDE DEF r, n
  <2> QED BY <1>2, <2>1, <2>2, <2>3
<1>5. b(status) \in Buffers /\ (done(status) => b(status).data = This)
  BY SetBuffers
<1>6. ServeData(p, NoUnions, reads, status, writes, b(status), udp,
                data(status, udp, asked, left))
  BY <1>1
<1>7. data(status, udp, asked, left) =
         IF status = "OK" THEN [NoData EXCEPT !.asked = asked, !.left = left, !.len = n,
                                              !.eof = r <= c]
         ELSE NoData
  OBVIOUS
<1> HIDE DEF c, r, n, most, b, data, len, res, count
<1>8. ASSUME done(status)
      PROVE  /\ Sound(p, members, <<w1, w2, w3(n)>>, b(status), most)
             /\ Covers(M, <<w1, w2, w3(n)>>)
  <2>1. OkValue("uint32", Now, b(status), most)
    BY <1>3, OkNow
  <2>2. OkValue("bytes", Data(n), b(status), most)
    <3>1. Fresh("bytes", Data(n)) /\ Data(n).len = n /\ n <= most
      BY <1>2, <1>3, <1>4, FreshData
    <3>2. Buffered("bytes", Data(n), b(status))
      BY <1>5, <1>8 DEF Buffered
    <3> QED BY <3>1, <3>2 DEF OkValue, Beyond
  <2>3. OkWrite(p, members, w1, b(status), most) /\ w1.member = "eof"
    BY <2>1, ReadTable, SoundWrite
  <2>4. OkWrite(p, members, w2, b(status), most) /\ w2.member = "count"
    BY <2>1, ReadTable, SoundWrite
  <2>5. OkWrite(p, members, w3(n), b(status), most) /\ w3(n).member = "data"
    BY <2>2, ReadTable, SoundWrite
  <2> HIDE DEF w1, w2, w3
  <2> QED BY <2>3, <2>4, <2>5, SoundThree
<1>9. Sound(p, members, <<w4(found)>>, b(status), most) /\ Covers(N, <<w4(found)>>)
  <2>1. OkValue("post_op_attr", get_post(found), b(status), most)
    BY <1>3, OkPost
  <2>2. /\ OkWrite(p, members, w4(found), b(status), most)
        /\ w4(found).member = "file_attributes"
    BY <2>1, ReadTable, SoundWrite
  <2> HIDE DEF w4
  <2> QED BY <2>2, SoundOne
<1>10. p \in Proc /\ p # "READDIR" /\ done(status) \in BOOLEAN /\ members \subseteq L \cup N
  BY ReadTable DEF Status
<1>11. reads \subseteq Decoded(p, NoUnions) \cup {"new_attr"}
  BY ReadTable, BareDecoded
<1> HIDE DEF members, M, N, reads, w1, w2, w3, w4, done
<1>12. Sound(p, members, first, b(status), most) /\ Covers(L, first)
  BY <1>8, <1>10, SoundIf
<1> HIDE DEF first, L
<1>13. Sound(p, members, writes, b(status), most) /\ Covers(L \cup N, writes)
  BY <1>9, <1>12, SoundConcat
<1> HIDE DEF writes
<1>14. Covers(members, writes)
  BY <1>10, <1>13 DEF Covers
<1>15. Answered(p, status, writes, b(status), most)
  BY <1>10, <1>13, <1>14, AllSettled DEF members
<1>16. /\ WireTyped' /\ ReplyIsThisRequests' /\ ReadsDecoded' /\ ReplyFits'
       /\ ReaddirSizes'
  BY <1>3, <1>5, <1>6, <1>10, <1>11, <1>15, ServedWell
<1>17. ReadStopsAtEof'
  <2>1. sent' = data(status, udp, asked, left)
    BY <1>6 DEF ServeData
  <2>2. CASE status = "OK"
    <3>1. sent'.asked = asked /\ sent'.left = left /\ sent'.len = n /\ sent'.eof = (r <= c)
      BY <1>7, <2>1, <2>2 DEF NoData
    <3>2. n <= asked /\ (r <= c <=> n = left) /\ (n = 0 => r <= c \/ asked = 0)
      BY <1>2, <1>4
    <3> QED BY <3>1, <3>2 DEF ReadStopsAtEof
  <2>3. CASE status # "OK"
    BY <1>7, <2>1, <2>3 DEF ReadStopsAtEof, NoData
  <2> QED BY <2>2, <2>3
<1> QED BY <1>16, <1>17 DEF WireInv

(* READDIR copies a local structure whose attributes, and whose eof after  *)
(* an error, were never set; what is encoded has been written over it.     *)
LEMMA SettledLast ==
    ASSUME NEW writes, Len(writes) \in Nat, NEW field, NEW b, NEW extra,
           NEW k \in 1 .. Len(writes), writes[k].member = field.member,
           OkValue(field.type, writes[k].value, b, extra),
           \A i \in k + 1 .. Len(writes) : writes[i].member # field.member
    PROVE  Settled(writes, field, b, extra)
<1>1. ASSUME NEW i \in k .. Len(writes), writes[i].member = field.member
      PROVE  OkValue(field.type, writes[i].value, b, extra)
  <2>1. i = k \/ i \in k + 1 .. Len(writes)
    OBVIOUS
  <2> QED BY <1>1, <2>1
<1> QED BY <1>1 DEF Settled

ReaddirWrites(status, found, names) ==
    <<W("resok", "dir_attributes", [Zero EXCEPT !.by = Stack]),
      W("resok", "eof", IF status = "OK" THEN Now ELSE [Zero EXCEPT !.by = Stack]),
      W("resok", "entries", Page(names)), W("resok", "cookieverf", Now),
      W("resok", "dir_attributes", get_post(found))>>

LEMMA ReaddirAnswers ==
    ASSUME NEW p, p = "READDIR", NEW status \in Status, NEW found \in BOOLEAN,
           NEW names \in Pages, NEW b, b.entries = This,
           NEW extra \in Nat, PageSize(names) <= extra
    PROVE  LET s == ReaddirWrites(status, found, names)
           IN /\ Answered(p, status, s, b, extra)
              /\ \A k \in 1 .. Len(s) : s[k].member = "entries" => s[k].value.names = names
<1> DEFINE arm == ArmOf(status)
           s == ReaddirWrites(status, found, names)
<1>1. /\ Len(s) = 5
      /\ s[1].arm = "resok" /\ s[1].member = "dir_attributes"
      /\ s[2].arm = "resok" /\ s[2].member = "eof" /\ (status = "OK" => s[2].value = Now)
      /\ s[3].arm = "resok" /\ s[3].member = "entries" /\ s[3].value = Page(names)
      /\ s[4].arm = "resok" /\ s[4].member = "cookieverf" /\ s[4].value = Now
      /\ s[5].arm = "resok" /\ s[5].member = "dir_attributes" /\ s[5].value = get_post(found)
  BY DEF ReaddirWrites, W
<1> HIDE DEF s
<1>2. p \in Proc /\ arm \in Arms
  BY ReaddirTable DEF ArmOf, Arms
<1>3. /\ OkValue("post_op_attr", get_post(found), b, extra)
      /\ OkValue("uint32", Now, b, extra)
      /\ OkValue("verf3", Now, b, extra)
  BY <1>2, OkPost, OkNow
<1>4. Page(names).names = names /\ OkValue("entry3", Page(names), b, extra)
  <2>1. Fresh("entry3", Page(names)) /\ Page(names).names = names
    BY FreshData
  <2>2. Buffered("entry3", Page(names), b) /\ Beyond("entry3", Page(names)) <= extra
    BY <2>1 DEF Buffered, Beyond
  <2> QED BY <1>2, <2>1, <2>2 DEF OkValue
<1>5. ASSUME NEW f, NEW k \in 1 .. Len(s), s[k].member = f.member,
             OkValue(f.type, s[k].value, b, extra),
             \A l \in k + 1 .. Len(s) : s[l].member # f.member
      PROVE  Settled(s, f, b, extra)
  <2>1. Len(s) \in Nat
    BY <1>1
  <2> QED BY <1>5, <2>1, SettledLast
<1>6. ASSUME NEW i \in 1 .. Len(s) PROVE Placed(p, s[i])
  <2>1. \A m, type : F(m, type).member = m
    BY DEF F
  <2>2. i \in 1 .. 5
    BY <1>1
  <2>3. s[i].arm = "resok"
        /\ s[i].member \in {"dir_attributes", "eof", "entries", "cookieverf"}
    BY <1>1, <2>2
  <2>4. \E type : At(p, "resok", s[i].member, type)
    BY <2>3, ReaddirTable
  <2> QED BY <2>1, <2>3, <2>4 DEF At, Placed
<1>7. ASSUME NEW i \in 1 .. Len(XdrOf[p][arm]), NEW j \in 1 .. Len(Struct[p][arm]),
             Struct[p][arm][j].member = XdrOf[p][arm][i]
      PROVE  Settled(s, Struct[p][arm][j], b, extra)
  <2> DEFINE field == Struct[p][arm][j]
  <2> SUFFICES Settled(s, field, b, extra)
    OBVIOUS
  <2>1. field.member \in Encodes(p, status)
    BY <1>7 DEF Encodes
  <2>2. \A m, type : F(m, type).member = m /\ F(m, type).type = type
    BY DEF F
  <2>3. ASSUME NEW m, NEW type, At(p, "resok", m, type), field.member = m
        PROVE  field.type = type
    BY <1>2, <2>2, <2>3, FieldAt
  <2>4. CASE field.member = "dir_attributes"
    <3>1. field.type = "post_op_attr"
      BY <2>3, <2>4, ReaddirTable
    <3> HIDE DEF field
    <3>2. PICK k \in 1 .. Len(s) : k = 5
      BY <1>1
    <3>3. \A l \in k + 1 .. Len(s) : s[l].member # field.member
      BY <1>1, <3>2
    <3>4. s[k].member = field.member /\ OkValue(field.type, s[k].value, b, extra)
      BY <1>1, <1>3, <2>4, <3>1, <3>2
    <3> QED BY <1>5, <3>3, <3>4
  <2>5. CASE field.member = "cookieverf"
    <3>1. field.type = "verf3"
      BY <2>3, <2>5, ReaddirTable
    <3> HIDE DEF field
    <3>2. PICK k \in 1 .. Len(s) : k = 4
      BY <1>1
    <3>3. \A l \in k + 1 .. Len(s) : s[l].member # field.member
      BY <1>1, <2>5, <3>2
    <3>4. s[k].member = field.member /\ OkValue(field.type, s[k].value, b, extra)
      BY <1>1, <1>3, <2>5, <3>1, <3>2
    <3> QED BY <1>5, <3>3, <3>4
  <2>6. CASE field.member = "entries"
    <3>1. field.type = "entry3"
      BY <2>3, <2>6, ReaddirTable
    <3> HIDE DEF field
    <3>2. PICK k \in 1 .. Len(s) : k = 3
      BY <1>1
    <3>3. \A l \in k + 1 .. Len(s) : s[l].member # field.member
      BY <1>1, <2>6, <3>2
    <3>4. s[k].member = field.member /\ OkValue(field.type, s[k].value, b, extra)
      BY <1>1, <1>4, <2>6, <3>1, <3>2
    <3> QED BY <1>5, <3>3, <3>4
  <2>7. CASE field.member = "eof" /\ status = "OK"
    <3>1. field.type = "uint32"
      BY <2>3, <2>7, ReaddirTable
    <3> HIDE DEF field
    <3>2. PICK k \in 1 .. Len(s) : k = 2
      BY <1>1
    <3>3. \A l \in k + 1 .. Len(s) : s[l].member # field.member
      BY <1>1, <2>7, <3>2
    <3>4. s[k].member = field.member /\ OkValue(field.type, s[k].value, b, extra)
      BY <1>1, <1>3, <2>7, <3>1, <3>2
    <3> QED BY <1>5, <3>3, <3>4
  <2> QED BY <2>1, <2>4, <2>5, <2>6, <2>7, ReaddirTable DEF Status
<1>8. Answered(p, status, s, b, extra)
  BY <1>1, <1>6, <1>7 DEF Answered
<1>9. \A k \in 1 .. Len(s) : s[k].member = "entries" => s[k].value.names = names
  BY <1>1, <1>4
<1> QED BY <1>8, <1>9 DEF s

(* The reply of READDIR: the heading and the page, if attributes follow.   *)
IsReaddir(p) == p = "READDIR"

LEMMA ReaddirReply ==
    ASSUME NEW p, IsReaddir(p), NEW names \in Pages, NEW mem, NEW writes,
           NEW b, b.entries = This, NEW extra \in Nat, Answered(p, "OK", writes, b, extra),
           \A k \in 1 .. Len(writes) :
              writes[k].member = "entries" => writes[k].value.names = names,
           \E x \in EncodeRes(p, "OK", StoreAll(p, mem, writes), b).from : x.leaf = "type"
    PROVE  EncodeRes(p, "OK", StoreAll(p, mem, writes), b).size = 4 + PageSize(names)
<1> DEFINE arm == ArmOf("OK")
           st == StoreAll(p, mem, writes)
           enc(m) == EncodeMember(p, arm, m, st, b)
           members == <<"dir_attributes", "cookieverf", "entries", "eof">>
           parts == [i \in 1 .. 4 |-> enc(members[i])]
           sizes == [i \in 1 .. 4 |-> parts[i].size]
           head == uint32("status", This)
           e == EncodeRes(p, "OK", st, b)
<1>1. /\ XdrOf[p][arm] = members /\ p \in Proc /\ arm \in Arms
      /\ At(p, "resok", "dir_attributes", "post_op_attr")
      /\ At(p, "resok", "cookieverf", "verf3")
      /\ At(p, "resok", "entries", "entry3")
      /\ At(p, "resok", "eof", "uint32")
  <2>1. XdrOf[p] = xdr_READDIR3 /\ arm = "resok" /\ p = "READDIR"
    BY DEF XdrOf, ArmOf, IsReaddir
  <2> QED BY <2>1, ReaddirTable DEF xdr_READDIR3, Order, Arms
<1>2. e = head ++ InOrder(parts)
  BY <1>1 DEF EncodeRes, ArmOf
<1>3. ASSUME NEW i \in 1 .. 4, NEW type, At(p, "resok", members[i], type)
      PROVE  \E v : /\ OkValue(type, v, b, extra)
                    /\ enc(members[i]) = Encode(type, members[i], v, b)
                    /\ \E k \in 1 .. Len(writes) : /\ writes[k].member = members[i]
                                                   /\ v = writes[k].value
  <2>1. i \in 1 .. Len(XdrOf[p][arm]) /\ XdrOf[p][arm][i] = members[i]
    BY <1>1
  <2> HIDE DEF members, enc, st
  <2>2. PICK j \in 1 .. Len(Struct[p][arm]) :
          LET field == Struct[p][arm][j]
              v == Load(p, st, arm, field.member)
          IN /\ field.member = members[i]
             /\ OkValue(field.type, v, b, extra)
             /\ enc(field.member) = Encode(field.type, field.member, v, b)
             /\ \E k \in 1 .. Len(writes) : /\ writes[k].member = field.member
                                            /\ v = writes[k].value
    <3>1. PICK j \in 1 .. Len(Struct[p][arm]) :
            LET field == Struct[p][arm][j]
                v == Load(p, StoreAll(p, mem, writes), arm, field.member)
            IN /\ field.member = XdrOf[p][arm][i]
               /\ OkValue(field.type, v, b, extra)
               /\ EncodeMember(p, arm, field.member, StoreAll(p, mem, writes), b)
                    = Encode(field.type, field.member, v, b)
               /\ \E k \in 1 .. Len(writes) : /\ writes[k].member = field.member
                                              /\ v = writes[k].value
      BY <1>1, <2>1, AnsweredMember
    <3> QED BY <2>1, <3>1 DEF enc, st
  <2>3. Struct[p][arm][j].type = type
    <3>1. Struct[p][arm][j] = F(members[i], type)
      BY <1>1, <1>3, <2>2, FieldAt
    <3> QED BY <3>1 DEF F
  <2> QED BY <2>2, <2>3
<1> HIDE DEF st, enc
<1>4. PICK v : /\ OkValue("post_op_attr", v, b, extra)
               /\ enc("dir_attributes") = Encode("post_op_attr", "dir_attributes", v, b)
  <2>1. At(p, "resok", members[1], "post_op_attr") /\ members[1] = "dir_attributes"
    BY <1>1
  <2> HIDE DEF members
  <2> QED BY <1>3, <2>1
<1>5. enc("cookieverf").size = 8 /\ NoType(enc("cookieverf"))
  <2>1. At(p, "resok", members[2], "verf3") /\ members[2] = "cookieverf"
    BY <1>1
  <2> HIDE DEF members
  <2>2. PICK w : enc("cookieverf") = Encode("verf3", "cookieverf", w, b)
    BY <1>3, <2>1
  <2>3. enc("cookieverf") = uint64("cookieverf", w.by)
    BY <2>2 DEF Encode
  <2> QED BY <2>3, ItemIs DEF uint64
<1>6. PageSize(names) \in Nat /\ PageSize(names) >= RESOK_SIZE
      /\ enc("entries").size = 4 + PageSize(names) - RESOK_SIZE /\ NoType(enc("entries"))
  <2>1. At(p, "resok", members[3], "entry3") /\ members[3] = "entries"
    BY <1>1
  <2> HIDE DEF members
  <2>2. PICK w : /\ OkValue("entry3", w, b, extra)
                 /\ enc("entries") = Encode("entry3", "entries", w, b)
                 /\ \E k \in 1 .. Len(writes) : /\ writes[k].member = "entries"
                                                /\ w = writes[k].value
    BY <1>3, <2>1
  <2>3. w.names = names /\ w.by = This
    BY <2>2 DEF OkValue, Fresh
  <2>4. enc("entries") = xdr_entries(w, b)
    BY <2>2 DEF Encode
  <2> QED BY <2>3, <2>4, EncodePage
<1>7. enc("eof").size = 4 /\ NoType(enc("eof"))
  <2>1. At(p, "resok", members[4], "uint32") /\ members[4] = "eof"
    BY <1>1
  <2> HIDE DEF members
  <2>2. PICK w : enc("eof") = Encode("uint32", "eof", w, b)
    BY <1>3, <2>1
  <2>3. enc("eof") = uint32("eof", w.by)
    BY <2>2 DEF Encode
  <2> QED BY <2>3, ItemIs DEF uint32
<1>8. /\ enc("dir_attributes").size = IF v.follows THEN 88 ELSE 4
      /\ NoType(enc("dir_attributes")) \/ v.follows
      /\ v.follows \in BOOLEAN
  <2>1. enc("dir_attributes") = xdr_post_op_attr(v)
    BY <1>4 DEF Encode
  <2>2. Fresh("post_op_attr", v) /\ v.follows \in BOOLEAN
    BY <1>4 DEF OkValue, Fresh
  <2> QED BY <2>1, <2>2, EncodePost
<1>9. /\ parts[1] = enc("dir_attributes") /\ parts[2] = enc("cookieverf")
      /\ parts[3] = enc("entries") /\ parts[4] = enc("eof")
      /\ parts = [i \in 1 .. 4 |-> parts[i]]
  OBVIOUS
<1> HIDE DEF parts
<1>10. /\ InOrder(parts).size = Total(sizes)
       /\ \A x \in InOrder(parts).from : \E i \in 1 .. 4 : x \in parts[i].from
       /\ Len(sizes) = 4
  <2> HIDE DEF sizes
  <2> QED BY <1>9, InOrderParts DEF sizes
<1>11. NoType(head) /\ head.size = 4
  BY ItemIs DEF uint32
<1> HIDE DEF head, e
<1>12. e.size = 4 + Total(sizes)
  BY <1>2, <1>10, <1>11, Behind
<1>13. v.follows
  <2>1. SUFFICES ASSUME ~v.follows PROVE FALSE
    BY <1>8
  <2>2. \A i \in 1 .. 4 : NoType(parts[i])
    BY <1>5, <1>6, <1>7, <1>8, <1>9, <2>1
  <2>3. NoType(InOrder(parts))
    BY <1>10, <2>2 DEF NoType
  <2>4. NoType(e)
    BY <1>2, <1>11, <2>3, Behind
  <2> QED BY <2>4 DEF NoType, e, st
<1>14. /\ sizes[1] = 88 /\ sizes[2] = 8
       /\ sizes[3] = 4 + PageSize(names) - RESOK_SIZE /\ sizes[4] = 4
  BY <1>5, <1>6, <1>7, <1>8, <1>9, <1>13
<1> HIDE DEF sizes
<1>15. Total(sizes) = PageSize(names)
  <2>1. \A i \in 1 .. 4 : sizes[i] \in Nat
    BY <1>6, <1>14 DEF RESOK_SIZE
  <2>2. Total(sizes) = sizes[1] + sizes[2] + sizes[3] + sizes[4]
    BY <1>10, <2>1, TotalOfFour
  <2> QED BY <1>6, <1>14, <2>2 DEF RESOK_SIZE
<1> QED BY <1>12, <1>15 DEF e, st

LEMMA StepReaddir == ASSUME WireTyped, Readdir PROVE WireInv'
<1> DEFINE p == "READDIR"
           reads == {"dir", "cookie", "count"}
           b == [buffers EXCEPT !.entries = This]
           data(names) == [NoData EXCEPT !.names = names]
<1>1. PICK status \in Status, found \in BOOLEAN, names \in Pages :
         ServeData(p, NoUnions, reads, status, ReaddirWrites(status, found, names), b, TRUE,
                   data(names))
  BY DEF Readdir, ReaddirWrites
<1> DEFINE writes == ReaddirWrites(status, found, names)
           e == EncodeRes(p, status, StoreAll(p, result[p], writes), b)
<1>2. b \in Buffers /\ b.entries = This
  BY SetBuffers
<1> HIDE DEF b
<1> DEFINE size == PageSize(names)
<1>3. size \in Nat
  <2>1. Page(names).names = names /\ Page(names).by = This
    BY FreshData DEF Fresh
  <2> QED BY <1>2, <2>1, EncodePage
<1>4. /\ Answered(p, status, writes, b, size)
      /\ \A k \in 1 .. Len(writes) :
            writes[k].member = "entries" => writes[k].value.names = names
  <2> HIDE DEF size
  <2>1. size <= size
    BY <1>3
  <2> QED BY <1>2, <1>3, <2>1, ReaddirAnswers DEF size
<1>5. p \in Proc /\ (PageSize(data(names).names) <= ReplyLimit => size <= NFS_MAXDATA_UDP)
  BY <1>3, ReaddirTable DEF ReplyLimit, NFS_MAXDATA_UDP, NoData
<1>6. reads \subseteq Decoded(p, NoUnions) \cup {"new_attr"}
  BY ReaddirTable, BareDecoded
<1>7. /\ reply'.body = e /\ reply'.status = status /\ sent' = data(names)
  BY <1>1 DEF ServeData, Reply
<1> HIDE DEF reads, writes, e
<1>8. ServeData(p, NoUnions, reads, status, writes, b, TRUE, data(names))
  BY <1>1 DEF writes
<1>9. WireTyped' /\ ReplyIsThisRequests' /\ ReadsDecoded' /\ ReplyFits'
  BY <1>2, <1>3, <1>5, <1>6, <1>8, <1>4, ServedWell
<1>10. ReaddirSizes'
  <2>1. SUFFICES ASSUME status = "OK", \E x \in e.from : x.leaf = "type"
                 PROVE  e.size = 4 + PageSize(names)
    BY <1>7 DEF ReaddirSizes, HasAttributes, NoData
  <2> QED BY <1>2, <1>3, <1>4, <2>1, ReaddirReply DEF e, IsReaddir
<1>11. ReadStopsAtEof'
  BY <1>7 DEF ReadStopsAtEof, NoData
<1> QED BY <1>9, <1>10, <1>11 DEF WireInv

-----------------------------------------------------------------------------
(* Before the first request nothing has been replied.                      *)
LEMMA WireInvInit == WireInit => WireInv
<1> SUFFICES ASSUME WireInit PROVE WireInv
  OBVIOUS
<1> USE DEF WireInit, Reply, Nothing, NoData
<1>1. WireTyped
  BY DEF WireTyped, Buffers
<1>2. ReplyIsThisRequests /\ ReadsDecoded
  BY DEF ReplyIsThisRequests, ReadsDecoded
<1>3. ReplyFits
  BY DEF ReplyFits, RpcHeader, NFS_MAX_UDP_PACKET, NFS_MAXDATA_UDP
<1>4. ReaddirSizes /\ ReadStopsAtEof
  BY DEF ReaddirSizes, ReadStopsAtEof
<1> QED BY <1>1, <1>2, <1>3, <1>4 DEF WireInv

LEMMA WireInvNext == WireInv /\ [WireNext]_WireVars => WireInv'
<1> SUFFICES ASSUME WireInv, [WireNext]_WireVars PROVE WireInv'
  OBVIOUS
<1>1. WireTyped
  BY DEF WireInv
<1>2. CASE Getattr BY <1>1, <1>2, StepGetattr
<1>3. CASE Setattr BY <1>1, <1>3, StepSetattr
<1>4. CASE Lookup BY <1>1, <1>4, StepLookup
<1>5. CASE Access BY <1>1, <1>5, StepAccess
<1>6. CASE Readlink BY <1>1, <1>6, StepReadlink
<1>7. CASE Read BY <1>1, <1>7, StepRead
<1>8. CASE Write BY <1>1, <1>8, StepWrite
<1>9. CASE Create BY <1>1, <1>9, StepCreate
<1>10. CASE Mkdir BY <1>1, <1>10, StepMkdir
<1>11. CASE Symlink BY <1>1, <1>11, StepSymlink
<1>12. CASE Mknod BY <1>1, <1>12, StepMknod
<1>13. CASE Remove3 BY <1>1, <1>13, StepRemove
<1>14. CASE Rmdir BY <1>1, <1>14, StepRmdir
<1>15. CASE Rename BY <1>1, <1>15, StepRename
<1>16. CASE Link BY <1>1, <1>16, StepLink
<1>17. CASE Readdir BY <1>1, <1>17, StepReaddir
<1>18. CASE Readdirplus BY <1>1, <1>18, StepReaddirplus
<1>19. CASE Fsstat BY <1>1, <1>19, StepFsstat
<1>20. CASE Fsinfo BY <1>1, <1>20, StepFsinfo
<1>21. CASE Pathconf BY <1>1, <1>21, StepPathconf
<1>22. CASE Commit BY <1>1, <1>22, StepCommit
<1>23. CASE Mnt BY <1>1, <1>23, StepMnt
<1>24. CASE Refuse BY <1>1, <1>24, StepRefuse
<1>25. CASE UNCHANGED WireVars
  BY <1>25 DEF WireVars, WireInv, WireTyped, ReplyIsThisRequests, ReadsDecoded, ReplyFits,
               ReaddirSizes, HasAttributes, ReadStopsAtEof
<1> QED BY <1>2, <1>3, <1>4, <1>5, <1>6, <1>7, <1>8, <1>9, <1>10, <1>11, <1>12, <1>13, <1>14,
           <1>15, <1>16, <1>17, <1>18, <1>19, <1>20, <1>21, <1>22, <1>23, <1>24, <1>25
        DEF WireNext

LEMMA WireInvariant == WireSpec => []WireInv
  BY WireInvInit, WireInvNext, PTL DEF WireSpec

(* No reply carries anything that an earlier request left in the static    *)
(* results and buffers of the procedures, in the arm of the union that was *)
(* not chosen or on the stack, except for the fields that statTranslator   *)
(* and fh_length never set: whatever was served before, in any order.      *)
THEOREM RepliesAreTheRequests == WireSpec => []ReplyIsThisRequests
<1>1. WireInv => ReplyIsThisRequests
  BY DEF WireInv
<1> QED BY <1>1, WireInvariant, PTL

(* No procedure reads an argument that the discriminants of its own call   *)
(* left undecoded, save the mode of an EXCLUSIVE CREATE and, as a zero, the *)
(* time of a SETATTR with a time_how that is none of the protocol's.       *)
THEOREM ArgumentsAreDecoded == WireSpec => []ReadsDecoded
<1>1. WireInv => ReadsDecoded
  BY DEF WireInv
<1> QED BY <1>1, WireInvariant, PTL

(* Every reply over UDP fits the transport's buffer, for READs of any      *)
(* count at any offset of a file of any size, and for every page that      *)
(* keeps to the reply limit.                                               *)
THEOREM RepliesFit == WireSpec => []ReplyFits
<1>1. WireInv => ReplyFits
  BY DEF WireInv
<1> QED BY <1>1, WireInvariant, PTL

(* The sizes READDIR budgets with are those of the encoder, for a page of  *)
(* any number of names of any lengths.                                     *)
THEOREM PagesTakeTheirSize == WireSpec => []ReaddirSizes
<1>1. WireInv => ReaddirSizes
  BY DEF WireInv
<1> QED BY <1>1, WireInvariant, PTL

(* A client that reads a file of any size piece by piece gets all of it    *)
(* and stops at its end.                                                   *)
THEOREM ReadsReachTheEnd == WireSpec => []ReadStopsAtEof
<1>1. WireInv => ReadStopsAtEof
  BY DEF WireInv
<1> QED BY <1>1, WireInvariant, PTL
=============================================================================
