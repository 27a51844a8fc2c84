----------------------------- MODULE Lifecycle -----------------------------
(***************************************************************************)
(* Start and end of the server process: the C thread that start() runs on  *)
(* (unfs3/daemon.c), the goroutine that waits for Ctrl-C (unfs2go.go), and *)
(* the portmapper, which outlives every process and is not part of the     *)
(* repository.  The operating system interleaves the two threads between   *)
(* any two steps; os.Exit and exit end both.                               *)
(*                                                                         *)
(* svc_register enters a callout in the process and asks the portmapper    *)
(* for a free slot (pmap_set); pmap_unset frees the slots of a program and *)
(* version, whoever owns them; svc_unregister takes the callout back and   *)
(* does the same, but nothing at all where the process has no callout.     *)
(***************************************************************************)
EXTENDS Naturals, Sequences

CONSTANT MaxRuns    \* bound: processes started one after the other

ASSUME LifecycleAssumption == MaxRuns \in Nat

Free == 0                                 \* an empty slot of the portmapper
Service == {"NFS3", "MOUNT1", "MOUNT3"}   \* program and version
Slot == Service \X {"udp", "tcp"}

VARIABLES
    run,      \* number of the current process, 0 before the first
    pc,       \* where its C thread is
    step,     \* the next of Registrations, or of Unregistrations
    sig,      \* where its goroutine is
    closed,   \* how often ns.Close has returned in this process
    ended,    \* how the last process ended
    callouts, \* the services the RPC library has entered for this process
    pmap      \* the portmapper: which process owns each slot

vars == <<run, pc, step, sig, closed, ended, callouts, pmap>>

(* register_nfs_service, then register_mount_service; as mutants, with one *)
(* pmap_unset or one svc_register left out.                                *)
Registrations_NoUnset ==
    << <<"unset", "NFS3">>, <<"udp", "NFS3">>, <<"tcp", "NFS3">>,
       <<"unset", "MOUNT3">>,
       <<"udp", "MOUNT1">>, <<"udp", "MOUNT3">>,
       <<"tcp", "MOUNT1">>, <<"tcp", "MOUNT3">> >>

Registrations_NoTcp ==
    << <<"unset", "NFS3">>, <<"udp", "NFS3">>, <<"tcp", "NFS3">>,
       <<"unset", "MOUNT1">>, <<"unset", "MOUNT3">>,
       <<"udp", "MOUNT1">>, <<"udp", "MOUNT3">>, <<"tcp", "MOUNT1">> >>

Registrations ==
    << <<"unset", "NFS3">>, <<"udp", "NFS3">>, <<"tcp", "NFS3">>,
       <<"unset", "MOUNT1">>, <<"unset", "MOUNT3">>,
       <<"udp", "MOUNT1">>, <<"udp", "MOUNT3">>,
       <<"tcp", "MOUNT1">>, <<"tcp", "MOUNT3">> >>

(* What daemon_exit takes back; as a mutant, the older MOUNT is forgotten. *)
Unregistrations_NoMount1 == <<"MOUNT3", "NFS3">>
Unregistrations == <<"MOUNT1", "MOUNT3", "NFS3">>

Alive == pc # "off"

Unset(service) == [s \in Slot |-> IF s[1] = service THEN Free ELSE pmap[s]]

(* The process ends; what it registered stays registered.                  *)
End(how) == /\ pc' = "off"
            /\ sig' = "none"
            /\ step' = 1
            /\ ended' = how
            /\ callouts' = {}

-----------------------------------------------------------------------------
(* main: the backend is open, Ctrl-C not yet caught.  As a mutant, the     *)
(* count of closes is carried over.                                        *)
Launch_NoReset ==
    /\ pc = "off" /\ run < MaxRuns
    /\ run' = run + 1
    /\ pc' = "prepared"
    /\ UNCHANGED <<step, sig, closed, ended, callouts, pmap>>

Launch ==
    /\ pc = "off" /\ run < MaxRuns
    /\ run' = run + 1
    /\ pc' = "prepared"
    /\ closed' = 0
    /\ UNCHANGED <<step, sig, ended, callouts, pmap>>

(* parseArgs fails: main prints the error and returns.                     *)
BadArguments ==
    /\ pc = "off" /\ run < MaxRuns
    /\ run' = run + 1
    /\ closed' = 0
    /\ End("bad_arguments")
    /\ UNCHANGED pmap

(* signal.Notify, the goroutine, C.start and go_init.                      *)
Notify ==
    /\ pc = "prepared"
    /\ pc' = "udp"
    /\ sig' = "waiting"
    /\ UNCHANGED <<run, step, closed, ended, callouts, pmap>>

(* create_udp_transport and create_tcp_transport: when bind fails the      *)
(* process exits at once, when the service cannot be made it goes through  *)
(* daemon_exit.                                                            *)
CreateTransport(proto, next) ==
    /\ pc = proto
    /\ \/ pc' = next /\ UNCHANGED <<step, sig, ended, callouts>>
       \/ End("bind_failed")
       \/ pc' = "daemon_exit" /\ UNCHANGED <<step, sig, ended, callouts>>
    /\ UNCHANGED <<run, closed, pmap>>

(* A callout is entered before the portmapper is asked, and stays when it  *)
(* refuses.                                                                *)
Register ==
    /\ pc = "registering"
    /\ step <= Len(Registrations)
    /\ LET op == Registrations[step][1]
           service == Registrations[step][2]
       IN \/ /\ op = "unset"
             /\ pmap' = Unset(service)
             /\ step' = step + 1
             /\ UNCHANGED <<pc, callouts>>
          \/ /\ op # "unset"
             /\ pmap[<<service, op>>] = Free
             /\ pmap' = [pmap EXCEPT ![<<service, op>>] = run]
             /\ callouts' = callouts \cup {service}
             /\ step' = step + 1
             /\ UNCHANGED pc
          \/ /\ op # "unset"             \* the slot is taken, or no portmapper
             /\ pc' = "daemon_exit"
             /\ step' = 1
             /\ callouts' = callouts \cup {service}
             /\ UNCHANGED pmap
    /\ UNCHANGED <<run, sig, closed, ended>>

Registered ==
    /\ pc = "registering"
    /\ step > Len(Registrations)
    /\ pc' = "serving"
    /\ step' = 1
    /\ UNCHANGED <<run, sig, closed, ended, callouts, pmap>>

(* unfs3_svc_run: a request is dispatched; EINTR and a timeout poll again; *)
(* any other failure of poll returns through start to main, which returns. *)
Dispatch ==
    /\ pc = "serving"
    /\ pc' = "in_request"
    /\ UNCHANGED <<run, step, sig, closed, ended, callouts, pmap>>

Replied ==
    /\ pc = "in_request"
    /\ pc' = "serving"
    /\ UNCHANGED <<run, step, sig, closed, ended, callouts, pmap>>

PollFails ==
    /\ pc = "serving"
    /\ End("poll_failed")
    /\ UNCHANGED <<run, closed, pmap>>

(* daemon_exit: the services are unregistered one by one ...               *)
Unregister ==
    /\ pc = "daemon_exit"
    /\ step <= Len(Unregistrations)
    /\ LET service == Unregistrations[step]
       IN /\ pmap' = IF service \in callouts THEN Unset(service) ELSE pmap
          /\ callouts' = callouts \ {service}
    /\ step' = step + 1
    /\ UNCHANGED <<run, pc, sig, closed, ended>>

(* ... then go_shutdown calls shutDown, as the goroutine may be doing.     *)
Shutdown ==
    /\ pc = "daemon_exit"
    /\ step > Len(Unregistrations)
    /\ pc' = "closing"
    /\ UNCHANGED <<run, step, sig, closed, ended, callouts, pmap>>

CloseInThread ==
    /\ pc = "closing"
    /\ pc' = "closed"
    /\ closed' = closed + 1
    /\ UNCHANGED <<run, step, sig, ended, callouts, pmap>>

ExitInThread ==
    /\ pc = "closed"
    /\ End("daemon_exit")
    /\ UNCHANGED <<run, closed, pmap>>

-----------------------------------------------------------------------------
(* Ctrl-C, once signal.Notify is in place; later ones stay in the channel. *)
Interrupt ==
    /\ sig = "waiting"
    /\ sig' = "closing"
    /\ UNCHANGED <<run, pc, step, closed, ended, callouts, pmap>>

(* Any other signal, Ctrl-C before signal.Notify, and a panic of the Go    *)
(* side, kill the process.                                                 *)
Kill ==
    /\ Alive
    /\ End("killed")
    /\ UNCHANGED <<run, closed, pmap>>

(* The goroutine's shutDown, whatever the C thread is doing.               *)
CloseInGoroutine ==
    /\ sig = "closing"
    /\ sig' = "closed"
    /\ closed' = closed + 1
    /\ UNCHANGED <<run, pc, step, ended, callouts, pmap>>

(* Mutants: os.Exit does not wait for ns.Close, or is left out.            *)
ExitInGoroutine_Early ==
    /\ sig \in {"closing", "closed"}
    /\ End("interrupt")
    /\ UNCHANGED <<run, closed, pmap>>

ExitInGoroutine_Returns ==
    /\ sig = "closed"
    /\ sig' = "none"
    /\ UNCHANGED <<run, pc, step, closed, ended, callouts, pmap>>

ExitInGoroutine ==
    /\ sig = "closed"
    /\ End("interrupt")
    /\ UNCHANGED <<run, closed, pmap>>

-----------------------------------------------------------------------------
Init == /\ run = 0
        /\ pc = "off"
        /\ step = 1
        /\ sig = "none"
        /\ closed = 0
        /\ ended = "none"
        /\ callouts = {}
        /\ pmap = [s \in Slot |-> Free]

CThread == \/ Notify
           \/ CreateTransport("udp", "tcp")
           \/ CreateTransport("tcp", "registering")
           \/ Register \/ Registered
           \/ Dispatch \/ Replied \/ PollFails
           \/ Unregister \/ Shutdown \/ CloseInThread \/ ExitInThread

Goroutine == CloseInGoroutine \/ ExitInGoroutine

Next == Launch \/ BadArguments \/ CThread \/ Interrupt \/ Kill \/ Goroutine

(* Both threads are scheduled by the operating system; a Ctrl-C, a request *)
(* or a launch need never come.                                            *)
Fairness == /\ WF_vars(Goroutine)
            /\ WF_vars(Unregister \/ Shutdown \/ CloseInThread \/ ExitInThread)

Spec == Init /\ [][Next]_vars /\ Fairness

-----------------------------------------------------------------------------
(* Type: program points, a step within the registrations, owners that have *)
(* run.                                                                    *)
TypeOK ==
    /\ run \in 0..MaxRuns
    /\ pc \in {"off", "prepared", "udp", "tcp", "registering", "serving", "in_request",
               "daemon_exit", "closing", "closed"}
    /\ step \in 1..Len(Registrations) + 1
    /\ sig \in {"none", "waiting", "closing", "closed"}
    /\ closed \in 0..2
    /\ ended \in {"none", "bad_arguments", "bind_failed", "poll_failed", "daemon_exit",
                  "interrupt", "killed"}
    /\ callouts \subseteq Service
    /\ pmap \in [Slot -> 0..run]

(* A process that serves is the one the portmapper sends clients to, for   *)
(* every service and protocol, whatever earlier processes left behind.     *)
ServingIsRegistered ==
    pc \in {"serving", "in_request"} => \A s \in Slot : pmap[s] = run

(* What an earlier process left in the portmapper never stands in the way  *)
(* of a registration: its slot has been freed by then.                     *)
RegistrationFindsFreeSlot ==
    pc = "registering" /\ step <= Len(Registrations) /\ Registrations[step][1] # "unset"
        => pmap[<<Registrations[step][2], Registrations[step][1]>>] = Free

(* A process that ends through daemon_exit leaves no service registered    *)
(* that is its own, be it reached from a transport or from any of the      *)
(* registrations, half a service included.  What an earlier process that   *)
(* was killed left may stay: svc_unregister does not touch the services of *)
(* which this process has registered nothing yet.                          *)
ErrorExitUnregisters ==
    pc = "off" /\ ended = "daemon_exit" => \A s \in Slot : pmap[s] # run

(* Ctrl-C and daemon_exit end the process only after ns.Close has returned *)
(* once, whichever of the two threads gets there first.                    *)
BackendClosedBeforeExit ==
    pc = "off" /\ ended \in {"interrupt", "daemon_exit"} => closed >= 1

(* A Ctrl-C, once caught, and a daemon_exit, once begun, end the process,  *)
(* even if a request is being served (ns.Close is assumed to return).      *)
ShutdownCompletes == sig = "closing" \/ pc = "daemon_exit" ~> pc = "off"

(* daemon.c:74, "signal handler and error exit function": a process ended  *)
(* by Ctrl-C leaves no service registered.  The code never installs        *)
(* daemon_exit for a signal; the goroutine's shutDown unregisters nothing. *)
InterruptUnregisters ==
    pc = "off" /\ ended = "interrupt" => \A s \in Slot : pmap[s] # run
=============================================================================
