------------------------------- MODULE Event -------------------------------
(***************************************************************************)
(* An event object of src/rt-thread/src/ipc.c, on the processor of module  *)
(* Processor.  Threads wait for all (RT_EVENT_FLAG_AND) or for some        *)
(* (RT_EVENT_FLAG_OR) of a set of bits, and may clear those they receive   *)
(* (RT_EVENT_FLAG_CLEAR).  rt_event_send serves the whole suspend list in  *)
(* one masked region, from a thread or from a handler.                     *)
(***************************************************************************)
EXTENDS Processor

CONSTANTS Evt,       \* the list event->parent.suspend_thread
          EventFlag, \* RT_IPC_FLAG_FIFO or RT_IPC_FLAG_PRIO
          Bit,       \* the bits of event->set
          Requests,  \* what rt_event_recv is called with
          WaitTimes  \* the timeouts it is called with

ASSUME EventAssumption ==
    /\ Object = {Evt}
    /\ EventFlag \in {"FIFO", "PRIO"}
    /\ Requests \subseteq [want : (SUBSET Bit) \ {{}}, all : BOOLEAN, clear : BOOLEAN]
    /\ WaitTimes \subseteq Int

VARIABLES set,   \* event->set
          life,  \* "live"; "closing" in rt_event_detach; "gone" after it
          info   \* [Thread -> event_set (want) and event_info (all, clear)]

eventVars == <<set, life, info>>
vars == <<kernelVars, eventVars>>

Waiters == Range(k.wait[Evt])

(* event_set and event_info are read only between the suspension of a      *)
(* thread and its return; outside they are NoRequest here.                 *)
NoRequest == [want |-> {}, all |-> FALSE, clear |-> FALSE]

Init ==
    /\ KernelInit
    /\ set = {}
    /\ life = "live"
    /\ info = [t \in Thread |-> NoRequest]

Meets(r, s) == IF r.all THEN r.want \subseteq s ELSE r.want \cap s # {}

-----------------------------------------------------------------------------
(* rt_event_send: the suspend list from its head, with what each waiter    *)
(* leaves of the set; s is [k, set, info].                                 *)

Received(r, s) == IF r.all THEN r.want ELSE r.want \cap s

VisitMutant(s, t) ==                        \* CLEAR is forgotten
    LET r == s.info[t]
    IN  IF ~Meets(r, s.set)
        THEN s
        ELSE [k    |-> ThreadResume(s.k, t),
              set  |-> s.set,
              info |-> [s.info EXCEPT ![t].want = Received(r, s.set)]]

VisitLateMutant(s, t) ==                    \* cleared, then read
    LET r    == s.info[t]
        left == IF r.clear THEN s.set \ Received(r, s.set) ELSE s.set
    IN  IF ~Meets(r, s.set)
        THEN s
        ELSE [k    |-> ThreadResume(s.k, t),
              set  |-> left,
              info |-> [s.info EXCEPT ![t].want = @ \cap left]]

Visit(s, t) ==
    LET r   == s.info[t]
        got == Received(r, s.set)
    IN  IF ~Meets(r, s.set)
        THEN s
        ELSE [k    |-> ThreadResume(s.k, t),
              set  |-> IF r.clear THEN s.set \ got ELSE s.set,
              info |-> [s.info EXCEPT ![t].want = got]]

ServeMutant(bits) ==                        \* the first that is met, only
    LET posted == set \cup bits
        met    == {i \in 1 .. Len(k.wait[Evt]) : Meets(info[k.wait[Evt][i]], posted)}
        s      == [k |-> k, set |-> posted, info |-> info]
    IN  IF met = {} THEN s
        ELSE Visit(s, k.wait[Evt][CHOOSE i \in met : \A j \in met : i <= j])

(* turn[i] is what the loop leaves when it has visited i threads.          *)
Serve(bits) ==
    LET list == k.wait[Evt]
        turn[i \in 0 .. Len(list)] ==
            IF i = 0 THEN [k |-> k, set |-> set \cup bits, info |-> info]
            ELSE Visit(turn[i - 1], list[i])
    IN  turn[Len(list)]

Send(t, bits) ==
    /\ At(t, "run") /\ life = "live"
    /\ LET s == Serve(bits)
       IN  /\ k' = s.k /\ set' = s.set /\ info' = s.info
           /\ IF s.k.wait # k.wait THEN Goto(t, "sched") ELSE UNCHANGED pc
    /\ UNCHANGED <<irq, life>>

IsrSend(bits) ==
    /\ irq = "on" /\ life # "gone"
    /\ LET s == Serve(bits)
       IN  /\ k' = IF s.k.wait # k.wait THEN Schedule(s.k) ELSE s.k
           /\ set' = s.set /\ info' = s.info
    /\ UNCHANGED <<pc, irq, life>>

-----------------------------------------------------------------------------
(* rt_event_recv                                                           *)

RecvNow(t, r) ==
    /\ At(t, "run") /\ life = "live"
    /\ Meets(r, set)
    /\ k' = [k EXCEPT !.error[t] = "OK"]
    /\ set' = IF r.clear THEN set \ r.want ELSE set
    /\ UNCHANGED <<pc, irq, life, info>>

RecvRefused(t, r) ==                        \* timeout = 0
    /\ At(t, "run") /\ life = "live"
    /\ ~Meets(r, set)
    /\ 0 \in WaitTimes
    /\ k' = [k EXCEPT !.error[t] = "TIMEOUT"]
    /\ UNCHANGED <<pc, irq, eventVars>>

RecvBlocks(t, r) ==
    /\ At(t, "run") /\ life = "live" /\ MayBlock
    /\ ~Meets(r, set)
    /\ \E time \in WaitTimes \ {0} : k' = Block(k, Evt, t, EventFlag, time)
    /\ Goto(t, "wait")
    /\ info' = [info EXCEPT ![t] = r]
    /\ UNCHANGED <<irq, set, life>>

RecvReturns(t) ==       \* thread->error, or RT_EOK and thread->event_set
    /\ At(t, "woken")
    /\ Goto(t, "run")
    /\ info' = [info EXCEPT ![t] = NoRequest]
    /\ UNCHANGED <<k, irq, set, life>>

-----------------------------------------------------------------------------
(* rt_event_control(RT_IPC_CMD_RESET): one masked region, a step per turn. *)

InReset(t) == irq = "off" /\ k.cur = t /\ pc[t] = "reset"

ResetBegin(t) ==
    /\ At(t, "run") /\ life = "live"
    /\ irq' = "off"
    /\ Goto(t, "reset")
    /\ UNCHANGED <<k, eventVars>>

ResetWake(t) ==
    /\ InReset(t)
    /\ Waiters # {}
    /\ k' = IpcListAbort(k, Evt)
    /\ UNCHANGED <<pc, irq, eventVars>>

ResetEnd(t) ==
    /\ InReset(t)
    /\ Waiters = {}
    /\ set' = {}
    /\ irq' = "on"
    /\ Goto(t, "sched")
    /\ UNCHANGED <<k, life, info>>

-----------------------------------------------------------------------------
(* rt_event_detach and rt_event_delete, as in module Semaphore: threads    *)
(* stop using the event, a handler may still send to it.                   *)

DetachBegin(t) ==
    /\ At(t, "run") /\ life = "live"
    /\ life' = "closing"
    /\ Goto(t, "detach")
    /\ UNCHANGED <<k, irq, set, info>>

DetachTest(t) ==
    /\ At(t, "detach")
    /\ Waiters # {}
    /\ Goto(t, "dequeue")
    /\ UNCHANGED <<k, irq, eventVars>>

DetachWake(t) ==
    /\ At(t, "dequeue")
    /\ Waiters # {}
    /\ k' = IpcListAbort(k, Evt)
    /\ Goto(t, "detach")
    /\ UNCHANGED <<irq, eventVars>>

DetachHalt(t) ==    \* the list has become empty since the test
    /\ At(t, "dequeue")
    /\ Waiters = {}
    /\ irq' = "off"
    /\ Goto(t, "halt")
    /\ UNCHANGED <<k, eventVars>>

Halted(t) ==                                \* rt_assert_handler
    /\ irq = "off" /\ k.cur = t /\ pc[t] = "halt"
    /\ UNCHANGED vars

DetachEnd(t) ==
    /\ At(t, "detach")
    /\ Waiters = {}
    /\ life' = "gone"
    /\ Goto(t, "run")
    /\ UNCHANGED <<k, irq, set, info>>

EventInit(t) ==                             \* rt_event_init, rt_event_create
    /\ At(t, "run") /\ life = "gone"
    /\ life' = "live"
    /\ set' = {}
    /\ UNCHANGED <<kernelVars, info>>

-----------------------------------------------------------------------------
Posts == (SUBSET Bit) \ {{}}      \* rt_event_send refuses the empty set

EventStep(t) ==
    \/ \E bits \in Posts : Send(t, bits)
    \/ \E r \in Requests : RecvNow(t, r) \/ RecvRefused(t, r) \/ RecvBlocks(t, r)
    \/ RecvReturns(t)
    \/ ResetBegin(t) \/ ResetWake(t) \/ ResetEnd(t)
    \/ DetachBegin(t) \/ DetachTest(t) \/ DetachWake(t) \/ DetachHalt(t)
    \/ DetachEnd(t) \/ Halted(t)
    \/ EventInit(t)

HandlerStep == \E bits \in Posts : IsrSend(bits)

KernelStep == KernelNext /\ UNCHANGED eventVars

Next == KernelStep \/ HandlerStep \/ \E t \in Worker : EventStep(t)

Spec == Init /\ [][Next]_vars

-----------------------------------------------------------------------------
(* A request that is waited for, or the bits received in its place.        *)
Standing == [want : (SUBSET Bit) \ {{}}, all : BOOLEAN, clear : BOOLEAN]

TypeOK ==
    /\ KernelTypeOK
    /\ set \subseteq Bit
    /\ life \in {"live", "closing", "gone"}
    /\ info \in [Thread -> Standing \cup {NoRequest}]

(* No lost event (rt_event_send, rt_event_recv): no thread waits for what  *)
(* the set already holds, though the waiters served before it have cleared *)
(* bits and others have timed out or been aborted between the sends.       *)
NoEventMissed == \A t \in Waiters : ~Meets(info[t], set)

PhaseOf(t) ==
    CASE t \in Waiters -> <<"asks", info[t]>>
      [] t \notin Waiters /\ pc[t] \in {"wait", "woken"} ->
            IF k.error[t] = "OK" THEN <<"got", info[t].want>> ELSE <<"refused">>
      [] OTHER -> <<"out">>

Abstract == INSTANCE AbstractEvent WITH
    Client <- Thread, Flag <- Bit, flags <- set,
    phase <- [t \in Thread |-> PhaseOf(t)]

(* The promise of an event (rt_event_send over several waiters, against    *)
(* timeouts and resets): a waiter is woken with bits that meet its         *)
(* request, a cleared bit goes to one of those that clear it, none is      *)
(* dropped, and a call that fails has received nothing.                    *)
ImplementsEvent == Abstract!Spec
=============================================================================
