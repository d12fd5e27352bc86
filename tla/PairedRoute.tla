---------------------------- MODULE PairedRoute ----------------------------
(***************************************************************************)
(* How a client on this machine gets at one browser session, and loses it  *)
(* again: the registry's one-use pairing (ui/project_agent_session_        *)
(* registry.py), the broker with its offers, pipe endpoints and the one    *)
(* launcher slot of the logon (ui/project_agent_named_pipe.py), the        *)
(* runtime's arm, disarm and close (ui/project_agent_session_pump.py), and *)
(* the launcher with its gateway (agent_adapters/).                        *)
(*                                                                         *)
(* An offer is a lease with its descriptor file, its capability, its pipe  *)
(* and the endpoint thread that serves the pipe.  Every step is one hold   *)
(* of the broker's or the registry's lock, or one exchange on the pipe.    *)
(* The mailbox is reduced to what pairing looks at: idle, busy with a      *)
(* request or ready with its outcome (SessionPump has the rest).  Wrong    *)
(* secrets, process ids and contract versions are one kind of bad claim.   *)
(***************************************************************************)
EXTENDS Naturals, FiniteSets

CONSTANTS
  Sessions, Clients, \* browser sessions, launchers with their gateway
  MaxOffers          \* bound: offers made

ASSUME PairingAssumption ==
  /\ Sessions # {} /\ Sessions \subseteq Nat \ {0} /\ Clients \subseteq Nat \ {0}
  /\ MaxOffers \in Nat

Offers == 1 .. MaxOffers

VARIABLES
  runtime, \* per session: its own calls, and whether it knows the broker
  route,   \* per session: the registry's record
  mail,    \* per session: the mailbox, with the pairing its request came from
  bk,      \* the broker: lease of each session, launcher slot with its file, offers
  client,  \* per client: what it knows and is connected to
  used     \* offers made, and those revoked: their disarm has returned

vars == <<runtime, route, mail, bk, client, used>>

NoOffer == [session |-> 0, late |-> FALSE, pc |-> "unused", stop |-> FALSE,
            wake |-> FALSE, peer |-> 0, gone |-> FALSE, claimed |-> FALSE,
            desc |-> FALSE, pair |-> 0, out |-> FALSE, end |-> "none"]
NewOffer(s) == [NoOffer EXCEPT !.session = s, !.pc = "listen", !.desc = TRUE]
NoSlot == [session |-> 0, status |-> "none", offer |-> 0, gone |-> TRUE]
Away == [at |-> "away", offer |-> 0]

Init ==
  /\ runtime = [s \in Sessions |-> [ui |-> "idle", had |-> FALSE, shut |-> "open", knows |-> FALSE]]
  /\ route = [s \in Sessions |-> [registered |-> TRUE, verifier |-> 0, gen |-> 0, next |-> 0]]
  /\ mail = [s \in Sessions |-> [state |-> "idle", gen |-> 0]]
  /\ bk = [lease |-> [s \in Sessions |-> 0], slot |-> NoSlot,
           at |-> [o \in Offers |-> NoOffer]]
  /\ client = [c \in Clients |-> Away]
  /\ used = [offers |-> 0, revoked |-> {}]

At(o) == bk.at[o]
Session(o) == At(o).session

-----------------------------------------------------------------------------
(* The broker under its lock. *)

(* Faulty variant: a thread blocked in ConnectNamedPipe is not woken. *)
StopUnwoken(b, o) == [b EXCEPT !.at[o].stop = TRUE]

(* _PipeEndpoint.stop: the stop event, and a connection that wakes a       *)
(* thread waiting for a client.                                            *)
Stop(b, o) == [b EXCEPT !.at[o] = [@ EXCEPT !.stop = TRUE, !.wake = b.at[o].pc = "listen"]]

(* The slot's file goes with its handle, deleted before or not.            *)
FinishSlot(b, s) ==
  IF b.slot.session # s THEN b ELSE [b EXCEPT !.slot = NoSlot]

DropLease(b, s) ==
  LET o == b.lease[s]
  IN  [b EXCEPT !.lease[s] = 0, !.at[o].desc = FALSE]

Dropped(b, s) == Stop(DropLease(b, s), b.lease[s])

(* close_session_route; the endpoint is stopped right after the lock.      *)
CloseRoute(b, s) == FinishSlot(IF b.lease[s] = 0 THEN b ELSE Dropped(b, s), s)

(* _expire_launcher_rendezvous_locked *)
SlotExpired(b) == b.slot.status = "ready" /\ b.at[b.slot.offer].late
ExpireSlot(b) ==
  LET s == b.slot.session  o == b.lease[s]
  IN  IF ~SlotExpired(b) THEN b
      ELSE FinishSlot(IF o # 0 /\ ~b.at[o].claimed THEN Dropped(b, s) ELSE b, s)

-----------------------------------------------------------------------------
(* The session: arm, disarm, close. *)

Ui(s, step) == runtime' = [runtime EXCEPT ![s].ui = step]

StartArm(s) ==
  /\ runtime[s].ui = "idle" /\ runtime[s].shut = "open" /\ Ui(s, "arming")
  /\ UNCHANGED <<route, mail, bk, client, used>>

(* The registry answers "armed" to a live, unpaired route. *)
Armable(s) == route[s].registered /\ mail[s].state # "closed" /\ route[s].gen = 0

(* The slot is this session's or another's, its file cannot be created, an *)
(* offer of the session is pending, or its route is paired or gone.        *)
ArmRefused(s, b) ==
  /\ b.slot # NoSlot \/ b.lease[s] # 0 \/ ~Armable(s)
  /\ bk' = b /\ Ui(s, IF b.slot.session = s THEN "armed" ELSE "idle")
  /\ UNCHANGED <<route, mail, client, used>>

(* A file of the new offer cannot be written: the offer is taken back.     *)
ArmFails(s, b) ==
  /\ b.slot = NoSlot /\ b.lease[s] = 0 /\ Armable(s)
  /\ route' \in {route, [route EXCEPT ![s].verifier = 0]}
  /\ bk' = b /\ Ui(s, "idle") /\ UNCHANGED <<mail, client, used>>

ArmSucceeds(s, b) ==
  LET o == used.offers + 1
  IN  /\ b.slot = NoSlot /\ b.lease[s] = 0 /\ Armable(s)
      /\ o \in Offers /\ used' = [used EXCEPT !.offers = o]
      /\ route' = [route EXCEPT ![s].verifier = o]
      /\ bk' = [b EXCEPT !.lease[s] = o, !.at[o] = NewOffer(s),
                         !.slot = [session |-> s, status |-> "ready", offer |-> o, gone |-> FALSE]]
      /\ Ui(s, "armed") /\ UNCHANGED <<mail, client>>

(* arm_launcher_rendezvous, one hold of the broker's lock. *)
Arm(s) ==
  /\ runtime[s].ui = "arming"
  /\ \/ ArmRefused(s, ExpireSlot(bk)) \/ ArmFails(s, ExpireSlot(bk)) \/ ArmSucceeds(s, ExpireSlot(bk))

(* The runtime remembers the broker after the broker has answered. *)
Armed(s) ==
  /\ runtime[s].ui = "armed"
  /\ runtime' = [runtime EXCEPT ![s].ui = "idle", ![s].knows = TRUE]
  /\ UNCHANGED <<route, mail, bk, client, used>>

StartDisarm(s) ==
  /\ runtime[s].ui = "idle" /\ runtime[s].shut = "open" /\ runtime[s].knows
  /\ Ui(s, "disarming") /\ UNCHANGED <<route, mail, bk, client, used>>

(* disarm_launcher_rendezvous: the slot says so first. *)
DisarmSlot(s) ==
  /\ runtime[s].ui = "disarming"
  /\ IF bk.slot.session # s THEN bk' = bk /\ Ui(s, "idle")
     ELSE /\ bk' = [bk EXCEPT !.slot.status = "disarmed"]
          /\ runtime' = [runtime EXCEPT ![s].ui = "revoking", ![s].had = bk.lease[s] # 0]
  /\ UNCHANGED <<route, mail, client, used>>

(* Faulty variant: the registry's offer is left to expire. *)
DisarmOfferLater(s) ==
  /\ runtime[s].ui = "revoking" /\ Ui(s, "retiring")
  /\ UNCHANGED <<route, mail, bk, client, used>>

(* disarm_pairing_offer, without the broker's lock. *)
DisarmOffer(s) ==
  /\ runtime[s].ui = "revoking" /\ Ui(s, "retiring")
  /\ route' = IF route[s].gen = 0 THEN [route EXCEPT ![s].verifier = 0] ELSE route
  /\ UNCHANGED <<mail, bk, client, used>>

Retire(s) ==
  /\ runtime[s].ui = "retiring" /\ Ui(s, "idle")
  /\ bk' = IF runtime[s].had THEN CloseRoute(bk, s) ELSE FinishSlot(bk, s)
  /\ used' = [used EXCEPT !.revoked = @ \cup {o \in Offers : Session(o) = s}]
  /\ UNCHANGED <<route, mail, client>>

(* launcher_rendezvous_status *)
PollStatus(s) ==
  /\ runtime[s].shut = "open" /\ runtime[s].knows /\ bk.slot.session = s /\ SlotExpired(bk)
  /\ bk' = ExpireSlot(bk) /\ UNCHANGED <<runtime, route, mail, client, used>>

(* close: the mailbox first, then the route, then the broker if it was     *)
(* known when the gate was held.                                           *)
CloseGate(s) ==
  /\ runtime[s].shut = "open"
  /\ runtime' = [runtime EXCEPT ![s].shut = IF runtime[s].knows THEN "closing" ELSE "unknown"]
  /\ mail' = [mail EXCEPT ![s].state = "closed"]
  /\ UNCHANGED <<route, bk, client, used>>

Forget(s) == route' = [route EXCEPT ![s].registered = FALSE, ![s].verifier = 0]

Unregister(s) ==
  /\ runtime[s].shut \in {"closing", "unknown"} /\ Forget(s)
  /\ runtime' = [runtime EXCEPT ![s].shut = IF @ = "closing" THEN "unregistered" ELSE "closed"]
  /\ UNCHANGED <<mail, bk, client, used>>

CloseTransport(s) ==
  /\ runtime[s].shut = "unregistered" /\ bk' = CloseRoute(bk, s)
  /\ runtime' = [runtime EXCEPT ![s].shut = "closed"]
  /\ UNCHANGED <<route, mail, client, used>>

(* The session answers a request, or lets it expire. *)
Outcome(s) ==
  /\ mail[s].state = "busy" /\ mail' = [mail EXCEPT ![s].state = "ready"]
  /\ UNCHANGED <<runtime, route, bk, client, used>>

-----------------------------------------------------------------------------
(* The endpoint's thread. *)

Goto(o, step) == bk' = [bk EXCEPT !.at[o].pc = step]
Quit(o, outcome) == bk' = [bk EXCEPT !.at[o] = [@ EXCEPT !.pc = "ending", !.end = outcome]]
Disconnected(a, step) == [a EXCEPT !.pc = step, !.peer = 0, !.gone = FALSE]
Ended(a) == [NoOffer EXCEPT !.session = a.session, !.pc = "ended", !.pair = a.pair, !.end = a.end]
Closed(a) == [Disconnected(a, "ending") EXCEPT !.end = "closed"]

(* The client of a pipe that is disconnected is as good as gone. *)
Hangup(o) == client' = [c \in Clients |-> IF At(o).peer = c /\ ~At(o).gone THEN Away ELSE client[c]]

(* The next turn of the loop: the stop event is looked at first. *)
Disconnect(o) ==
  /\ Hangup(o)
  /\ bk' = [bk EXCEPT !.at[o] = IF At(o).stop THEN Closed(@) ELSE Disconnected(@, "listen")]

(* ConnectNamedPipe returns: a client, one that has left, or the wake-up.  *)
Accept(o) ==
  /\ At(o).pc = "listen" /\ (At(o).peer # 0 \/ At(o).wake)
  /\ IF At(o).gone \/ At(o).stop THEN Disconnect(o)
     ELSE Goto(o, "claim") /\ UNCHANGED client
  /\ UNCHANGED <<runtime, route, mail, used>>

(* No claim: the client left or took too long, or the endpoint is stopped. *)
NoClaim(o) ==
  /\ At(o).pc = "claim" /\ Disconnect(o)
  /\ UNCHANGED <<runtime, route, mail, used>>

Claimable(o) ==
  /\ route[Session(o)].registered /\ mail[Session(o)].state # "closed"
  /\ route[Session(o)].gen = 0 /\ route[Session(o)].verifier = o /\ ~At(o).late

(* claim_pairing: the capability is used up and a generation begins. *)
ClaimGranted(o) ==
  LET s == Session(o)
  IN  /\ Claimable(o)
      /\ route' = [route EXCEPT ![s].verifier = 0, ![s].next = @ + 1, ![s].gen = route[s].next + 1]
      /\ bk' = [bk EXCEPT !.at[o] = [@ EXCEPT !.pc = "marking", !.pair = route[s].next + 1]]

(* A claim that reaches the registry clears a closed or an expired route.  *)
Cleared(s) ==
  LET v == route[s].verifier
  IN  IF mail[s].state = "closed" THEN [route EXCEPT ![s].registered = FALSE]
      ELSE IF route[s].gen = 0 /\ v # 0 /\ At(v).late
      THEN [route EXCEPT ![s].verifier = 0] ELSE route

(* A bad, late or repeated claim; a bad one need not reach the registry.   *)
ClaimRefused(o, good) ==
  /\ ~good \/ ~Claimable(o)
  /\ Goto(o, "refusing")
  /\ route' \in {Cleared(Session(o))} \cup (IF good THEN {} ELSE {route})

ReadClaim(o, good) ==
  /\ At(o).pc = "claim" /\ At(o).peer # 0 /\ ~At(o).gone
  /\ \/ good /\ ClaimGranted(o)
     \/ ClaimRefused(o, good)
  /\ UNCHANGED <<runtime, mail, client, used>>

(* The refusal is written, and read or not, the pipe is disconnected; to a *)
(* client that has left it cannot be written, and that ends the thread.    *)
Refuse(o) ==
  /\ At(o).pc = "refusing"
  /\ IF At(o).gone THEN Quit(o, "transport_error") /\ UNCHANGED client
     ELSE Disconnect(o)
  /\ UNCHANGED <<runtime, route, mail, used>>

Quitting(o) == bk' = [bk EXCEPT !.at[o].pc = "draining"]

(* _mark_claimed; without the lease the pairing is given back. *)
Mark(o) ==
  LET s == Session(o)
      mine == bk.slot.session = s
      marked == [bk EXCEPT !.at[o] = [@ EXCEPT !.claimed = TRUE, !.desc = FALSE, !.pc = "replying"]]
  IN  /\ At(o).pc = "marking"
      /\ IF bk.lease[s] # o THEN Quitting(o)
         ELSE bk' = IF mine THEN [marked EXCEPT !.slot.status = "claimed"] ELSE marked
      /\ UNCHANGED <<runtime, route, mail, client, used>>

Reply(o) ==
  /\ At(o).pc = "replying"
  /\ IF At(o).gone THEN Quitting(o) /\ UNCHANGED client
     ELSE Goto(o, "serving") /\ client' = [client EXCEPT ![At(o).peer].at = "paired"]
  /\ UNCHANGED <<runtime, route, mail, used>>

(* _serve_paired_route ends: the client left, or the endpoint is stopped.  *)
StopServing(o) ==
  /\ At(o).pc = "serving" /\ (At(o).gone \/ At(o).stop) /\ Quitting(o)
  /\ UNCHANGED <<runtime, route, mail, client, used>>

(* The pairing's generation is still the route's. *)
Owns(o) ==
  At(o).pair # 0 /\ route[Session(o)].registered /\ route[Session(o)].gen = At(o).pair

(* _drain_and_release, one attempt; without an accepted request only one.  *)
Drain(o) ==
  LET s == Session(o)
      free == mail[s].state = "idle" \/ (At(o).out /\ mail[s].state = "ready")
  IN  /\ At(o).pc = "draining"
      /\ \/ ~Owns(o) /\ Quit(o, "released") /\ UNCHANGED <<route, mail>>
         \/ /\ Owns(o) /\ mail[s].state = "closed" /\ Quit(o, "session_unavailable")
            /\ Forget(s) /\ UNCHANGED mail
         \/ /\ Owns(o) /\ free /\ Quit(o, "released")
            /\ route' = [route EXCEPT ![s].gen = 0]
            /\ mail' = [mail EXCEPT ![s] = [state |-> "idle", gen |-> 0]]
         \/ /\ Owns(o) /\ ~free /\ mail[s].state # "closed" /\ ~At(o).out
            /\ Quit(o, "stuck_in_flight") /\ UNCHANGED <<route, mail>>
      /\ UNCHANGED <<runtime, client, used>>

(* Faulty variant: after the deadline the route is released as it is. *)
DrainReleases(o) ==
  /\ At(o).pc = "draining" /\ Owns(o) /\ At(o).out /\ mail[Session(o)].state \in {"busy", "ready"}
  /\ Quit(o, "released") /\ route' = [route EXCEPT ![Session(o)].gen = 0]
  /\ UNCHANGED <<runtime, mail, client, used>>

(* The caretaker's deadline passes with the request still in flight.       *)
DrainGivesUp(o) ==
  /\ At(o).pc = "draining" /\ Owns(o) /\ At(o).out /\ mail[Session(o)].state \in {"busy", "ready"}
  /\ Quit(o, "stuck_in_flight") /\ UNCHANGED <<runtime, route, mail, client, used>>

(* The pipe is closed; _endpoint_finished. *)
Finish(o) ==
  LET s == Session(o)
      over == [bk EXCEPT !.at[o] = Ended(@)]
  IN  /\ At(o).pc = "ending"
      /\ bk' = IF bk.lease[s] # o \/ At(o).end = "stuck_in_flight" THEN over
               ELSE FinishSlot(DropLease(over, s), s)
      /\ Hangup(o) /\ UNCHANGED <<runtime, route, mail, used>>

Thread(o) ==
  \/ Accept(o) \/ NoClaim(o) \/ Refuse(o) \/ Mark(o) \/ Reply(o)
  \/ StopServing(o) \/ Drain(o) \/ DrainGivesUp(o) \/ Finish(o)

-----------------------------------------------------------------------------
(* Time. *)

(* The deadline of the offer passes, the registry's and the lease's. *)
Late(o) ==
  /\ At(o).desc /\ ~At(o).late /\ bk' = [bk EXCEPT !.at[o].late = TRUE]
  /\ UNCHANGED <<runtime, route, mail, client, used>>

(* _expire_lease, run by the lease's timer. *)
Expire(o) ==
  LET s == Session(o)
  IN  /\ At(o).desc /\ At(o).late
      /\ bk' = FinishSlot(Dropped(bk, s), s)
      /\ UNCHANGED <<runtime, route, mail, client, used>>

-----------------------------------------------------------------------------
(* The launcher and its gateway, in a process of their own. *)

Step(c, at, o) == client' = [client EXCEPT ![c] = [at |-> at, offer |-> o]]

(* read_local_launcher_rendezvous, with the descriptor of a ready record.  *)
Launch(c) ==
  LET f == bk.slot
  IN  /\ client[c] = Away /\ ~f.gone
      /\ \/ f.status = "ready" /\ ~bk.at[f.offer].late /\ bk.at[f.offer].desc /\ Step(c, "knows", f.offer)
         \/ f.status = "ready" /\ bk.at[f.offer].late /\ Step(c, "removing", 0)
         \/ f.status = "disarmed" /\ Step(c, "removing", 0)
      /\ UNCHANGED <<runtime, route, mail, bk, used>>

(* The record it saw was expired or disarmed: whatever is there now goes.  *)
RemoveRecord(c) ==
  /\ client[c].at = "removing" /\ Step(c, "away", 0)
  /\ bk' = [bk EXCEPT !.slot.gone = TRUE]
  /\ UNCHANGED <<runtime, route, mail, used>>

OpenPipe(c) ==
  LET o == client[c].offer
  IN  /\ client[c].at = "knows"
      /\ At(o).pc = "listen" /\ At(o).peer = 0
      /\ bk' = [bk EXCEPT !.at[o].peer = c]
      /\ Step(c, "connected", o) /\ UNCHANGED <<runtime, route, mail, used>>

(* The client closes its end, gives up or crashes. *)
Leave(c) ==
  LET o == client[c].offer
  IN  /\ client[c].at \in {"knows", "connected", "paired"}
      /\ Step(c, "away", 0)
      /\ bk' = IF client[c].at # "knows" /\ At(o).peer = c
               THEN [bk EXCEPT !.at[o].gone = TRUE] ELSE bk
      /\ UNCHANGED <<runtime, route, mail, used>>

(* An exchange with the endpoint that serves this client. *)
Served(c, o) ==
  /\ client[c].at = "paired" /\ client[c].offer = o /\ At(o).pc = "serving" /\ At(o).peer = c

Submit(c) ==
  LET o == client[c].offer
  IN  /\ Served(c, o) /\ Owns(o) /\ mail[Session(o)].state = "idle"
      /\ mail' = [mail EXCEPT ![Session(o)] = [state |-> "busy", gen |-> At(o).pair]]
      /\ bk' = [bk EXCEPT !.at[o].out = TRUE]
      /\ UNCHANGED <<runtime, route, client, used>>

Consume(c) ==
  LET o == client[c].offer
  IN  /\ Served(c, o) /\ Owns(o) /\ mail[Session(o)].state = "ready"
      /\ mail' = [mail EXCEPT ![Session(o)] = [state |-> "idle", gen |-> 0]]
      /\ UNCHANGED <<runtime, route, bk, client, used>>

(* A closed mailbox takes its route along. *)
FindClosed(c) ==
  LET o == client[c].offer
  IN  /\ Served(c, o) /\ Owns(o) /\ mail[Session(o)].state = "closed" /\ Forget(Session(o))
      /\ UNCHANGED <<runtime, mail, bk, client, used>>

(* release; a busy mailbox answers in_flight, and the gateway leaves.      *)
Release(c) ==
  LET o == client[c].offer
  IN  /\ Served(c, o) /\ Owns(o) /\ mail[Session(o)].state = "idle"
      /\ route' = [route EXCEPT ![Session(o)].gen = 0]
      /\ bk' = [bk EXCEPT !.at[o] = [@ EXCEPT !.pc = "ending", !.end = "released", !.gone = TRUE]]
      /\ Step(c, "away", 0) /\ UNCHANGED <<runtime, mail, used>>

-----------------------------------------------------------------------------
Call(s) ==
  \/ Arm(s) \/ Armed(s) \/ DisarmSlot(s) \/ DisarmOffer(s) \/ Retire(s)
  \/ Unregister(s) \/ CloseTransport(s)

Next ==
  \/ \E s \in Sessions : Call(s) \/ StartArm(s) \/ StartDisarm(s) \/ PollStatus(s) \/ CloseGate(s)
                         \/ Outcome(s)
  \/ \E o \in Offers : Thread(o) \/ Late(o) \/ Expire(o) \/ (\E good \in BOOLEAN : ReadClaim(o, good))
  \/ \E c \in Clients : Launch(c) \/ RemoveRecord(c) \/ OpenPipe(c) \/ Leave(c) \/ Submit(c)
                        \/ Consume(c) \/ FindClosed(c) \/ Release(c)

Spec == Init /\ [][Next]_vars

(* Threads and timers of this process go on, and time passes; nothing is   *)
(* asked of clients, of users or of the session's answers.                 *)
FairSpec ==
  /\ Spec
  /\ \A s \in Sessions : WF_vars(Call(s))
  /\ \A o \in Offers : WF_vars(Thread(o)) /\ WF_vars(Late(o)) /\ WF_vars(Expire(o))

-----------------------------------------------------------------------------
(* Properties. *)

(* What is in a mailbox belongs to the client that is paired now: no later *)
(* client inherits a request or its reply, however the earlier one ended   *)
(* (docs/architecture/mcp-local-named-pipe-transport.md, "Disconnect and   *)
(* route ownership").                                                      *)
RepliesStayPaired ==
  \A s \in Sessions : mail[s].state \in {"busy", "ready"} => mail[s].gen = route[s].gen

(* Nothing outlives its lease: an offer off the table has no descriptor    *)
(* and no timer and its endpoint is ending, one on the table has a live    *)
(* endpoint or is stuck, and the slot is the leased offer's with its file. *)
LeasesAreSound ==
  /\ \A o \in Offers :
       LET a == At(o)  leased == a.session # 0 /\ bk.lease[a.session] = o
       IN  /\ a.desc => leased /\ ~a.claimed
           /\ leased => a.pc # "ended" \/ a.end = "stuck_in_flight"
           /\ a.session # 0 /\ ~leased => a.stop \/ a.pc = "ended"
  /\ bk.slot.status \in {"ready", "claimed"} => bk.lease[bk.slot.session] = bk.slot.offer

(* Once a disarm has returned, no offer made before it can be claimed:     *)
(* however far its client had come.                                        *)
DisarmedIsRevoked ==
  [][\A o \in used.revoked : At(o).pc = "claim" => bk'.at[o].pc # "marking"]_vars

(* A stopped endpoint ends, and so does one whose client has left; then    *)
(* the route is free for a new offer, or known to be stuck.  The launcher  *)
(* slot of the logon is not kept for ever either: but for a client that    *)
(* stays connected and a request that is stuck, it gets free.              *)
EndpointEnds ==
  \A o \in Offers :
    At(o).stop \/ (At(o).pair # 0 /\ At(o).gone) ~>
      At(o).pc = "ended" /\ (~Owns(o) \/ At(o).end = "stuck_in_flight")
SlotIsFreed ==
  []<>(\/ bk.slot.session = 0
       \/ \E c \in Clients : client[c] = [at |-> "paired", offer |-> bk.slot.offer]
       \/ At(bk.slot.offer).end = "stuck_in_flight")
NothingIsLeftBehind == EndpointEnds /\ SlotIsFreed
=============================================================================
