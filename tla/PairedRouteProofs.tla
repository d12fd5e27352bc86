-------------------------- MODULE PairedRouteProofs --------------------------
(***************************************************************************)
(* Safety of the pairing for every number of sessions, clients and offers: *)
(* what is in a mailbox is the paired client's, nothing of an offer        *)
(* outlives its lease, and a disarmed offer can no longer be claimed.      *)
(***************************************************************************)
EXTENDS PairedRoute, TLAPS

Endpoint == [session : Sessions \cup {0}, late : BOOLEAN,
             pc : {"unused", "listen", "claim", "marking", "refusing", "replying", "serving",
                   "draining", "ending", "ended"},
             stop : BOOLEAN, wake : BOOLEAN, peer : Clients \cup {0}, gone : BOOLEAN,
             claimed : BOOLEAN, desc : BOOLEAN, pair : Nat, out : BOOLEAN,
             end : {"none", "closed", "transport_error", "released", "session_unavailable",
                    "stuck_in_flight"}]
Slot == [session : Sessions \cup {0}, status : {"none", "ready", "claimed", "disarmed"},
         offer : Offers \cup {0}, gone : BOOLEAN]
Broker == [lease : [Sessions -> Offers \cup {0}], slot : Slot, at : [Offers -> Endpoint]]
Route == [registered : BOOLEAN, verifier : Offers \cup {0}, gen : Nat, next : Nat]
Mail == [state : {"idle", "busy", "ready", "closed"}, gen : Nat]
Runtime == [ui : {"idle", "arming", "armed", "disarming", "revoking", "retiring"},
            had : BOOLEAN, shut : {"open", "closing", "unknown", "unregistered", "closed"},
            knows : BOOLEAN]
Connection == [at : {"away", "knows", "removing", "connected", "paired"},
               offer : Offers \cup {0}]

TypeOK ==
  /\ runtime \in [Sessions -> Runtime] /\ route \in [Sessions -> Route]
  /\ mail \in [Sessions -> Mail] /\ bk \in Broker /\ client \in [Clients -> Connection]
  /\ used \in [offers : 0..MaxOffers, revoked : SUBSET Offers]

(* The table of the broker: a lease is its session's own offer; only a     *)
(* leased, unclaimed offer has a descriptor; a leased one has its endpoint *)
(* or is stuck; one no longer leased is ending; and while there is a slot, *)
(* its session has the slot's offer as its lease.                          *)
Table(b) ==
  /\ \A s \in Sessions : b.lease[s] # 0 => b.at[b.lease[s]].session = s
  /\ \A o \in Offers :
       LET a == b.at[o]
       IN  /\ a.desc => a.session # 0 /\ b.lease[a.session] = o /\ ~a.claimed
           /\ a.session # 0 /\ b.lease[a.session] = o => a.pc # "ended" \/ a.end = "stuck_in_flight"
           /\ a.session # 0 /\ b.lease[a.session] # o => a.stop \/ a.pc = "ended"
           /\ a.session = 0 => a.pc = "unused" /\ a.peer = 0
  /\ b.slot.session # 0 => b.slot.offer # 0 /\ b.lease[b.slot.session] = b.slot.offer
  /\ b.slot.session = 0 => b.slot.status = "none"

(* Offers get their session in the order in which they are made. *)
Made == \A o \in Offers : o <= used.offers <=> Session(o) # 0

(* A pipe has its own client at the other end, and a client its offer.     *)
Pipes ==
  /\ \A o \in Offers : At(o).peer # 0 /\ ~At(o).gone =>
       client[At(o).peer].offer = o /\ client[At(o).peer].at \in {"connected", "paired"}
  /\ \A c \in Clients : client[c].at \in {"knows", "connected", "paired"} => client[c].offer # 0

(* A route is on offer or paired, never both; what is in the mailbox came  *)
(* from the pairing of now; and between disarm and retirement there is no  *)
(* offer.                                                                  *)
Paired ==
  \A s \in Sessions :
    /\ mail[s].state \in {"busy", "ready"} => mail[s].gen = route[s].gen /\ route[s].gen # 0
    /\ route[s].gen # 0 => route[s].verifier = 0
    /\ route[s].verifier # 0 => Session(route[s].verifier) = s
    /\ runtime[s].ui = "retiring" => route[s].verifier = 0

(* A revoked offer is the verifier of no route. *)
Revoked == \A o \in used.revoked : Session(o) # 0 /\ route[Session(o)].verifier # o

IInv == TypeOK /\ Table(bk) /\ Made /\ Pipes /\ Paired /\ Revoked

-----------------------------------------------------------------------------
(* The broker's own operations. *)

(* A well-formed table. *)
IsTable(b) == b \in Broker /\ Table(b)

(* From b to n offers keep their session and step, and none is picked up.  *)
Keeps(b, n) ==
  /\ \A o \in Offers : /\ n.at[o].session = b.at[o].session /\ n.at[o].pc = b.at[o].pc
                       /\ n.at[o].peer = b.at[o].peer /\ n.at[o].gone = b.at[o].gone

(* Offers are numbered from 1. *)
LEMMA OffersLemma == \A o \in Offers : o \in Nat /\ o # 0
BY PairingAssumption DEF Offers

(* No offer and no slot are of their types. *)
LEMMA NoneMade == NoOffer \in Endpoint /\ NoSlot \in Slot
BY DEF NoOffer, NoSlot, Endpoint, Slot

(* The slot of a session that has no lease any more can be given up, and   *)
(* that of any session in any case.                                        *)
LEMMA FinishSlotLemma ==
  ASSUME NEW b, IsTable(b), NEW s \in Sessions
  PROVE  IsTable(FinishSlot(b, s)) /\ Keeps(b, FinishSlot(b, s)) /\ FinishSlot(b, s).slot.session # s
<1>1. s # 0
  BY PairingAssumption
<1>2. CASE b.slot.session # s
  BY <1>2 DEF FinishSlot, Keeps
<1>3. CASE b.slot.session = s
  <2> DEFINE n == [b EXCEPT !.slot = NoSlot]
  <2>1. n \in Broker /\ n.slot = NoSlot /\ n.lease = b.lease /\ n.at = b.at
    BY NoneMade DEF IsTable, Broker
  <2>2. Table(n)
    BY <2>1 DEF IsTable, Table, NoSlot
  <2> QED BY <1>1, <1>3, <2>1, <2>2 DEF FinishSlot, Keeps, IsTable, NoSlot
<1> QED BY <1>2, <1>3

(* Fields of an endpoint keep their types. *)
LEMMA FieldsLemma ==
  ASSUME NEW a \in Endpoint, NEW x \in BOOLEAN
  PROVE  /\ [a EXCEPT !.desc = FALSE] \in Endpoint
         /\ [a EXCEPT !.stop = TRUE, !.wake = x] \in Endpoint
         /\ LET n == [a EXCEPT !.stop = TRUE, !.wake = x]
            IN  /\ n.session = a.session /\ n.pc = a.pc /\ n.desc = a.desc /\ n.end = a.end
                /\ n.peer = a.peer /\ n.gone = a.gone /\ n.stop /\ n.claimed = a.claimed
         /\ LET n == [a EXCEPT !.desc = FALSE]
            IN  /\ n.session = a.session /\ n.pc = a.pc /\ ~n.desc /\ n.end = a.end
                /\ n.peer = a.peer /\ n.gone = a.gone /\ n.stop = a.stop /\ n.claimed = a.claimed
<1>1. [a EXCEPT !.desc = FALSE] \in Endpoint
  BY DEF Endpoint
<1>2. [a EXCEPT !.stop = TRUE] \in Endpoint
  BY DEF Endpoint
<1>3. [a EXCEPT !.stop = TRUE, !.wake = x] \in Endpoint
  BY <1>2 DEF Endpoint
<1> QED BY <1>1, <1>3 DEF Endpoint

(* An endpoint is replaced and nothing else of the broker. *)
LEMMA AtLemma ==
  ASSUME NEW b \in Broker, NEW o \in Offers, NEW a \in Endpoint
  PROVE  LET n == [b EXCEPT !.at[o] = a]
         IN  /\ n \in Broker /\ n.lease = b.lease /\ n.slot = b.slot
             /\ n.at[o] = a /\ \A p \in Offers : p # o => n.at[p] = b.at[p]
BY DEF Broker

(* Stopping an endpoint changes nothing else of the broker. *)
LEMMA StopLemma ==
  ASSUME NEW b \in Broker, NEW o \in Offers
  PROVE  LET n == Stop(b, o)
         IN  /\ n \in Broker /\ n.lease = b.lease /\ n.slot = b.slot
             /\ \A p \in Offers : p # o => n.at[p] = b.at[p]
             /\ n.at[o] = [b.at[o] EXCEPT !.stop = TRUE, !.wake = b.at[o].pc = "listen"]
<1> DEFINE a == [b.at[o] EXCEPT !.stop = TRUE, !.wake = b.at[o].pc = "listen"]
<1>1. a \in Endpoint
  BY FieldsLemma DEF Broker
<1>2. Stop(b, o) = [b EXCEPT !.at[o] = a]
  BY DEF Stop
<1> HIDE DEF a
<1>3. LET n == [b EXCEPT !.at[o] = a]
      IN  /\ n \in Broker /\ n.lease = b.lease /\ n.slot = b.slot
          /\ n.at[o] = a /\ \A p \in Offers : p # o => n.at[p] = b.at[p]
  BY <1>1, AtLemma
<1> QED BY <1>2, <1>3 DEF a

(* A dropped lease takes the descriptor of its offer along. *)
LEMMA DropLeaseLemma ==
  ASSUME NEW b \in Broker, NEW s \in Sessions, b.lease[s] \in Offers
  PROVE  LET d == DropLease(b, s)
         IN  /\ d \in Broker /\ d.slot = b.slot /\ d.lease = [b.lease EXCEPT ![s] = 0]
             /\ \A p \in Offers : p # b.lease[s] => d.at[p] = b.at[p]
             /\ d.at[b.lease[s]] = [b.at[b.lease[s]] EXCEPT !.desc = FALSE]
<1> DEFINE o == b.lease[s]
           a == [b.at[o] EXCEPT !.desc = FALSE]
           m == [b EXCEPT !.lease[s] = 0]
           n == [m EXCEPT !.at[o] = a]
<1>1. a \in Endpoint /\ o \in Offers
  BY FieldsLemma DEF Broker
<1>2. m \in Broker /\ m.slot = b.slot /\ m.lease = [b.lease EXCEPT ![s] = 0] /\ m.at = b.at
  BY DEF Broker
<1>3. DropLease(b, s) = [m EXCEPT !.at[o] = [m.at[o] EXCEPT !.desc = FALSE]]
  BY DEF DropLease
<1>4. DropLease(b, s) = n
  BY <1>2, <1>3
<1> HIDE DEF a, m
<1>5. /\ n \in Broker /\ n.lease = m.lease /\ n.slot = m.slot
      /\ n.at[o] = a /\ \A p \in Offers : p # o => n.at[p] = m.at[p]
  BY <1>1, <1>2, AtLemma
<1> QED BY <1>2, <1>4, <1>5 DEF a

(* A lease is dropped together with the slot: what _expire_lease and       *)
(* close_session_route do.                                                 *)
LEMMA DroppedLemma ==
  ASSUME NEW b, IsTable(b), NEW s \in Sessions, b.lease[s] # 0
  PROVE  LET n == FinishSlot(Dropped(b, s), s)
         IN  IsTable(n) /\ Keeps(b, n) /\ n.slot.session # s /\ n.lease[s] = 0
<1> DEFINE o == b.lease[s]
           d == DropLease(b, s)
           e == Stop(d, o)
           n == FinishSlot(e, s)
<1>1. s # 0 /\ o \in Offers /\ b.at[o].session = s /\ b.at[o] \in Endpoint
  BY PairingAssumption DEF IsTable, Table, Broker
<1>2. /\ d \in Broker /\ d.slot = b.slot /\ d.lease = [b.lease EXCEPT ![s] = 0]
      /\ \A p \in Offers : p # o => d.at[p] = b.at[p]
      /\ d.at[o] = [b.at[o] EXCEPT !.desc = FALSE]
  BY <1>1, DropLeaseLemma DEF IsTable
<1> HIDE DEF d
<1>3. /\ e \in Broker /\ e.slot = d.slot /\ e.lease = d.lease
      /\ \A p \in Offers : p # o => e.at[p] = d.at[p]
      /\ e.at[o] = [d.at[o] EXCEPT !.stop = TRUE, !.wake = d.at[o].pc = "listen"]
  BY <1>1, <1>2, StopLemma, ZenonT(40)
<1> HIDE DEF e
<1>4. /\ e.at[o].session = s /\ e.at[o].pc = b.at[o].pc /\ e.at[o].desc = FALSE
      /\ e.at[o].stop /\ e.at[o].end = b.at[o].end
      /\ e.at[o].peer = b.at[o].peer /\ e.at[o].gone = b.at[o].gone
  BY <1>1, <1>2, <1>3 DEF Endpoint
<1>5. /\ n.lease = e.lease /\ n.at = e.at /\ n \in Broker
      /\ n.slot = IF b.slot.session = s THEN NoSlot ELSE b.slot
  BY <1>2, <1>3, NoneMade DEF FinishSlot, Broker
<1> HIDE DEF n
<1>6. \A p \in Offers : p # o => n.at[p] = b.at[p]
  BY <1>2, <1>3, <1>5
<1>7. n.lease[s] = 0 /\ \A q \in Sessions : q # s => n.lease[q] = b.lease[q]
  BY <1>2, <1>3, <1>5 DEF IsTable, Broker
<1>8. \A p \in Offers : b.at[p].session \in Sessions \cup {0}
  BY DEF IsTable, Broker, Endpoint
<1>9. n.slot.session # s /\ (n.slot.session = 0 => n.slot.status = "none")
  BY <1>1, <1>5 DEF IsTable, Table, NoSlot
<1>10. b.slot.session \in Sessions \cup {0}
  BY DEF IsTable, Broker, Slot
<1>11. n.slot.session # 0 => n.slot.offer # 0 /\ n.lease[n.slot.session] = n.slot.offer
  BY <1>1, <1>5, <1>7, <1>10 DEF IsTable, Table, NoSlot
<1>12. \A q \in Sessions : n.lease[q] # 0 => n.at[n.lease[q]].session = q
  <2> SUFFICES ASSUME NEW q \in Sessions, n.lease[q] # 0 PROVE n.at[n.lease[q]].session = q
    OBVIOUS
  <2>1. q # s /\ n.lease[q] = b.lease[q] /\ b.at[b.lease[q]].session = q /\ b.lease[q] \in Offers
    BY <1>7 DEF IsTable, Table, Broker
  <2> QED BY <1>1, <1>6, <2>1
<1>13. \A p \in Offers :
         LET f == n.at[p]
         IN  /\ f.desc => f.session # 0 /\ n.lease[f.session] = p /\ ~f.claimed
             /\ f.session # 0 /\ n.lease[f.session] = p => f.pc # "ended" \/ f.end = "stuck_in_flight"
             /\ f.session # 0 /\ n.lease[f.session] # p => f.stop \/ f.pc = "ended"
             /\ f.session = 0 => f.pc = "unused" /\ f.peer = 0
  <2> SUFFICES ASSUME NEW p \in Offers
      PROVE LET f == n.at[p]
            IN  /\ f.desc => f.session # 0 /\ n.lease[f.session] = p /\ ~f.claimed
                /\ f.session # 0 /\ n.lease[f.session] = p => f.pc # "ended" \/ f.end = "stuck_in_flight"
                /\ f.session # 0 /\ n.lease[f.session] # p => f.stop \/ f.pc = "ended"
                /\ f.session = 0 => f.pc = "unused" /\ f.peer = 0
    OBVIOUS
  <2>1. CASE p = o
    BY <1>1, <1>4, <1>5, <1>7, <2>1
  <2>2. CASE p # o
    <3>1. n.at[p] = b.at[p] /\ p # 0
      BY <1>6, <2>2 DEF Offers
    <3>2. b.at[p].session = s => b.lease[s] # p
      BY <2>2
    <3>3. b.at[p].session # 0 /\ b.at[p].session # s => n.lease[b.at[p].session] = b.lease[b.at[p].session]
      BY <1>7, <1>8
    <3> QED BY <1>1, <1>7, <2>2, <3>1, <3>2, <3>3 DEF IsTable, Table
  <2> QED BY <2>1, <2>2
<1>14. Table(n)
  BY <1>9, <1>11, <1>12, <1>13 DEF Table
<1>15. Keeps(b, n)
  BY <1>1, <1>4, <1>5, <1>6 DEF Keeps
<1> QED BY <1>5, <1>7, <1>9, <1>14, <1>15 DEF IsTable, Dropped, n, e, d

(* close_session_route keeps the table sound. *)
LEMMA CloseRouteLemma ==
  ASSUME NEW b, IsTable(b), NEW s \in Sessions
  PROVE  IsTable(CloseRoute(b, s)) /\ Keeps(b, CloseRoute(b, s))
BY FinishSlotLemma, DroppedLemma DEF CloseRoute

(* So does the expiry of a launcher slot. *)
LEMMA ExpireSlotLemma ==
  ASSUME NEW b, IsTable(b)
  PROVE  IsTable(ExpireSlot(b)) /\ Keeps(b, ExpireSlot(b))
<1>1. CASE ~SlotExpired(b)
  BY <1>1 DEF ExpireSlot, Keeps
<1>2. CASE SlotExpired(b)
  <2>1. b.slot.session \in Sessions
    BY <1>2 DEF SlotExpired, IsTable, Table, NoSlot, Broker, Slot
  <2> QED BY <1>2, <2>1, FinishSlotLemma, DroppedLemma DEF ExpireSlot
<1> QED BY <1>1, <1>2

(* One endpoint goes on with its work.  It keeps its session, its          *)
(* descriptor goes when it is claimed, and it is neither stopped nor ended *)
(* by itself.                                                              *)
LEMMA EndpointLemma ==
  ASSUME NEW b, IsTable(b), NEW o \in Offers, NEW a \in Endpoint, b.at[o].session # 0,
         a.session = b.at[o].session, a.stop = b.at[o].stop,
         a.desc => b.at[o].desc /\ (a.claimed = b.at[o].claimed),
         a.pc # "ended", b.at[o].pc # "ended"
  PROVE  IsTable([b EXCEPT !.at[o] = a])
<1> DEFINE n == [b EXCEPT !.at[o] = a]
<1>1. /\ n \in Broker /\ n.lease = b.lease /\ n.slot = b.slot
      /\ n.at[o] = a /\ \A p \in Offers : p # o => n.at[p] = b.at[p]
  BY AtLemma DEF IsTable
<1> HIDE DEF n
<1>2. \A p \in Offers : p # o =>
        LET e == n.at[p]
        IN  /\ e.desc => e.session # 0 /\ n.lease[e.session] = p /\ ~e.claimed
            /\ e.session # 0 /\ n.lease[e.session] = p => e.pc # "ended" \/ e.end = "stuck_in_flight"
            /\ e.session # 0 /\ n.lease[e.session] # p => e.stop \/ e.pc = "ended"
            /\ e.session = 0 => e.pc = "unused" /\ e.peer = 0
  BY <1>1 DEF IsTable, Table
<1>3. /\ a.desc => a.session # 0 /\ n.lease[a.session] = o /\ ~a.claimed
      /\ a.session # 0 /\ n.lease[a.session] # o => a.stop \/ a.pc = "ended"
  BY <1>1 DEF IsTable, Table
<1>4. \A s \in Sessions : n.lease[s] # 0 => n.at[n.lease[s]].session = s
  <2> SUFFICES ASSUME NEW s \in Sessions, n.lease[s] # 0 PROVE n.at[n.lease[s]].session = s
    OBVIOUS
  <2>1. b.lease[s] \in Offers /\ b.at[b.lease[s]].session = s
    BY <1>1 DEF IsTable, Table, Broker
  <2> QED BY <1>1, <2>1
<1>5. Table(n)
  BY <1>1, <1>2, <1>3, <1>4 DEF IsTable, Table
<1> QED BY <1>1, <1>5 DEF IsTable, n

-----------------------------------------------------------------------------
(* What a step leaves alone. *)

(* No route gets an offer or a generation, no mailbox a request. *)
Calm ==
  /\ used' = used /\ \A o \in Offers : bk'.at[o].session = bk.at[o].session
  /\ route' \in [Sessions -> Route]
  /\ \A s \in Sessions : route'[s].gen = route[s].gen /\ route'[s].verifier \in {0, route[s].verifier}
  /\ mail' \in [Sessions -> Mail]
  /\ \A s \in Sessions : mail'[s].state \in {"busy", "ready"} =>
       mail[s].state \in {"busy", "ready"} /\ mail'[s].gen = mail[s].gen
  /\ runtime' \in [Sessions -> Runtime]
  /\ \A s \in Sessions : runtime'[s].ui = "retiring" =>
       runtime[s].ui = "retiring" \/ route'[s].verifier = 0

(* A calm step keeps the invariant when table and pipes stay sound. *)
LEMMA CalmLemma ==
  ASSUME IInv, Calm, IsTable(bk'), client' \in [Clients -> Connection], Pipes'
  PROVE  IInv'
<1>1. TypeOK' /\ Table(bk)'
  BY DEF IInv, TypeOK, Calm, IsTable
<1>2. Made'
  BY DEF IInv, Made, Calm, Session, At
<1>3. \A s \in Sessions : route[s].verifier \in Offers \cup {0}
  BY DEF IInv, TypeOK, Route
<1>4. Paired'
  BY <1>3 DEF IInv, Paired, Calm, Session, At
<1>5. \A o \in used.revoked : o \in Offers /\ Session(o) \in Sessions /\ o # 0
  BY OffersLemma DEF IInv, TypeOK, Revoked, Broker, Endpoint, Session, At
<1>6. Revoked'
  BY <1>5 DEF IInv, Revoked, Calm, Session, At
<1> QED BY <1>1, <1>2, <1>4, <1>6 DEF IInv

(* Nothing happens at either end of a pipe, but that it may be closed. *)
LEMMA PipesLemma ==
  ASSUME IInv, client' = client,
         \A o \in Offers : bk'.at[o].peer # 0 /\ ~bk'.at[o].gone =>
           bk'.at[o].peer = bk.at[o].peer /\ ~bk.at[o].gone
  PROVE  client' \in [Clients -> Connection] /\ Pipes'
BY DEF IInv, TypeOK, Pipes, At

(* Steps of a session that leave the broker's endpoints where they are. *)
LEMMA QuietLemma ==
  ASSUME IInv, Calm, IsTable(bk'), Keeps(bk, bk'), client' = client
  PROVE  IInv'
BY CalmLemma, PipesLemma DEF Keeps

(* Parts of the invariant, for the steps. *)
LEMMA Parts ==
  ASSUME IInv
  PROVE  /\ IsTable(bk) /\ Keeps(bk, bk)
         /\ \A o \in Offers : At(o) \in Endpoint /\ o # 0
                              /\ (At(o).pc # "unused" => Session(o) \in Sessions /\ Session(o) # 0)
         /\ \A s \in Sessions : route[s] \in Route /\ mail[s] \in Mail /\ runtime[s] \in Runtime
         /\ \A c \in Clients : client[c] \in Connection
<1>1. IsTable(bk) /\ Keeps(bk, bk)
  BY DEF IInv, TypeOK, IsTable, Keeps
<1>2. \A o \in Offers : At(o) \in Endpoint /\ o # 0
  BY OffersLemma DEF IInv, TypeOK, Broker, At
<1>3. \A o \in Offers : At(o).pc # "unused" => Session(o) \in Sessions /\ Session(o) # 0
  BY <1>2 DEF IInv, Table, At, Session, Endpoint
<1> QED BY <1>1, <1>2, <1>3 DEF IInv, TypeOK

-----------------------------------------------------------------------------
(* The session's calls. *)

(* The user turns the connection on: only the session notes it. *)
LEMMA StartArmLemma == ASSUME IInv, NEW s \in Sessions, StartArm(s) PROVE IInv'
<1>1. Calm
  BY Parts DEF IInv, TypeOK, StartArm, Ui, Calm, Runtime
<1> QED BY <1>1, Parts, QuietLemma DEF StartArm

(* The user turns it off: only the session notes it. *)
LEMMA StartDisarmLemma == ASSUME IInv, NEW s \in Sessions, StartDisarm(s) PROVE IInv'
<1>1. Calm
  BY Parts DEF IInv, TypeOK, StartDisarm, Ui, Calm, Runtime
<1> QED BY <1>1, Parts, QuietLemma DEF StartDisarm

(* The session remembers the broker. *)
LEMMA ArmedLemma == ASSUME IInv, NEW s \in Sessions, Armed(s) PROVE IInv'
<1>1. Calm
  BY Parts, ZenonT(40) DEF IInv, TypeOK, Armed, Calm, Runtime
<1> QED BY <1>1, Parts, QuietLemma DEF Armed

(* The broker answers that it cannot arm: its table is as before. *)
LEMMA ArmRefusedLemma ==
  ASSUME IInv, NEW s \in Sessions, NEW b, IsTable(b), Keeps(bk, b), ArmRefused(s, b)
  PROVE  IInv'
<1>1. Calm
  BY Parts DEF IInv, TypeOK, ArmRefused, Ui, Calm, Runtime, Keeps
<1> QED BY <1>1, QuietLemma DEF ArmRefused

(* A file cannot be written: at most the verifier of the session goes. *)
LEMMA ArmFailsLemma ==
  ASSUME IInv, NEW s \in Sessions, NEW b, IsTable(b), Keeps(bk, b), ArmFails(s, b)
  PROVE  IInv'
<1>1. route' \in [Sessions -> Route]
  BY Parts DEF IInv, TypeOK, ArmFails, Route
<1>2. \A q \in Sessions : route'[q].gen = route[q].gen /\ route'[q].verifier \in {0, route[q].verifier}
  BY Parts DEF IInv, TypeOK, ArmFails, Route
<1>3. runtime' \in [Sessions -> Runtime] /\ \A q \in Sessions : runtime'[q].ui \in {"idle", runtime[q].ui}
  BY Parts DEF IInv, TypeOK, ArmFails, Ui, Runtime
<1>4. Calm
  BY <1>1, <1>2, <1>3 DEF IInv, TypeOK, ArmFails, Calm, Keeps
<1> QED BY <1>4, QuietLemma DEF ArmFails

(* A look at the status may expire the slot. *)
LEMMA PollStatusLemma == ASSUME IInv, NEW s \in Sessions, PollStatus(s) PROVE IInv'
<1>1. IsTable(bk') /\ Keeps(bk, bk')
  BY Parts, ExpireSlotLemma DEF PollStatus
<1>2. Calm
  BY <1>1 DEF IInv, TypeOK, PollStatus, Calm, Keeps
<1> QED BY <1>1, <1>2, QuietLemma DEF PollStatus

(* The session closes its mailbox. *)
LEMMA CloseGateLemma == ASSUME IInv, NEW s \in Sessions, CloseGate(s) PROVE IInv'
<1>1. runtime' \in [Sessions -> Runtime] /\ \A q \in Sessions : runtime'[q].ui = runtime[q].ui
  BY Parts DEF IInv, TypeOK, CloseGate, Runtime
<1>2. mail' \in [Sessions -> Mail] /\ \A q \in Sessions : mail'[q] = mail[q] \/ mail'[q].state = "closed"
  BY Parts DEF IInv, TypeOK, CloseGate, Mail
<1>3. Calm
  BY <1>1, <1>2 DEF IInv, TypeOK, CloseGate, Calm
<1> QED BY <1>3, Parts, QuietLemma DEF CloseGate

(* A request gets its outcome, for the same pairing. *)
LEMMA OutcomeLemma == ASSUME IInv, NEW s \in Sessions, Outcome(s) PROVE IInv'
<1>1. Calm
  BY Parts DEF IInv, TypeOK, Outcome, Calm, Mail
<1> QED BY <1>1, Parts, QuietLemma DEF Outcome

(* A new offer: its lease, its endpoint and the launcher slot at once. *)
LEMMA ArmSucceedsLemma ==
  ASSUME IInv, NEW s \in Sessions, NEW b, IsTable(b), Keeps(bk, b), ArmSucceeds(s, b)
  PROVE  IInv'
<1> DEFINE o == used.offers + 1
           l == [session |-> s, status |-> "ready", offer |-> o, gone |-> FALSE]
<1>1. /\ o \in Offers /\ o # 0 /\ s # 0 /\ b.slot = NoSlot /\ b.lease[s] = 0 /\ route[s].gen = 0
      /\ used.offers \in Nat
  BY OffersLemma, PairingAssumption DEF ArmSucceeds, Armable, IInv, TypeOK
<1>2. \A p \in Offers : bk.at[p].session # 0 <=> p <= used.offers
  BY DEF IInv, Made, At, Session
<1>3. b.at[o].session = 0 /\ \A q \in Sessions : b.lease[q] # o
  <2>1. b.at[o].session = 0
    BY <1>1, <1>2 DEF Keeps
  <2> QED BY <1>1, <2>1, PairingAssumption DEF IsTable, Table
<1>4. NewOffer(s) \in Endpoint /\ l \in Slot /\ l # NoSlot
  BY <1>1 DEF NewOffer, NoOffer, Endpoint, Slot, NoSlot
<1>5. /\ NewOffer(s).session = s /\ NewOffer(s).desc /\ ~NewOffer(s).claimed
      /\ NewOffer(s).pc = "listen" /\ NewOffer(s).peer = 0
  BY DEF NewOffer, NoOffer
<1>6. /\ bk'.lease = [b.lease EXCEPT ![s] = o] /\ bk'.slot = l
      /\ bk'.at = [b.at EXCEPT ![o] = NewOffer(s)]
      /\ bk' \in Broker
  BY <1>1, <1>4 DEF ArmSucceeds, IsTable, Broker
<1>7. bk'.at[o] = NewOffer(s) /\ \A p \in Offers : p # o => bk'.at[p] = b.at[p]
  BY <1>1, <1>6 DEF IsTable, Broker
<1>8. bk'.lease[s] = o /\ \A q \in Sessions : q # s => bk'.lease[q] = b.lease[q]
  BY <1>6 DEF IsTable, Broker
<1>9. Table(bk')
  <2>1. \A q \in Sessions : bk'.lease[q] # 0 => bk'.at[bk'.lease[q]].session = q
    <3> SUFFICES ASSUME NEW q \in Sessions, bk'.lease[q] # 0 PROVE bk'.at[bk'.lease[q]].session = q
      OBVIOUS
    <3>1. CASE q = s
      BY <1>5, <1>7, <1>8, <3>1
    <3>2. CASE q # s
      <4>1. b.lease[q] \in Offers /\ b.at[b.lease[q]].session = q
        BY <1>8, <3>2 DEF IsTable, Table, Broker
      <4> QED BY <1>3, <1>7, <1>8, <3>2, <4>1
    <3> QED BY <3>1, <3>2
  <2>2. ASSUME NEW p \in Offers
        PROVE  LET f == bk'.at[p]
               IN  /\ f.desc => f.session # 0 /\ bk'.lease[f.session] = p /\ ~f.claimed
                   /\ f.session # 0 /\ bk'.lease[f.session] = p => f.pc # "ended" \/ f.end = "stuck_in_flight"
                   /\ f.session # 0 /\ bk'.lease[f.session] # p => f.stop \/ f.pc = "ended"
                   /\ f.session = 0 => f.pc = "unused" /\ f.peer = 0
    <3>1. CASE p = o
      BY <1>1, <1>5, <1>7, <1>8, <3>1
    <3>2. CASE p # o
      <4>1. b.at[p].session \in Sessions \cup {0} /\ p # 0
        BY OffersLemma DEF IsTable, Broker, Endpoint
      <4>2. b.at[p].session # 0 => (bk'.lease[b.at[p].session] = p <=> b.lease[b.at[p].session] = p)
        BY <1>1, <1>8, <3>2, <4>1
      <4> QED BY <1>7, <3>2, <4>1, <4>2 DEF IsTable, Table
    <3> QED BY <3>1, <3>2
  <2>3. /\ bk'.slot.session # 0 => bk'.slot.offer # 0 /\ bk'.lease[bk'.slot.session] = bk'.slot.offer
        /\ bk'.slot.session = 0 => bk'.slot.status = "none"
    BY <1>1, <1>6, <1>8
  <2> QED BY <2>1, <2>2, <2>3 DEF Table
<1>10. runtime' \in [Sessions -> Runtime] /\ \A q \in Sessions : runtime'[q].ui = "retiring" =>
         q # s /\ runtime[q].ui = "retiring"
  BY Parts DEF IInv, TypeOK, ArmSucceeds, Ui, Runtime
<1>11. /\ route' \in [Sessions -> Route]
       /\ route'[s].gen = 0 /\ route'[s].verifier = o
       /\ \A q \in Sessions : q # s => route'[q] = route[q]
  BY <1>1, Parts DEF IInv, TypeOK, ArmSucceeds, Route
<1>12. used' \in [offers : 0..MaxOffers, revoked : SUBSET Offers] /\ used'.offers = o /\ used'.revoked = used.revoked
  BY <1>1 DEF IInv, TypeOK, ArmSucceeds, Offers
<1>13. mail' = mail /\ client' = client
  BY DEF ArmSucceeds
<1>14. TypeOK'
  BY <1>6, <1>10, <1>11, <1>12, <1>13 DEF IInv, TypeOK
<1>15. \A p \in Offers : p # o => bk'.at[p].session = bk.at[p].session /\ bk'.at[p].peer = bk.at[p].peer
                                   /\ bk'.at[p].gone = bk.at[p].gone
  BY <1>7 DEF Keeps
<1>16. Made'
  BY <1>1, <1>2, <1>5, <1>7, <1>12, <1>15, OffersLemma DEF Made, At, Session
<1>17. Pipes'
  BY <1>5, <1>7, <1>13, <1>15 DEF IInv, Pipes, At
<1>18. Paired'
  <2> SUFFICES ASSUME NEW q \in Sessions
      PROVE  /\ mail[q].state \in {"busy", "ready"} => mail[q].gen = route'[q].gen /\ route'[q].gen # 0
             /\ route'[q].gen # 0 => route'[q].verifier = 0
             /\ route'[q].verifier # 0 => bk'.at[route'[q].verifier].session = q
             /\ runtime'[q].ui = "retiring" => route'[q].verifier = 0
    BY <1>13 DEF Paired, At, Session
  <2>1. CASE q = s
    BY <1>1, <1>5, <1>7, <1>10, <1>11, <2>1 DEF IInv, Paired
  <2>2. CASE q # s
    <3>1. route[q].verifier \in Offers \cup {0} /\ (route[q].verifier # 0 => bk.at[route[q].verifier].session = q)
      BY Parts DEF IInv, Paired, At, Session, Route
    <3>2. route[q].verifier # o
      BY <1>1, <1>2, <3>1, PairingAssumption
    <3> QED BY <1>10, <1>11, <1>15, <2>2, <3>1, <3>2 DEF IInv, Paired
  <2> QED BY <2>1, <2>2
<1>19. Revoked'
  <2> SUFFICES ASSUME NEW p \in used.revoked
      PROVE  bk'.at[p].session # 0 /\ route'[bk'.at[p].session].verifier # p
    BY <1>12 DEF Revoked, At, Session
  <2>1. p \in Offers /\ bk.at[p].session # 0 /\ route[bk.at[p].session].verifier # p
        /\ bk.at[p].session \in Sessions
    BY Parts DEF IInv, TypeOK, Revoked, At, Session, Endpoint
  <2>2. p # o
    BY <1>1, <1>2, <2>1
  <2> QED BY <1>11, <1>15, <2>1, <2>2
<1> QED BY <1>9, <1>14, <1>16, <1>17, <1>18, <1>19 DEF IInv

(* The three ways in which an arm ends keep the invariant. *)
LEMMA ArmLemma == ASSUME IInv, NEW s \in Sessions, Arm(s) PROVE IInv'
BY Parts, ExpireSlotLemma, ArmRefusedLemma, ArmFailsLemma, ArmSucceedsLemma DEF Arm

(* The slot says that it is disarmed; its lease is still there. *)
LEMMA DisarmSlotLemma == ASSUME IInv, NEW s \in Sessions, DisarmSlot(s) PROVE IInv'
<1>1. IsTable(bk') /\ Keeps(bk, bk')
  <2>1. CASE bk.slot.session # s
    BY <2>1, Parts DEF DisarmSlot
  <2>2. CASE bk.slot.session = s
    <3>1. s # 0
      BY PairingAssumption
    <3>2. /\ bk' \in Broker /\ bk'.at = bk.at /\ bk'.lease = bk.lease
          /\ bk'.slot.session = s /\ bk'.slot.offer = bk.slot.offer
      BY <2>2, Parts DEF DisarmSlot, IsTable, Broker, Slot
    <3>3. Table(bk')
      BY <2>2, <3>1, <3>2, Parts DEF IsTable, Table
    <3> QED BY <3>2, <3>3 DEF IsTable, Keeps
  <2> QED BY <2>1, <2>2
<1>2. runtime' \in [Sessions -> Runtime] /\ \A q \in Sessions : runtime'[q].ui = "retiring" => runtime[q].ui = "retiring"
  BY Parts DEF IInv, TypeOK, DisarmSlot, Ui, Runtime
<1>3. Calm
  BY <1>1, <1>2 DEF IInv, TypeOK, DisarmSlot, Calm, Keeps
<1> QED BY <1>1, <1>3, QuietLemma DEF DisarmSlot

(* The registry forgets the offer, unless it has been claimed. *)
LEMMA DisarmOfferLemma == ASSUME IInv, NEW s \in Sessions, DisarmOffer(s) PROVE IInv'
<1>1. /\ route' \in [Sessions -> Route]
      /\ \A q \in Sessions : route'[q].gen = route[q].gen /\ route'[q].verifier \in {0, route[q].verifier}
      /\ route'[s].verifier = 0
  BY Parts DEF IInv, TypeOK, DisarmOffer, Route, Paired
<1>2. runtime' \in [Sessions -> Runtime] /\ \A q \in Sessions : q # s => runtime'[q].ui = runtime[q].ui
  BY Parts DEF IInv, TypeOK, DisarmOffer, Ui, Runtime
<1>3. Calm
  BY <1>1, <1>2 DEF IInv, TypeOK, DisarmOffer, Calm
<1> QED BY <1>3, Parts, QuietLemma DEF DisarmOffer

(* The disarm returns: what it revokes has no verifier any more. *)
LEMMA RetireLemma == ASSUME IInv, NEW s \in Sessions, Retire(s) PROVE IInv'
<1>1. IsTable(bk') /\ Keeps(bk, bk')
  BY Parts, CloseRouteLemma, FinishSlotLemma DEF Retire
<1>2. runtime' \in [Sessions -> Runtime] /\ \A q \in Sessions : runtime'[q].ui \in {"idle", runtime[q].ui}
  BY Parts DEF IInv, TypeOK, Retire, Ui, Runtime
<1>3. /\ used' \in [offers : 0..MaxOffers, revoked : SUBSET Offers] /\ used'.offers = used.offers
      /\ used'.revoked = used.revoked \cup {o \in Offers : Session(o) = s}
  BY DEF IInv, TypeOK, Retire
<1>4. route' = route /\ mail' = mail /\ client' = client /\ route[s].verifier = 0 /\ s # 0
  BY PairingAssumption DEF Retire, IInv, Paired
<1>5. TypeOK' /\ Table(bk)'
  BY <1>1, <1>2, <1>3, <1>4 DEF IInv, TypeOK, IsTable
<1>6. Made' /\ Pipes'
  BY <1>1, <1>3, <1>4 DEF IInv, Made, Pipes, Keeps, At, Session
<1>7. \A q \in Sessions : route[q].verifier \in Offers \cup {0}
  BY DEF IInv, TypeOK, Route
<1>8. Paired'
  BY <1>1, <1>2, <1>4, <1>7 DEF IInv, Paired, Keeps, At, Session
<1>9. Revoked'
  BY <1>1, <1>3, <1>4, OffersLemma DEF IInv, TypeOK, Revoked, Keeps, At, Session
<1> QED BY <1>5, <1>6, <1>8, <1>9 DEF IInv

(* A route that is forgotten loses its offer, not its generation. *)
LEMMA ForgetLemma ==
  ASSUME IInv, NEW s \in Sessions, Forget(s)
  PROVE  /\ route' \in [Sessions -> Route]
         /\ \A q \in Sessions : route'[q].gen = route[q].gen /\ route'[q].verifier \in {0, route[q].verifier}
BY Parts, ZenonT(40) DEF IInv, TypeOK, Forget, Route

(* The route of a closed session goes. *)
LEMMA UnregisterLemma == ASSUME IInv, NEW s \in Sessions, Unregister(s) PROVE IInv'
<1>1. runtime' \in [Sessions -> Runtime] /\ \A q \in Sessions : runtime'[q].ui = runtime[q].ui
  BY Parts DEF IInv, TypeOK, Unregister, Runtime
<1>2. Calm
  BY <1>1, ForgetLemma DEF IInv, TypeOK, Unregister, Calm
<1> QED BY <1>2, Parts, QuietLemma DEF Unregister

(* The broker forgets a closed session. *)
LEMMA CloseTransportLemma == ASSUME IInv, NEW s \in Sessions, CloseTransport(s) PROVE IInv'
<1>1. IsTable(bk') /\ Keeps(bk, bk')
  BY Parts, CloseRouteLemma DEF CloseTransport
<1>2. runtime' \in [Sessions -> Runtime] /\ \A q \in Sessions : runtime'[q].ui = runtime[q].ui
  BY Parts DEF IInv, TypeOK, CloseTransport, Runtime
<1>3. Calm
  BY <1>1, <1>2 DEF IInv, TypeOK, CloseTransport, Calm, Keeps
<1> QED BY <1>1, <1>3, QuietLemma DEF CloseTransport

(* Any step of a session keeps the invariant. *)
LEMMA SessionLemma ==
  ASSUME IInv, NEW s \in Sessions,
         Call(s) \/ StartArm(s) \/ StartDisarm(s) \/ PollStatus(s) \/ CloseGate(s) \/ Outcome(s)
  PROVE  IInv'
BY StartArmLemma, StartDisarmLemma, ArmedLemma, PollStatusLemma, CloseGateLemma, OutcomeLemma,
   ArmLemma, DisarmSlotLemma, DisarmOfferLemma, RetireLemma, UnregisterLemma, CloseTransportLemma
   DEF Call

-----------------------------------------------------------------------------
(* The endpoints' threads. *)

(* An endpoint at work. *)
Working(o) == At(o).pc \notin {"unused", "ended"}

(* One endpoint goes on, as EndpointLemma says. *)
LEMMA WorkLemma ==
  ASSUME IInv, NEW o \in Offers, NEW a \in Endpoint, Working(o), bk' = [bk EXCEPT !.at[o] = a],
         a.session = At(o).session, a.stop = At(o).stop,
         a.desc => At(o).desc /\ a.claimed = At(o).claimed, a.pc # "ended"
  PROVE  /\ IsTable(bk') /\ bk'.at[o] = a /\ \A p \in Offers : p # o => bk'.at[p] = bk.at[p]
         /\ \A p \in Offers : bk'.at[p].session = bk.at[p].session
<1>1. IsTable(bk) /\ At(o).session # 0
  BY Parts DEF Working, Session
<1>2. IsTable(bk')
  BY <1>1, EndpointLemma DEF Working, At
<1>3. bk'.at[o] = a /\ \A p \in Offers : p # o => bk'.at[p] = bk.at[p]
  BY <1>1, AtLemma DEF IsTable
<1> QED BY <1>2, <1>3 DEF At

(* The thread only turns to another step. *)
LEMMA GotoLemma ==
  ASSUME IInv, NEW o \in Offers, Working(o),
         NEW step \in {"listen", "claim", "marking", "refusing", "replying", "serving", "draining",
                       "ending"},
         Goto(o, step)
  PROVE  /\ IsTable(bk') /\ \A p \in Offers : bk'.at[p].session = bk.at[p].session
         /\ bk'.at[o] = [At(o) EXCEPT !.pc = step]
         /\ \A p \in Offers : p # o => bk'.at[p] = bk.at[p]
         /\ \A p \in Offers : bk'.at[p].peer = bk.at[p].peer /\ bk'.at[p].gone = bk.at[p].gone
<1> DEFINE a == [At(o) EXCEPT !.pc = step]
<1>1. /\ a \in Endpoint /\ a.session = At(o).session /\ a.stop = At(o).stop /\ a.pc = step
      /\ a.desc = At(o).desc /\ a.claimed = At(o).claimed /\ a.peer = At(o).peer /\ a.gone = At(o).gone
  BY Parts DEF Endpoint
<1>2. bk' = [bk EXCEPT !.at[o] = a]
  BY DEF Goto, At
<1> HIDE DEF a
<1>3. /\ IsTable(bk') /\ bk'.at[o] = a /\ \A p \in Offers : p # o => bk'.at[p] = bk.at[p]
      /\ \A p \in Offers : bk'.at[p].session = bk.at[p].session
  BY <1>1, <1>2, WorkLemma
<1> QED BY <1>1, <1>3 DEF a, At

(* The thread gives up, with a reason. *)
LEMMA QuitLemma ==
  ASSUME IInv, NEW o \in Offers, Working(o),
         NEW outcome \in {"transport_error", "released", "session_unavailable", "stuck_in_flight"},
         Quit(o, outcome)
  PROVE  /\ IsTable(bk') /\ \A p \in Offers : bk'.at[p].session = bk.at[p].session
         /\ bk'.at[o] = [At(o) EXCEPT !.pc = "ending", !.end = outcome]
         /\ \A p \in Offers : p # o => bk'.at[p] = bk.at[p]
         /\ \A p \in Offers : bk'.at[p].peer = bk.at[p].peer /\ bk'.at[p].gone = bk.at[p].gone
<1> DEFINE a == [At(o) EXCEPT !.pc = "ending", !.end = outcome]
<1>1. /\ a \in Endpoint /\ a.session = At(o).session /\ a.stop = At(o).stop /\ a.pc = "ending"
      /\ a.desc = At(o).desc /\ a.claimed = At(o).claimed /\ a.peer = At(o).peer /\ a.gone = At(o).gone
  BY Parts DEF Endpoint
<1>2. bk' = [bk EXCEPT !.at[o] = a]
  BY DEF Quit, At
<1> HIDE DEF a
<1>3. /\ IsTable(bk') /\ bk'.at[o] = a /\ \A p \in Offers : p # o => bk'.at[p] = bk.at[p]
      /\ \A p \in Offers : bk'.at[p].session = bk.at[p].session
  BY <1>1, <1>2, WorkLemma
<1> QED BY <1>1, <1>3 DEF a, At

(* A thread that turns to another step, or gives up, with its client as it *)
(* is.                                                                     *)
LEMMA TurnLemma ==
  ASSUME IInv, NEW o \in Offers, Working(o),
         \/ \E step \in {"listen", "claim", "refusing", "replying", "serving", "draining", "ending"} : Goto(o, step)
         \/ \E end \in {"transport_error", "released", "session_unavailable", "stuck_in_flight"} : Quit(o, end),
         UNCHANGED <<runtime, route, mail, client, used>>
  PROVE  IInv'
<1>1. /\ IsTable(bk') /\ \A p \in Offers : bk'.at[p].session = bk.at[p].session
      /\ \A p \in Offers : bk'.at[p].peer = bk.at[p].peer /\ bk'.at[p].gone = bk.at[p].gone
  BY GotoLemma, QuitLemma
<1>2. Calm
  BY <1>1 DEF IInv, TypeOK, Calm
<1> QED BY <1>1, <1>2, CalmLemma, PipesLemma

(* The pipe is disconnected: what was at the other end is away. *)
LEMMA HangupLemma ==
  ASSUME IInv, NEW o \in Offers, Hangup(o), bk'.at[o].peer = 0,
         \A p \in Offers : p # o => bk'.at[p] = bk.at[p]
  PROVE  client' \in [Clients -> Connection] /\ Pipes'
<1>1. Away \in Connection /\ Away.at = "away"
  BY DEF Away, Connection
<1>2. client' \in [Clients -> Connection] /\ \A c \in Clients : client'[c] \in {Away, client[c]}
  BY <1>1, Parts DEF Hangup
<1>3. \A c \in Clients : client'[c].at \in {"knows", "connected", "paired"} => client'[c].offer # 0
  BY <1>1, <1>2 DEF IInv, Pipes
<1>4. ASSUME NEW p \in Offers, bk'.at[p].peer # 0, ~bk'.at[p].gone
      PROVE  client'[bk'.at[p].peer].offer = p /\ client'[bk'.at[p].peer].at \in {"connected", "paired"}
  <2> DEFINE c == bk.at[p].peer
  <2>1. p # o /\ bk'.at[p] = bk.at[p] /\ c \in Clients
    BY <1>4, Parts DEF At, Endpoint
  <2>2. client[c].offer = p /\ client[c].at \in {"connected", "paired"}
    BY <1>4, <2>1 DEF IInv, Pipes, At
  <2>3. ~(At(o).peer = c /\ ~At(o).gone)
    BY <1>4, <2>1, <2>2 DEF IInv, Pipes, At
  <2>4. client'[c] = client[c]
    BY <2>1, <2>3 DEF Hangup
  <2> QED BY <2>1, <2>2, <2>4
<1> QED BY <1>2, <1>3, <1>4 DEF Pipes, At

(* The pipe is disconnected and listens again, or the thread ends. *)
LEMMA DisconnectLemma ==
  ASSUME IInv, NEW o \in Offers, Working(o), Disconnect(o), UNCHANGED <<runtime, route, mail, used>>
  PROVE  IInv'
<1> DEFINE a == IF At(o).stop THEN Closed(At(o)) ELSE Disconnected(At(o), "listen")
<1>1. At(o) \in Endpoint
  BY Parts
<1>2. \A step \in {"listen", "ending"} :
        LET d == Disconnected(At(o), step)
        IN  /\ d \in Endpoint /\ d.session = At(o).session /\ d.stop = At(o).stop /\ d.desc = At(o).desc
            /\ d.claimed = At(o).claimed /\ d.peer = 0 /\ d.pc = step
  BY <1>1 DEF Disconnected, Endpoint
<1>3. LET d == Disconnected(At(o), "ending")  e == Closed(At(o))
      IN  /\ e \in Endpoint /\ e.session = d.session /\ e.stop = d.stop /\ e.desc = d.desc
          /\ e.claimed = d.claimed /\ e.peer = d.peer /\ e.pc = d.pc
  BY <1>2 DEF Closed, Endpoint
<1>4. /\ a \in Endpoint /\ a.session = At(o).session /\ a.stop = At(o).stop /\ a.desc = At(o).desc
      /\ a.claimed = At(o).claimed /\ a.peer = 0 /\ a.pc # "ended"
  BY <1>2, <1>3
<1>5. bk' = [bk EXCEPT !.at[o] = a]
  BY DEF Disconnect, At
<1> HIDE DEF a
<1>6. /\ IsTable(bk') /\ bk'.at[o] = a /\ \A p \in Offers : p # o => bk'.at[p] = bk.at[p]
      /\ \A p \in Offers : bk'.at[p].session = bk.at[p].session
  BY <1>4, <1>5, WorkLemma
<1>7. Calm
  BY <1>6 DEF IInv, TypeOK, Calm
<1>8. client' \in [Clients -> Connection] /\ Pipes'
  BY <1>4, <1>6, HangupLemma DEF Disconnect
<1> QED BY <1>6, <1>7, <1>8, CalmLemma

(* ConnectNamedPipe returns. *)
LEMMA AcceptLemma == ASSUME IInv, NEW o \in Offers, Accept(o) PROVE IInv'
BY DisconnectLemma, TurnLemma DEF Accept, Working

(* No claim comes. *)
LEMMA NoClaimLemma == ASSUME IInv, NEW o \in Offers, NoClaim(o) PROVE IInv'
BY DisconnectLemma DEF NoClaim, Working

(* The refusal is written. *)
LEMMA RefuseLemma == ASSUME IInv, NEW o \in Offers, Refuse(o) PROVE IInv'
BY DisconnectLemma, TurnLemma DEF Refuse, Working

(* The paired client has left, or the endpoint is stopped. *)
LEMMA StopServingLemma == ASSUME IInv, NEW o \in Offers, StopServing(o) PROVE IInv'
BY TurnLemma DEF StopServing, Working, Quitting, Goto

(* A request is still in flight at the deadline. *)
LEMMA DrainGivesUpLemma == ASSUME IInv, NEW o \in Offers, DrainGivesUp(o) PROVE IInv'
BY TurnLemma DEF DrainGivesUp, Working

(* A claimed offer has its lease and, if it came that far, the slot. *)
LEMMA MarkLemma == ASSUME IInv, NEW o \in Offers, Mark(o) PROVE IInv'
<1> DEFINE s == Session(o)
           a == [At(o) EXCEPT !.claimed = TRUE, !.desc = FALSE, !.pc = "replying"]
           n == [bk EXCEPT !.at[o] = a]
<1>1. Working(o)
  BY DEF Mark, Working
<1>2. CASE bk.lease[s] # o
  BY <1>1, <1>2, TurnLemma DEF Mark, Quitting, Goto
<1>3. CASE bk.lease[s] = o
  <2>1. /\ a \in Endpoint /\ a.session = At(o).session /\ a.stop = At(o).stop /\ ~a.desc
        /\ a.pc # "ended" /\ a.peer = At(o).peer /\ a.gone = At(o).gone
    BY Parts DEF Endpoint
  <2>2. s \in Sessions /\ s # 0
    BY Parts DEF Mark
  <2>3. bk' = IF bk.slot.session = s THEN [n EXCEPT !.slot.status = "claimed"] ELSE n
    BY <1>3 DEF Mark, At
  <2>4. /\ IsTable(n) /\ n.lease = bk.lease /\ n.slot = bk.slot /\ n.at[o] = a
        /\ \A p \in Offers : p # o => n.at[p] = bk.at[p]
    <3> HIDE DEF a
    <3>1. IsTable(n)
      BY <1>1, <2>1, Parts, EndpointLemma DEF Working, At, Session
    <3> QED BY <2>1, <3>1, Parts, AtLemma DEF IsTable
  <2> HIDE DEF n
  <2>5. IsTable(bk') /\ bk'.at = n.at
    <3>1. CASE bk.slot.session # s
      BY <2>3, <2>4, <3>1
    <3>2. CASE bk.slot.session = s
      <4>1. /\ bk' \in Broker /\ bk'.at = n.at /\ bk'.lease = n.lease
            /\ bk'.slot.session = s /\ bk'.slot.offer = n.slot.offer
        BY <2>3, <2>4, <3>2 DEF IsTable, Broker, Slot
      <4>2. Table(bk')
        BY <2>2, <2>4, <3>2, <4>1 DEF IsTable, Table
      <4> QED BY <4>1, <4>2 DEF IsTable
    <3> QED BY <3>1, <3>2
  <2>6. \A p \in Offers : /\ bk'.at[p].session = bk.at[p].session
                          /\ bk'.at[p].peer = bk.at[p].peer /\ bk'.at[p].gone = bk.at[p].gone
    BY <2>1, <2>4, <2>5 DEF At
  <2>7. Calm
    BY <2>6 DEF IInv, TypeOK, Calm, Mark
  <2> QED BY <2>5, <2>6, <2>7, CalmLemma, PipesLemma DEF Mark
<1> QED BY <1>2, <1>3

(* The reply of a claim reaches the client of this pipe. *)
LEMMA ReplyLemma == ASSUME IInv, NEW o \in Offers, Reply(o) PROVE IInv'
<1>1. Working(o)
  BY DEF Reply, Working
<1>2. CASE At(o).gone
  BY <1>1, <1>2, TurnLemma DEF Reply, Quitting, Goto
<1>3. CASE ~At(o).gone
  <2>1. /\ IsTable(bk') /\ \A p \in Offers : bk'.at[p].session = bk.at[p].session
        /\ \A p \in Offers : bk'.at[p].peer = bk.at[p].peer /\ bk'.at[p].gone = bk.at[p].gone
    BY <1>1, <1>3, GotoLemma DEF Reply
  <2>2. Calm
    BY <2>1 DEF IInv, TypeOK, Calm, Reply
  <2>3. /\ client' \in [Clients -> Connection]
        /\ \A c \in Clients : client'[c].offer = client[c].offer /\ client'[c].at \in {client[c].at, "paired"}
        /\ \A c \in Clients : c # At(o).peer => client'[c] = client[c]
    BY <1>3, Parts DEF IInv, TypeOK, Reply, Connection
  <2>4. At(o).peer \in Clients => client[At(o).peer].offer # 0
    BY <1>3, OffersLemma, PairingAssumption DEF IInv, Pipes
  <2>5. Pipes'
    BY <2>1, <2>3, <2>4, Parts DEF IInv, Pipes, At, Endpoint
  <2> QED BY <2>1, <2>2, <2>3, <2>5, CalmLemma
<1> QED BY <1>2, <1>3

(* An attempt to release: nobody's request is left in the mailbox when the *)
(* generation ends.                                                        *)
LEMMA DrainLemma == ASSUME IInv, NEW o \in Offers, Drain(o) PROVE IInv'
<1> DEFINE s == Session(o)
<1>1. Working(o) /\ s \in Sessions
  BY Parts DEF Drain, Working
<1>2. CASE ~Owns(o) /\ Quit(o, "released") /\ UNCHANGED <<route, mail>>
  BY <1>1, <1>2, TurnLemma DEF Drain
<1>3. CASE Quit(o, "stuck_in_flight") /\ UNCHANGED <<route, mail>>
  BY <1>1, <1>3, TurnLemma DEF Drain
<1>4. CASE Quit(o, "session_unavailable") /\ Forget(s) /\ UNCHANGED mail
  <2>1. /\ IsTable(bk') /\ \A p \in Offers : bk'.at[p].session = bk.at[p].session
        /\ \A p \in Offers : bk'.at[p].peer = bk.at[p].peer /\ bk'.at[p].gone = bk.at[p].gone
    BY <1>1, <1>4, QuitLemma
  <2>2. Calm
    BY <1>1, <1>4, <2>1, ForgetLemma DEF IInv, TypeOK, Calm, Drain
  <2> QED BY <2>1, <2>2, CalmLemma, PipesLemma DEF Drain
<1>5. CASE /\ Quit(o, "released") /\ route' = [route EXCEPT ![s].gen = 0]
           /\ mail' = [mail EXCEPT ![s] = [state |-> "idle", gen |-> 0]]
  <2>1. /\ IsTable(bk') /\ \A p \in Offers : bk'.at[p].session = bk.at[p].session
        /\ \A p \in Offers : bk'.at[p].peer = bk.at[p].peer /\ bk'.at[p].gone = bk.at[p].gone
    BY <1>1, <1>5, QuitLemma
  <2>2. /\ route' \in [Sessions -> Route] /\ route'[s].gen = 0
        /\ \A q \in Sessions : route'[q].verifier = route[q].verifier
        /\ \A q \in Sessions : q # s => route'[q] = route[q]
    BY <1>1, <1>5, Parts DEF IInv, TypeOK, Route
  <2>3. /\ mail' \in [Sessions -> Mail] /\ mail'[s].state = "idle"
        /\ \A q \in Sessions : q # s => mail'[q] = mail[q]
    BY <1>1, <1>5, Parts DEF IInv, TypeOK, Mail
  <2>4. runtime' = runtime /\ client' = client /\ used' = used
    BY DEF Drain
  <2>5. TypeOK' /\ Table(bk)'
    BY <2>1, <2>2, <2>3, <2>4 DEF IInv, TypeOK, IsTable
  <2>6. Made' /\ Pipes'
    BY <2>1, <2>4, PipesLemma DEF IInv, Made, At, Session
  <2>7. Paired'
    BY <1>1, <2>1, <2>2, <2>3, <2>4, Parts DEF IInv, Paired, At, Session, Route
  <2>8. Revoked'
    BY <2>1, <2>2, <2>4, Parts DEF IInv, TypeOK, Revoked, At, Session, Endpoint
  <2> QED BY <2>5, <2>6, <2>7, <2>8 DEF IInv
<1> QED BY <1>2, <1>3, <1>4, <1>5 DEF Drain
(* An endpoint has ended: its lease and slot go with it, but when it is    *)
(* stuck or has no lease any more.                                         *)
LEMMA EndedLemma ==
  ASSUME NEW b, IsTable(b), NEW o \in Offers, NEW s \in Sessions, b.at[o].session = s,
         NEW n \in Broker, \A p \in Offers : p # o => n.at[p] = b.at[p],
         n.at[o].session = s, n.at[o].pc = "ended", ~n.at[o].desc,
         \/ n.lease = b.lease /\ n.slot = b.slot /\ (b.lease[s] # o \/ n.at[o].end = "stuck_in_flight")
         \/ /\ n.lease = [b.lease EXCEPT ![s] = 0] /\ b.lease[s] = o
            /\ n.slot = IF b.slot.session = s THEN NoSlot ELSE b.slot
  PROVE  Table(n)
<1>1. s # 0 /\ o # 0 /\ NoSlot.session = 0 /\ NoSlot.status = "none"
  BY PairingAssumption, OffersLemma DEF NoSlot
<1>2. \A q \in Sessions : /\ q # s => n.lease[q] = b.lease[q]
                          /\ n.lease[q] \in {0, b.lease[q]} /\ b.lease[q] \in Offers \cup {0}
                          /\ b.lease[q] # 0 => b.at[b.lease[q]].session = q
  BY DEF IsTable, Table, Broker
<1>3. \A q \in Sessions : n.lease[q] # 0 => n.at[n.lease[q]].session = q
  BY <1>2
<1>4. \A p \in Offers : b.at[p].session \in Sessions \cup {0} /\ p # 0
  BY OffersLemma DEF IsTable, Broker, Endpoint
<1>5. ASSUME NEW p \in Offers
      PROVE  LET f == n.at[p]
             IN  /\ f.desc => f.session # 0 /\ n.lease[f.session] = p /\ ~f.claimed
                 /\ f.session # 0 /\ n.lease[f.session] = p => f.pc # "ended" \/ f.end = "stuck_in_flight"
                 /\ f.session # 0 /\ n.lease[f.session] # p => f.stop \/ f.pc = "ended"
                 /\ f.session = 0 => f.pc = "unused" /\ f.peer = 0
  <2>1. CASE p = o
    BY <1>1, <1>2, <2>1 DEF IsTable, Broker
  <2>2. CASE p # o
    <3>1. b.at[p].session # 0 => (n.lease[b.at[p].session] = p <=> b.lease[b.at[p].session] = p)
      BY <1>2, <1>4, <2>2 DEF IsTable, Broker
    <3> QED BY <1>4, <2>2, <3>1 DEF IsTable, Table
  <2> QED BY <2>1, <2>2
<1>6. /\ n.slot.session # 0 => n.slot.offer # 0 /\ n.lease[n.slot.session] = n.slot.offer
      /\ n.slot.session = 0 => n.slot.status = "none"
  <2>1. b.slot.session \in Sessions \cup {0}
    BY DEF IsTable, Broker, Slot
  <2> QED BY <1>1, <1>2, <2>1 DEF IsTable, Table
<1> QED BY <1>3, <1>5, <1>6 DEF Table

(* The table when a thread has ended. *)
LEMMA FinishTable ==
  ASSUME IInv, NEW o \in Offers, Finish(o)
  PROVE  /\ IsTable(bk') /\ bk'.at[o].session = Session(o) /\ bk'.at[o].peer = 0
         /\ bk'.at[o].pc = "ended" /\ \A p \in Offers : p # o => bk'.at[p] = bk.at[p]
<1> DEFINE s == Session(o)
           a == Ended(At(o))
           over == [bk EXCEPT !.at[o] = a]
           d == DropLease(over, s)
<1>1. IsTable(bk) /\ s \in Sessions /\ bk.at[o].session = s
  BY Parts DEF Finish, Session, At
<1>2. /\ a \in Endpoint /\ a.session = s /\ a.pc = "ended" /\ ~a.desc /\ a.peer = 0 /\ a.end = At(o).end
  BY Parts DEF Ended, NoOffer, Endpoint, Session
<1>3. bk' = IF bk.lease[s] # o \/ At(o).end = "stuck_in_flight" THEN over ELSE FinishSlot(d, s)
  BY DEF Finish, At
<1> HIDE DEF a
<1>4. /\ over \in Broker /\ over.lease = bk.lease /\ over.slot = bk.slot
      /\ over.at[o] = a /\ \A p \in Offers : p # o => over.at[p] = bk.at[p]
  BY <1>1, <1>2, AtLemma DEF IsTable
<1> HIDE DEF over
<1>5. CASE bk.lease[s] # o \/ At(o).end = "stuck_in_flight"
  <2>1. Table(over)
    BY <1>1, <1>2, <1>4, <1>5, EndedLemma
  <2> QED BY <1>2, <1>3, <1>4, <1>5, <2>1 DEF IsTable
<1>6. CASE ~(bk.lease[s] # o \/ At(o).end = "stuck_in_flight")
  <2> DEFINE l == over.lease[s]
  <2>1. l = o /\ l \in Offers /\ over \in Broker /\ s \in Sessions
    BY <1>1, <1>4, <1>6
  <2>2. /\ d \in Broker /\ d.slot = over.slot /\ d.lease = [over.lease EXCEPT ![s] = 0]
        /\ \A p \in Offers : p # l => d.at[p] = over.at[p]
        /\ d.at[l] = [over.at[l] EXCEPT !.desc = FALSE]
    BY <2>1, DropLeaseLemma
  <2> HIDE DEF d, l
  <2>3. /\ d \in Broker /\ d.slot = bk.slot /\ d.lease = [bk.lease EXCEPT ![s] = 0]
        /\ \A p \in Offers : p # o => d.at[p] = bk.at[p]
        /\ d.at[o] = [a EXCEPT !.desc = FALSE]
    BY <1>4, <2>1, <2>2
  <2>4. d.at[o].session = s /\ d.at[o].pc = "ended" /\ ~d.at[o].desc /\ d.at[o].peer = 0
    BY <1>2, <2>3 DEF Endpoint
  <2>5. /\ bk' \in Broker /\ bk'.at = d.at /\ bk'.lease = d.lease
        /\ bk'.slot = IF bk.slot.session = s THEN NoSlot ELSE bk.slot
    BY <1>3, <1>6, <2>3, NoneMade DEF FinishSlot, Broker
  <2>6. bk.lease[s] = o
    BY <1>6
  <2>7. /\ \A p \in Offers : p # o => bk'.at[p] = bk.at[p]
        /\ bk'.at[o].session = s /\ bk'.at[o].pc = "ended" /\ ~bk'.at[o].desc
        /\ bk'.lease = [bk.lease EXCEPT ![s] = 0]
    BY <2>3, <2>4, <2>5
  <2>8. Table(bk')
    BY <1>1, <2>5, <2>6, <2>7, EndedLemma
  <2> QED BY <2>4, <2>5, <2>7, <2>8 DEF IsTable
<1> QED BY <1>5, <1>6

(* The end of a thread. *)
LEMMA FinishLemma == ASSUME IInv, NEW o \in Offers, Finish(o) PROVE IInv'
<1>1. \A p \in Offers : bk'.at[p].session = bk.at[p].session
  BY FinishTable DEF Session, At
<1>2. Calm
  BY <1>1 DEF IInv, TypeOK, Calm, Finish
<1>3. client' \in [Clients -> Connection] /\ Pipes'
  BY FinishTable, HangupLemma DEF Finish
<1> QED BY <1>2, <1>3, FinishTable, CalmLemma

(* Any step of an endpoint's thread keeps the invariant. *)
LEMMA ThreadLemma == ASSUME IInv, NEW o \in Offers, Thread(o) PROVE IInv'
BY AcceptLemma, NoClaimLemma, RefuseLemma, MarkLemma, ReplyLemma, StopServingLemma, DrainLemma,
   DrainGivesUpLemma, FinishLemma DEF Thread

-----------------------------------------------------------------------------
(* Time, and the claim. *)

(* The deadline of an offer passes. *)
LEMMA LateLemma == ASSUME IInv, NEW o \in Offers, Late(o) PROVE IInv'
<1> DEFINE a == [At(o) EXCEPT !.late = TRUE]
<1>1. bk' = [bk EXCEPT !.at[o] = a]
  BY DEF Late, At
<1>2. /\ a \in Endpoint /\ a.session = At(o).session /\ a.stop = At(o).stop /\ a.pc = At(o).pc
      /\ a.desc = At(o).desc /\ a.claimed = At(o).claimed /\ a.end = At(o).end
      /\ a.peer = At(o).peer /\ a.gone = At(o).gone
  BY Parts DEF Endpoint
<1> HIDE DEF a
<1>3. /\ bk' \in Broker /\ bk'.lease = bk.lease /\ bk'.slot = bk.slot
      /\ bk'.at[o] = a /\ \A p \in Offers : p # o => bk'.at[p] = bk.at[p]
  BY <1>1, <1>2, Parts, AtLemma DEF IsTable
<1>4. \A p \in Offers : /\ bk'.at[p].session = bk.at[p].session /\ bk'.at[p].stop = bk.at[p].stop
                        /\ bk'.at[p].pc = bk.at[p].pc /\ bk'.at[p].desc = bk.at[p].desc
                        /\ bk'.at[p].claimed = bk.at[p].claimed /\ bk'.at[p].end = bk.at[p].end
                        /\ bk'.at[p].peer = bk.at[p].peer /\ bk'.at[p].gone = bk.at[p].gone
  BY <1>2, <1>3 DEF At
<1>5. \A s \in Sessions : bk.lease[s] \in Offers \cup {0}
  BY Parts DEF IsTable, Broker
<1>6. IsTable(bk') /\ Keeps(bk, bk')
  BY <1>3, <1>4, <1>5, Parts DEF IsTable, Table, Keeps
<1>7. Calm
  BY <1>4 DEF IInv, TypeOK, Calm, Late
<1> QED BY <1>6, <1>7, QuietLemma DEF Late

(* The lease's timer. *)
LEMMA ExpireLemma == ASSUME IInv, NEW o \in Offers, Expire(o) PROVE IInv'
<1> DEFINE s == Session(o)
<1>1. s \in Sessions /\ bk.lease[s] # 0
  BY Parts DEF Expire, IInv, Table, At, Session, Endpoint
<1>2. IsTable(bk') /\ Keeps(bk, bk')
  BY <1>1, Parts, DroppedLemma DEF Expire
<1>3. Calm
  BY <1>2 DEF IInv, TypeOK, Calm, Expire, Keeps
<1> QED BY <1>2, <1>3, QuietLemma DEF Expire
(* A claim that is granted begins a generation, with the mailbox empty.    *)
LEMMA ClaimGrantedLemma ==
  ASSUME IInv, NEW o \in Offers, At(o).pc = "claim", ClaimGranted(o),
         UNCHANGED <<runtime, mail, client, used>>
  PROVE  IInv'
<1> DEFINE s == Session(o)
           g == route[s].next + 1
           a == [At(o) EXCEPT !.pc = "marking", !.pair = g]
<1>1. s \in Sessions /\ g \in Nat /\ g # 0 /\ Working(o)
  BY Parts DEF Working, Route
<1>2. /\ a \in Endpoint /\ a.session = At(o).session /\ a.stop = At(o).stop /\ a.pc = "marking"
      /\ a.desc = At(o).desc /\ a.claimed = At(o).claimed /\ a.peer = At(o).peer /\ a.gone = At(o).gone
  BY <1>1, Parts DEF Endpoint
<1>3. bk' = [bk EXCEPT !.at[o] = a]
  BY DEF ClaimGranted, At
<1> HIDE DEF a
<1>4. /\ IsTable(bk') /\ bk'.at[o] = a /\ \A p \in Offers : p # o => bk'.at[p] = bk.at[p]
      /\ \A p \in Offers : bk'.at[p].session = bk.at[p].session
  BY <1>1, <1>2, <1>3, WorkLemma
<1>5. /\ route' \in [Sessions -> Route] /\ route'[s].gen = g /\ route'[s].verifier = 0
      /\ \A q \in Sessions : q # s => route'[q] = route[q]
  <2> HIDE DEF s
  <2>1. route' = [route EXCEPT ![s].verifier = 0, ![s].next = route[s].next + 1, ![s].gen = g]
    BY <1>1, Parts DEF ClaimGranted, s, IInv, TypeOK, Route
  <2>2. route[s] \in Route /\ route \in [Sessions -> Route]
    BY <1>1, Parts DEF IInv, TypeOK
  <2> QED BY <1>1, <2>1, <2>2 DEF Route
<1>6. mail[s].state \notin {"busy", "ready"}
  BY <1>1 DEF IInv, Paired, ClaimGranted, Claimable
<1>7. TypeOK' /\ Table(bk)'
  BY <1>4, <1>5 DEF IInv, TypeOK, IsTable
<1>8. Made'
  BY <1>4 DEF IInv, Made, At, Session
<1>9. Pipes'
  BY <1>2, <1>4, PipesLemma DEF At
<1>10. \A q \in Sessions : route'[q].verifier \in {0, route[q].verifier}
  BY <1>5
<1>11. \A q \in Sessions : route[q].verifier \in Offers \cup {0}
  BY Parts DEF Route
<1>12. Paired'
  BY <1>1, <1>4, <1>5, <1>6, <1>10, <1>11 DEF IInv, Paired, At, Session
<1>13. Revoked'
  BY <1>4, <1>10, Parts DEF IInv, TypeOK, Revoked, At, Session, Endpoint
<1> QED BY <1>7, <1>8, <1>9, <1>12, <1>13 DEF IInv

(* A claim that is refused at most clears the route. *)
LEMMA ClaimRefusedLemma ==
  ASSUME IInv, NEW o \in Offers, NEW good, At(o).pc = "claim", ClaimRefused(o, good),
         UNCHANGED <<runtime, mail, client, used>>
  PROVE  IInv'
<1> DEFINE s == Session(o)
<1>1. s \in Sessions /\ Working(o)
  BY Parts DEF Working
<1>2. /\ IsTable(bk') /\ \A p \in Offers : bk'.at[p].session = bk.at[p].session
      /\ \A p \in Offers : bk'.at[p].peer = bk.at[p].peer /\ bk'.at[p].gone = bk.at[p].gone
  BY <1>1, GotoLemma DEF ClaimRefused
<1>3. route' \in {Cleared(s), route}
  BY DEF ClaimRefused
<1>4. /\ route' \in [Sessions -> Route]
      /\ \A q \in Sessions : route'[q].gen = route[q].gen /\ route'[q].verifier \in {0, route[q].verifier}
  <2>1. route[s] \in Route /\ route \in [Sessions -> Route]
    BY <1>1, Parts DEF IInv, TypeOK
  <2> HIDE DEF s
  <2>2. Cleared(s) \in {[route EXCEPT ![s].registered = FALSE], [route EXCEPT ![s].verifier = 0], route}
    BY DEF Cleared
  <2>3. CASE route' = route
    BY <2>1, <2>3 DEF Route
  <2>4. CASE route' = [route EXCEPT ![s].registered = FALSE]
    BY <1>1, <2>1, <2>4 DEF Route
  <2>5. CASE route' = [route EXCEPT ![s].verifier = 0]
    BY <1>1, <2>1, <2>5 DEF Route
  <2> QED BY <1>3, <2>2, <2>3, <2>4, <2>5
<1>5. Calm
  BY <1>2, <1>4 DEF IInv, TypeOK, Calm
<1> QED BY <1>2, <1>5, CalmLemma, PipesLemma

(* A claim keeps the invariant. *)
LEMMA ReadClaimLemma == ASSUME IInv, NEW o \in Offers, NEW good \in BOOLEAN, ReadClaim(o, good) PROVE IInv'
BY ClaimGrantedLemma, ClaimRefusedLemma DEF ReadClaim

-----------------------------------------------------------------------------
(* The clients. *)

(* A client steps without the broker noticing, from a place where no pipe  *)
(* is its own.                                                             *)
LEMMA ClientLemma ==
  ASSUME IInv, NEW c \in Clients, NEW at, NEW o, Step(c, at, o), [at |-> at, offer |-> o] \in Connection,
         at \in {"knows", "connected", "paired"} => o # 0,
         \A p \in Offers : bk'.at[p].peer # 0 /\ ~bk'.at[p].gone =>
           \/ bk'.at[p].peer = c /\ o = p /\ at \in {"connected", "paired"}
           \/ bk'.at[p].peer # c /\ bk'.at[p].peer = bk.at[p].peer /\ ~bk.at[p].gone
  PROVE  client' \in [Clients -> Connection] /\ Pipes'
<1>1. /\ client' \in [Clients -> Connection] /\ client'[c].at = at /\ client'[c].offer = o
      /\ \A d \in Clients : d # c => client'[d] = client[d]
  BY DEF IInv, TypeOK, Step
<1>2. ASSUME NEW p \in Offers, bk'.at[p].peer # 0, ~bk'.at[p].gone
      PROVE  client'[bk'.at[p].peer].offer = p /\ client'[bk'.at[p].peer].at \in {"connected", "paired"}
  <2>1. CASE bk'.at[p].peer = c
    BY <1>1, <1>2, <2>1
  <2>2. CASE bk'.at[p].peer # c
    <3>1. bk'.at[p].peer = bk.at[p].peer /\ ~bk.at[p].gone /\ bk.at[p].peer \in Clients
      BY <1>2, <2>2, Parts DEF At, Endpoint
    <3> QED BY <1>1, <1>2, <2>2, <3>1 DEF IInv, Pipes, At
  <2> QED BY <2>1, <2>2
<1>3. \A d \in Clients : client'[d].at \in {"knows", "connected", "paired"} => client'[d].offer # 0
  BY <1>1 DEF IInv, Pipes
<1> QED BY <1>1, <1>2, <1>3 DEF Pipes, At

(* A client that has no pipe. *)
LEMMA NoPipe ==
  ASSUME IInv, NEW c \in Clients, client[c].at \notin {"connected", "paired"}
  PROVE  \A p \in Offers : bk.at[p].peer # 0 /\ ~bk.at[p].gone => bk.at[p].peer # c
BY DEF IInv, Pipes, At
(* The launcher looks at the rendezvous. *)
LEMMA LaunchLemma == ASSUME IInv, NEW c \in Clients, Launch(c) PROVE IInv'
<1>1. bk' = bk /\ route' = route /\ mail' = mail /\ runtime' = runtime /\ used' = used
  BY DEF Launch
<1>2. client[c].at = "away"
  BY DEF Launch, Away
<1>3. PICK at \in {"knows", "removing"}, o \in Offers \cup {0} : Step(c, at, o) /\ (at = "knows" => o # 0)
  <2> DEFINE f == bk.slot
  <2>1. CASE Step(c, "knows", f.offer) /\ f.status = "ready"
    <3>1. f.offer \in Offers \cup {0} /\ f.offer # 0
      BY <2>1, Parts DEF IsTable, Table, Broker, Slot, NoSlot
    <3> QED BY <2>1, <3>1
  <2>2. CASE Step(c, "removing", 0)
    BY <2>2
  <2> QED BY <2>1, <2>2 DEF Launch
<1>4. [at |-> at, offer |-> o] \in Connection
  BY DEF Connection
<1>5. client' \in [Clients -> Connection] /\ Pipes'
  BY <1>1, <1>2, <1>3, <1>4, ClientLemma, NoPipe
<1>6. Calm
  BY <1>1 DEF IInv, TypeOK, Calm
<1> QED BY <1>1, <1>5, <1>6, Parts, CalmLemma

(* The record is removed, whichever it is now. *)
LEMMA RemoveRecordLemma == ASSUME IInv, NEW c \in Clients, RemoveRecord(c) PROVE IInv'
<1>1. /\ bk' \in Broker /\ bk'.at = bk.at /\ bk'.lease = bk.lease
      /\ bk'.slot = [bk.slot EXCEPT !.gone = TRUE]
  BY Parts DEF RemoveRecord, IsTable, Broker, Slot
<1>2. /\ bk'.slot.session = bk.slot.session /\ bk'.slot.offer = bk.slot.offer
      /\ bk'.slot.status = bk.slot.status
  BY <1>1, Parts DEF IsTable, Broker, Slot
<1>3. IsTable(bk')
  BY <1>1, <1>2, Parts DEF IsTable, Table
<1>4. [at |-> "away", offer |-> 0] \in Connection
  BY DEF Connection
<1>5. client' \in [Clients -> Connection] /\ Pipes'
  BY <1>1, <1>4, ClientLemma, NoPipe DEF RemoveRecord
<1>6. Calm
  BY <1>1 DEF IInv, TypeOK, Calm, RemoveRecord
<1> QED BY <1>3, <1>5, <1>6, CalmLemma

(* The end of a pipe changes hands: its endpoint is otherwise as it was.   *)
LEMMA PeerLemma ==
  ASSUME IInv, NEW o \in Offers, NEW a \in Endpoint, bk' = [bk EXCEPT !.at[o] = a], At(o).session # 0,
         a.session = At(o).session, a.stop = At(o).stop, a.pc = At(o).pc, a.desc = At(o).desc,
         a.claimed = At(o).claimed, a.end = At(o).end,
         UNCHANGED <<runtime, route, used>>, mail' \in [Sessions -> Mail],
         \A s \in Sessions : mail'[s] = mail[s] \/ mail'[s].state = "idle"
  PROVE  /\ IsTable(bk') /\ bk'.at[o] = a /\ \A p \in Offers : p # o => bk'.at[p] = bk.at[p]
         /\ Calm
<1>1. /\ bk' \in Broker /\ bk'.lease = bk.lease /\ bk'.slot = bk.slot
      /\ bk'.at[o] = a /\ \A p \in Offers : p # o => bk'.at[p] = bk.at[p]
  BY Parts, AtLemma DEF IsTable
<1>2. \A p \in Offers : /\ bk'.at[p].session = bk.at[p].session /\ bk'.at[p].stop = bk.at[p].stop
                        /\ bk'.at[p].pc = bk.at[p].pc /\ bk'.at[p].desc = bk.at[p].desc
                        /\ bk'.at[p].claimed = bk.at[p].claimed /\ bk'.at[p].end = bk.at[p].end
                        /\ (bk.at[p].session # 0 \/ bk'.at[p].peer = bk.at[p].peer)
  BY <1>1 DEF At
<1>3. \A s \in Sessions : bk.lease[s] \in Offers \cup {0}
  BY Parts DEF IsTable, Broker
<1>4. IsTable(bk')
  BY <1>1, <1>2, <1>3, Parts DEF IsTable, Table
<1>5. Calm
  BY <1>2 DEF IInv, TypeOK, Calm
<1> QED BY <1>1, <1>4, <1>5

(* A client opens the pipe of the offer it knows. *)
LEMMA OpenPipeLemma == ASSUME IInv, NEW c \in Clients, OpenPipe(c) PROVE IInv'
<1> DEFINE o == client[c].offer
           a == [At(o) EXCEPT !.peer = c]
<1>1. o \in Offers /\ o # 0 /\ c # 0
  BY Parts, PairingAssumption DEF OpenPipe, IInv, Pipes, Connection
<1>2. At(o).pc = "listen" /\ Step(c, "connected", o) /\ At(o).session # 0
  BY <1>1, Parts DEF OpenPipe, Session
<1>3. /\ a \in Endpoint /\ a.session = At(o).session /\ a.stop = At(o).stop /\ a.pc = At(o).pc
      /\ a.desc = At(o).desc /\ a.claimed = At(o).claimed /\ a.end = At(o).end /\ a.peer = c
  BY <1>1, Parts DEF Endpoint
<1>4. bk' = [bk EXCEPT !.at[o] = a] /\ UNCHANGED <<runtime, route, mail, used>>
  BY DEF OpenPipe, At
<1> HIDE DEF a
<1>5. /\ IsTable(bk') /\ bk'.at[o] = a /\ \A p \in Offers : p # o => bk'.at[p] = bk.at[p]
      /\ Calm
  <2> HIDE DEF o
  <2>1. mail' \in [Sessions -> Mail] /\ \A s \in Sessions : mail'[s] = mail[s]
    BY <1>4 DEF IInv, TypeOK
  <2> QED BY <1>1, <1>2, <1>3, <1>4, <2>1, PeerLemma
<1>6. [at |-> "connected", offer |-> o] \in Connection
  BY <1>1 DEF Connection
<1>7. \A p \in Offers : bk.at[p].peer # 0 /\ ~bk.at[p].gone => bk.at[p].peer # c
  BY NoPipe DEF OpenPipe
<1>8. client' \in [Clients -> Connection] /\ Pipes'
  <2> HIDE DEF o
  <2> QED BY <1>1, <1>2, <1>3, <1>5, <1>6, <1>7, ClientLemma
<1> QED BY <1>5, <1>8, CalmLemma

(* A client leaves its pipe, or gives up before it has opened one. *)
LEMMA LeaveLemma == ASSUME IInv, NEW c \in Clients, Leave(c) PROVE IInv'
<1> DEFINE o == client[c].offer
           a == [At(o) EXCEPT !.gone = TRUE]
<1>1. o \in Offers /\ o # 0 /\ c # 0 /\ Step(c, "away", 0) /\ UNCHANGED <<runtime, route, mail, used>>
  BY Parts, PairingAssumption DEF Leave, IInv, Pipes, Connection
<1>2. [at |-> "away", offer |-> 0] \in Connection
  BY DEF Connection
<1>3. CASE client[c].at # "knows" /\ At(o).peer = c
  <2>1. /\ a \in Endpoint /\ a.session = At(o).session /\ a.stop = At(o).stop /\ a.pc = At(o).pc
        /\ a.desc = At(o).desc /\ a.claimed = At(o).claimed /\ a.end = At(o).end /\ a.gone
    <3> HIDE DEF o
    <3>1. At(o) \in Endpoint
      BY <1>1, Parts
    <3> QED BY <3>1 DEF Endpoint
  <2>2. bk' = [bk EXCEPT !.at[o] = a]
    BY <1>3 DEF Leave, At
  <2>3. At(o).session # 0
    <3>1. \A p \in Offers : At(p).peer # 0 => At(p).session # 0
      BY Parts DEF IsTable, Table, At
    <3> QED BY <1>1, <1>3, <3>1
  <2> HIDE DEF a
  <2>4. /\ IsTable(bk') /\ bk'.at[o] = a /\ \A p \in Offers : p # o => bk'.at[p] = bk.at[p]
        /\ Calm
    <3> HIDE DEF o
    <3>1. mail' \in [Sessions -> Mail] /\ \A s \in Sessions : mail'[s] = mail[s]
      BY <1>1 DEF IInv, TypeOK
    <3> QED BY <1>1, <2>1, <2>2, <2>3, <3>1, PeerLemma
  <2>5. \A p \in Offers : bk'.at[p].peer # 0 /\ ~bk'.at[p].gone =>
          bk'.at[p].peer # c /\ bk'.at[p].peer = bk.at[p].peer /\ ~bk.at[p].gone
    BY <2>1, <2>4 DEF IInv, Pipes, At
  <2>6. client' \in [Clients -> Connection] /\ Pipes'
    BY <1>1, <1>2, <2>5, ClientLemma
  <2> QED BY <2>4, <2>6, CalmLemma
<1>4. CASE ~(client[c].at # "knows" /\ At(o).peer = c)
  <2>1. bk' = bk
    BY <1>4 DEF Leave
  <2>2. \A p \in Offers : bk'.at[p].peer # 0 /\ ~bk'.at[p].gone =>
          bk'.at[p].peer # c /\ bk'.at[p].peer = bk.at[p].peer /\ ~bk.at[p].gone
    BY <1>4, <2>1 DEF IInv, Pipes, At
  <2>3. client' \in [Clients -> Connection] /\ Pipes'
    BY <1>1, <1>2, <2>2, ClientLemma
  <2>4. Calm
    BY <1>1, <2>1 DEF IInv, TypeOK, Calm
  <2> QED BY <2>1, <2>3, <2>4, Parts, CalmLemma
<1> QED BY <1>3, <1>4
(* What a paired client asks of is its own offer's session. *)
LEMMA ServedLemma ==
  ASSUME IInv, NEW c \in Clients, Served(c, client[c].offer), Owns(client[c].offer)
  PROVE  LET o == client[c].offer  s == Session(o)
         IN  /\ o \in Offers /\ s \in Sessions /\ s # 0 /\ Working(o)
             /\ route[s].gen = At(o).pair /\ route[s].gen # 0
<1> DEFINE o == client[c].offer
<1>1. o \in Offers
  BY Parts DEF Served, IInv, Pipes, Connection
<1> HIDE DEF o
<1>2. At(o).pc = "serving" => Session(o) \in Sessions /\ Session(o) # 0
  BY <1>1, Parts
<1> QED BY <1>1, <1>2 DEF Served, Owns, Working, o

(* A request goes into the mailbox with the pairing of the route. *)
LEMMA SubmitLemma == ASSUME IInv, NEW c \in Clients, Submit(c) PROVE IInv'
<1> DEFINE o == client[c].offer
           s == Session(o)
           a == [At(o) EXCEPT !.out = TRUE]
<1>1. /\ o \in Offers /\ s \in Sessions /\ s # 0 /\ Working(o)
      /\ route[s].gen = At(o).pair /\ route[s].gen # 0
  BY ServedLemma DEF Submit
<1>2. bk' = [bk EXCEPT !.at[o] = a] /\ UNCHANGED <<runtime, route, client, used>>
  BY DEF Submit, At
<1>3. mail' = [mail EXCEPT ![s] = [state |-> "busy", gen |-> At(o).pair]]
  BY DEF Submit
<1> HIDE DEF o, s
<1>4. At(o) \in Endpoint /\ s = At(o).session
  BY <1>1, Parts DEF s, Session
<1>5. /\ a \in Endpoint /\ a.session = At(o).session /\ a.stop = At(o).stop /\ a.pc = At(o).pc
      /\ a.desc = At(o).desc /\ a.claimed = At(o).claimed /\ a.peer = At(o).peer /\ a.gone = At(o).gone
  BY <1>4 DEF Endpoint
<1>6. a.pc # "ended" /\ At(o).pair \in Nat
  BY <1>1, <1>4, <1>5 DEF Working, Endpoint
<1> HIDE DEF a
<1>7. /\ IsTable(bk') /\ bk'.at[o] = a /\ \A p \in Offers : p # o => bk'.at[p] = bk.at[p]
      /\ \A p \in Offers : bk'.at[p].session = bk.at[p].session
  BY <1>1, <1>2, <1>5, <1>6, WorkLemma
<1>8. /\ mail' \in [Sessions -> Mail] /\ mail'[s].gen = At(o).pair
      /\ \A q \in Sessions : q # s => mail'[q] = mail[q]
  BY <1>1, <1>3, <1>6 DEF IInv, TypeOK, Mail
<1>9. TypeOK' /\ Table(bk)'
  BY <1>2, <1>7, <1>8 DEF IInv, TypeOK, IsTable
<1>10. Made'
  BY <1>2, <1>7 DEF IInv, Made, At, Session
<1>11. Pipes'
  <2>1. \A p \in Offers : bk'.at[p].peer = bk.at[p].peer /\ bk'.at[p].gone = bk.at[p].gone
    BY <1>5, <1>7 DEF At
  <2> QED BY <1>2, <2>1, PipesLemma
<1>12. \A q \in Sessions : route[q].verifier \in Offers \cup {0}
  BY Parts DEF Route
<1>13. Paired'
  BY <1>1, <1>2, <1>7, <1>8, <1>12 DEF IInv, Paired, At, Session
<1>14. Revoked'
  BY <1>2, <1>7 DEF IInv, TypeOK, Revoked, At, Session
<1> QED BY <1>9, <1>10, <1>11, <1>13, <1>14 DEF IInv

(* An outcome is taken out of the mailbox. *)
LEMMA ConsumeLemma == ASSUME IInv, NEW c \in Clients, Consume(c) PROVE IInv'
<1>1. Session(client[c].offer) \in Sessions
  BY ServedLemma DEF Consume
<1>2. mail' \in [Sessions -> Mail] /\ \A q \in Sessions : mail'[q] = mail[q] \/ mail'[q].state = "idle"
  BY <1>1 DEF IInv, TypeOK, Consume, Mail
<1>3. UNCHANGED <<runtime, route, bk, client, used>>
  BY DEF Consume
<1>4. Calm
  BY <1>2, <1>3 DEF IInv, TypeOK, Calm
<1> QED BY <1>3, <1>4, Parts, QuietLemma

(* A closed mailbox is found. *)
LEMMA FindClosedLemma == ASSUME IInv, NEW c \in Clients, FindClosed(c) PROVE IInv'
<1>1. Session(client[c].offer) \in Sessions /\ Forget(Session(client[c].offer))
  BY ServedLemma DEF FindClosed
<1>2. UNCHANGED <<runtime, mail, bk, client, used>>
  BY DEF FindClosed
<1>3. Calm
  BY <1>1, <1>2, ForgetLemma DEF IInv, TypeOK, Calm
<1> QED BY <1>2, <1>3, Parts, QuietLemma

(* A client that is done gives its generation back, with an empty mailbox. *)
LEMMA ReleaseLemma == ASSUME IInv, NEW c \in Clients, Release(c) PROVE IInv'
<1> DEFINE o == client[c].offer
           s == Session(o)
           a == [At(o) EXCEPT !.pc = "ending", !.end = "released", !.gone = TRUE]
<1>1. o \in Offers /\ s \in Sessions /\ s # 0 /\ Working(o)
  BY ServedLemma DEF Release
<1>2. bk' = [bk EXCEPT !.at[o] = a] /\ UNCHANGED <<runtime, mail, used>> /\ Step(c, "away", 0)
  BY DEF Release, At
<1>3. route' = [route EXCEPT ![s].gen = 0] /\ mail[s].state = "idle"
  BY DEF Release
<1>4. At(o).peer = c
  BY DEF Release, Served
<1> HIDE DEF o, s
<1>5. At(o) \in Endpoint
  BY <1>1, Parts
<1>6. /\ a \in Endpoint /\ a.session = At(o).session /\ a.stop = At(o).stop /\ a.pc = "ending"
      /\ a.desc = At(o).desc /\ a.claimed = At(o).claimed /\ a.gone
  BY <1>5 DEF Endpoint
<1> HIDE DEF a
<1>7. /\ IsTable(bk') /\ bk'.at[o] = a /\ \A p \in Offers : p # o => bk'.at[p] = bk.at[p]
      /\ \A p \in Offers : bk'.at[p].session = bk.at[p].session
  BY <1>1, <1>2, <1>6, WorkLemma
<1>8. /\ route' \in [Sessions -> Route]
      /\ \A q \in Sessions : route'[q].verifier = route[q].verifier
      /\ route'[s].gen = 0 /\ \A q \in Sessions : q # s => route'[q] = route[q]
  BY <1>1, <1>3, Parts DEF IInv, TypeOK, Route
<1>9. [at |-> "away", offer |-> 0] \in Connection
  BY DEF Connection
<1>10. \A p \in Offers : bk'.at[p].peer # 0 /\ ~bk'.at[p].gone =>
          bk'.at[p].peer # c /\ bk'.at[p].peer = bk.at[p].peer /\ ~bk.at[p].gone
  <2>1. \A p \in Offers : At(p).peer = c /\ ~At(p).gone /\ c # 0 => client[c].offer = p
    BY DEF IInv, Pipes
  <2>2. c # 0
    BY PairingAssumption
  <2> QED BY <1>6, <1>7, <2>1, <2>2 DEF At, o
<1>11. client' \in [Clients -> Connection] /\ Pipes'
  BY <1>2, <1>9, <1>10, ClientLemma
<1>12. TypeOK' /\ Table(bk)'
  BY <1>2, <1>7, <1>8, <1>11 DEF IInv, TypeOK, IsTable
<1>13. Made'
  BY <1>2, <1>7 DEF IInv, Made, At, Session
<1>14. \A q \in Sessions : route[q].verifier \in Offers \cup {0}
  BY Parts DEF Route
<1>15. Paired'
  BY <1>1, <1>2, <1>3, <1>7, <1>8, <1>14 DEF IInv, Paired, At, Session
<1>16. \A p \in used.revoked : Session(p) \in Sessions
  BY Parts DEF IInv, TypeOK, Revoked, Session, Endpoint
<1>17. Revoked'
  BY <1>2, <1>7, <1>8, <1>16 DEF IInv, TypeOK, Revoked, At, Session
<1> QED BY <1>11, <1>12, <1>13, <1>15, <1>17 DEF IInv

-----------------------------------------------------------------------------
(* The invariant, and what follows from it. *)

(* Nothing is offered at first. *)
LEMMA InitLemma == Init => IInv
<1> SUFFICES ASSUME Init PROVE IInv
  OBVIOUS
<1>1. Away \in Connection /\ Away.at = "away"
  BY DEF Away, Connection
<1>2. /\ bk.lease = [s \in Sessions |-> 0] /\ bk.slot = NoSlot /\ \A o \in Offers : bk.at[o] = NoOffer
      /\ bk \in Broker
  BY NoneMade DEF Init, Broker
<1>3. TypeOK
  BY <1>1, <1>2, PairingAssumption DEF Init, TypeOK, Route, Mail, Runtime
<1>4. /\ NoOffer.session = 0 /\ NoOffer.pc = "unused" /\ NoOffer.peer = 0 /\ ~NoOffer.desc
      /\ NoSlot.session = 0 /\ NoSlot.status = "none"
  BY DEF NoOffer, NoSlot
<1>5. Table(bk)
  BY <1>2, <1>4 DEF Table
<1>6. Made
  BY <1>2, <1>4, PairingAssumption DEF Init, Made, At, Session, Offers
<1>7. Pipes
  BY <1>1, <1>2, <1>4 DEF Init, Pipes, At
<1>8. Paired /\ Revoked
  BY DEF Init, Paired, Revoked
<1> QED BY <1>3, <1>5, <1>6, <1>7, <1>8 DEF IInv

(* Every step keeps the invariant. *)
LEMMA StepLemma == IInv /\ [Next]_vars => IInv'
<1> SUFFICES ASSUME IInv, [Next]_vars PROVE IInv'
  OBVIOUS
<1>1. CASE UNCHANGED vars
  BY <1>1 DEF vars, IInv, TypeOK, Made, Pipes, Paired, Revoked, At, Session
<1>2. CASE \E s \in Sessions : \/ Call(s) \/ StartArm(s) \/ StartDisarm(s) \/ PollStatus(s)
                               \/ CloseGate(s) \/ Outcome(s)
  BY <1>2, SessionLemma
<1>3. CASE \E o \in Offers : \/ Thread(o) \/ Late(o) \/ Expire(o)
                             \/ \E good \in BOOLEAN : ReadClaim(o, good)
  BY <1>3, ThreadLemma, LateLemma, ExpireLemma, ReadClaimLemma
<1>4. CASE \E c \in Clients : \/ Launch(c) \/ RemoveRecord(c) \/ OpenPipe(c) \/ Leave(c)
                              \/ Submit(c) \/ Consume(c) \/ FindClosed(c) \/ Release(c)
  BY <1>4, LaunchLemma, RemoveRecordLemma, OpenPipeLemma, LeaveLemma, SubmitLemma, ConsumeLemma,
     FindClosedLemma, ReleaseLemma
<1> QED BY <1>1, <1>2, <1>3, <1>4 DEF Next

(* The inductive invariant holds in every state: types, the broker's table,*)
(* the two ends of the pipes, and the routes with their mailboxes.         *)
THEOREM Invariance == Spec => []IInv
BY InitLemma, StepLemma, PTL DEF Spec

(* What is in a mailbox belongs to the pairing of now, for every number of *)
(* sessions, clients and offers.                                           *)
THEOREM MailIsPaired == Spec => []RepliesStayPaired
<1>1. IInv => RepliesStayPaired
  BY DEF IInv, Paired, RepliesStayPaired
<1> QED BY <1>1, Invariance, PTL

(* No offer outlives its lease, and no lease its endpoint. *)
THEOREM LeasesSound == Spec => []LeasesAreSound
<1>1. IInv => LeasesAreSound
  BY DEF IInv, Table, LeasesAreSound, At
<1> QED BY <1>1, Invariance, PTL

(* Only a claim that the registry grants takes a thread from its claim to  *)
(* the mark.                                                               *)
LEMMA MarkingLemma ==
  ASSUME IInv, Next, NEW o \in Offers, At(o).pc = "claim", bk'.at[o].pc = "marking"
  PROVE  Claimable(o)
<1>1. bk \in Broker /\ IsTable(bk)
  BY Parts DEF IsTable
<1>2. \A b : Keeps(bk, b) => b.at[o].pc = "claim"
  BY DEF Keeps, At
<1>3. ASSUME NEW s \in Sessions, Arm(s) PROVE FALSE
  <2> DEFINE b == ExpireSlot(bk)
  <2>1. IsTable(b) /\ Keeps(bk, b)
    BY <1>1, ExpireSlotLemma
  <2>2. bk' # b
    BY <1>2, <2>1
  <2> HIDE DEF b
  <2>3. ~ArmSucceeds(s, b)
    <3> SUFFICES ASSUME ArmSucceeds(s, b) PROVE bk'.at[o].pc # "marking"
      OBVIOUS
    <3>1. bk'.at = [b.at EXCEPT ![used.offers + 1] = NewOffer(s)] /\ NewOffer(s).pc = "listen"
      BY <2>1 DEF ArmSucceeds, IsTable, Broker, NewOffer, NoOffer
    <3> QED BY <1>2, <2>1, <3>1 DEF IsTable, Broker
  <2> QED BY <1>3, <2>2, <2>3 DEF Arm, ArmRefused, ArmFails, b
<1>4. ASSUME NEW s \in Sessions, Retire(s) \/ CloseTransport(s) \/ PollStatus(s) PROVE FALSE
  BY <1>1, <1>2, <1>4, CloseRouteLemma, FinishSlotLemma, ExpireSlotLemma DEF Retire, CloseTransport, PollStatus
<1>5. ASSUME NEW s \in Sessions, DisarmSlot(s) PROVE FALSE
  BY <1>1, <1>5 DEF DisarmSlot, At, Broker
<1>6. ASSUME NEW p \in Offers, Expire(p) PROVE FALSE
  <2>1. Session(p) \in Sessions /\ bk.lease[Session(p)] # 0
    BY <1>6, Parts DEF Expire, IInv, Table, At, Session, Endpoint
  <2> QED BY <1>1, <1>2, <1>6, <2>1, DroppedLemma DEF Expire
<1>7. ASSUME NEW p \in Offers, Finish(p) PROVE FALSE
  BY <1>7, FinishTable DEF At
<1>8. ASSUME NEW p \in Offers, NEW a, bk' = [bk EXCEPT !.at[p] = a], a.pc # "marking" \/ p # o
      PROVE  FALSE
  BY <1>1, <1>8 DEF At, Broker
<1>9. ASSUME NEW p \in Offers, NEW step, step # "marking", Goto(p, step) PROVE FALSE
  <2>1. bk' = [bk EXCEPT !.at[p] = [bk.at[p] EXCEPT !.pc = step]]
    BY <1>9 DEF Goto
  <2>2. [bk.at[p] EXCEPT !.pc = step].pc = step
    BY <1>1 DEF Broker, Endpoint
  <2> QED BY <1>8, <1>9, <2>1, <2>2
<1>10. ASSUME NEW p \in Offers, Late(p) PROVE FALSE
  <2>1. bk' = [bk EXCEPT !.at[p] = [At(p) EXCEPT !.late = TRUE]]
    BY <1>10 DEF Late, At
  <2>2. [At(p) EXCEPT !.late = TRUE].pc = At(p).pc
    BY <1>1 DEF At, Broker, Endpoint
  <2> QED BY <1>8, <2>1, <2>2
<1>11. ASSUME NEW p \in Offers, Disconnect(p) PROVE FALSE
  <2> DEFINE a == IF At(p).stop THEN Closed(At(p)) ELSE Disconnected(At(p), "listen")
  <2>1. bk' = [bk EXCEPT !.at[p] = a]
    BY <1>11 DEF Disconnect, At
  <2>2. a.pc \in {"listen", "ending"}
    BY <1>1 DEF Closed, Disconnected, At, Broker, Endpoint
  <2> HIDE DEF a
  <2> QED BY <1>8, <2>1, <2>2
<1>12. ASSUME NEW p \in Offers, NEW end, Quit(p, end) PROVE FALSE
  BY <1>1, <1>12 DEF Quit, At, Broker, Endpoint
<1>13. ASSUME NEW p \in Offers, Mark(p) PROVE FALSE
  <2> DEFINE a == [At(p) EXCEPT !.claimed = TRUE, !.desc = FALSE, !.pc = "replying"]
             n == [bk EXCEPT !.at[p] = a]
  <2>1. CASE Goto(p, "draining")
    BY <1>9, <2>1
  <2>2. CASE bk' = n \/ bk' = [n EXCEPT !.slot.status = "claimed"]
    <3>1. a.pc = "replying"
      BY <1>1 DEF At, Broker, Endpoint
    <3> HIDE DEF a
    <3>2. bk'.at = [bk.at EXCEPT ![p] = a]
      BY <1>1, <2>2 DEF Broker
    <3> QED BY <1>1, <3>1, <3>2 DEF At, Broker
  <2> QED BY <1>13, <2>1, <2>2 DEF Mark, Quitting, Goto, At
<1>14. ASSUME NEW p \in Offers, ClaimGranted(p) PROVE p = o
  BY <1>1, <1>14 DEF ClaimGranted, At, Broker, Endpoint
<1>15. ASSUME NEW c \in Clients, \/ RemoveRecord(c) \/ OpenPipe(c) \/ Leave(c) \/ Submit(c) \/ Release(c)
       PROVE  FALSE
  <2> DEFINE p == client[c].offer
             a == At(p)
  <2>1. CASE RemoveRecord(c)
    BY <1>1, <2>1 DEF RemoveRecord, At, Broker
  <2>2. ASSUME NEW n, bk' = [bk EXCEPT !.at[p] = n], p \in Offers, n.pc \in {a.pc, "ending"} PROVE FALSE
    BY <1>8, <2>2 DEF At
  <2>3. p \in Offers => a \in Endpoint
    BY Parts
  <2>4. p \in Offers =>
          /\ [a EXCEPT !.peer = c].pc = a.pc /\ [a EXCEPT !.gone = TRUE].pc = a.pc
          /\ [a EXCEPT !.out = TRUE].pc = a.pc
          /\ [a EXCEPT !.pc = "ending", !.end = "released", !.gone = TRUE].pc = "ending"
    <3> HIDE DEF a
    <3> QED BY <2>3 DEF Endpoint
  <2>5. p \in Offers \/ client[c].at = "away" \/ client[c].at = "removing"
    BY Parts DEF IInv, Pipes, Connection
  <2>6. CASE OpenPipe(c)
    <3>1. bk' = [bk EXCEPT !.at[p] = [a EXCEPT !.peer = c]]
      BY <2>6 DEF OpenPipe, At
    <3> QED BY <2>2, <2>4, <2>5, <2>6, <3>1 DEF OpenPipe
  <2>7. CASE Leave(c)
    <3>1. bk' = bk \/ bk' = [bk EXCEPT !.at[p] = [a EXCEPT !.gone = TRUE]]
      BY <2>7 DEF Leave, At
    <3> QED BY <2>2, <2>4, <2>5, <2>7, <3>1 DEF Leave, At
  <2>8. CASE Submit(c)
    <3>1. bk' = [bk EXCEPT !.at[p] = [a EXCEPT !.out = TRUE]]
      BY <2>8 DEF Submit, At
    <3> QED BY <2>2, <2>4, <2>5, <2>8, <3>1 DEF Submit, Served
  <2>9. CASE Release(c)
    <3>1. bk' = [bk EXCEPT !.at[p] = [a EXCEPT !.pc = "ending", !.end = "released", !.gone = TRUE]]
      BY <2>9 DEF Release, At
    <3> QED BY <2>2, <2>4, <2>5, <2>9, <3>1 DEF Release, Served
  <2> QED BY <1>15, <2>1, <2>6, <2>7, <2>8, <2>9
<1>16. bk' # bk
  BY DEF At
<1>17. ASSUME NEW s \in Sessions,
              Call(s) \/ StartArm(s) \/ StartDisarm(s) \/ PollStatus(s) \/ CloseGate(s) \/ Outcome(s)
       PROVE  FALSE
  BY <1>3, <1>4, <1>5, <1>16, <1>17
  DEF Call, StartArm, StartDisarm, CloseGate, Outcome, Armed, DisarmOffer, Unregister
<1>18. ASSUME NEW p \in Offers, Thread(p) PROVE FALSE
  BY <1>7, <1>9, <1>12, <1>13, <1>11, <1>18
  DEF Thread, Accept, NoClaim, Refuse, Reply, StopServing, Drain, DrainGivesUp, Quitting, Goto
<1>19. ASSUME NEW p \in Offers, NEW good \in BOOLEAN, ReadClaim(p, good) PROVE Claimable(o)
  <2>1. CASE ClaimGranted(p)
    BY <1>14, <2>1 DEF ClaimGranted
  <2>2. CASE ClaimRefused(p, good)
    BY <1>9, <2>2 DEF ClaimRefused
  <2> QED BY <1>19, <2>1, <2>2 DEF ReadClaim
<1>20. ASSUME NEW c \in Clients, \/ Launch(c) \/ RemoveRecord(c) \/ OpenPipe(c) \/ Leave(c)
                                  \/ Submit(c) \/ Consume(c) \/ FindClosed(c) \/ Release(c)
       PROVE  FALSE
  BY <1>15, <1>16, <1>20 DEF Launch, Consume, FindClosed
<1> QED
  BY <1>6, <1>10, <1>17, <1>18, <1>19, <1>20 DEF Next

(* Once a disarm has returned, no offer made before it is claimed. *)
THEOREM DisarmRevokes == Spec => DisarmedIsRevoked
<1>1. IInv /\ [Next]_vars =>
        [\A o \in used.revoked : At(o).pc = "claim" => bk'.at[o].pc # "marking"]_vars
  <2> SUFFICES ASSUME IInv, Next, NEW o \in used.revoked, At(o).pc = "claim"
      PROVE  bk'.at[o].pc # "marking"
    BY DEF vars
  <2>1. o \in Offers
    BY DEF IInv, TypeOK
  <2>2. ~Claimable(o)
    BY <2>1, Parts DEF IInv, Revoked, Claimable
  <2> QED BY <2>1, <2>2, MarkingLemma
<1> QED BY <1>1, Invariance, PTL DEF Spec, DisarmedIsRevoked
=============================================================================
