----------------------- MODULE StorageAdmissionProofs -----------------------
(***************************************************************************)
(* Safety of the capacity owner for every set of threads, every limit,     *)
(* every size and every surroundings.                                      *)
(***************************************************************************)
EXTENDS StorageAdmission, FiniteSetTheorems, TLAPS

(* The shape of everything; files are finite in number.                    *)
Boundaries == {"publication", "save"}

Places ==
  {"idle", "scan", "observe", "act", "write", "complete", "commit", "drain_publication",
   "drain_save", "close_publication", "close_save", "close_ledger", "close_lease"}

States == {"none", "open", "reserved", "writing", "completed", "cancelled", "uncertain"}

Files == (Threads \X Nat) \cup {Stranger}

Inventories == [Purposes -> SUBSET Files]

EntryType == [state : States, purpose : Purposes, est : Nat, old : SUBSET Files]

LedgerType ==
  [closed : BOOLEAN, invalid : BOOLEAN, active : Threads \cup {Nobody},
   entry : [Threads -> EntryType], files : Inventories, reserved : [Purposes -> Int],
   observed : [Purposes -> Int], uncertain : [Purposes -> Nat]]

OwnType ==
  [invalid : BOOLEAN, closed : BOOLEAN, revoking : BOOLEAN, revoked : SUBSET Boundaries,
   lease : {"held", "released", "uncertain"}, world : Worlds]

ThreadType ==
  [at : Places, why : Refreshing \cup {"none"}, seen : Inventories, revisions : Nat]

Finite(files) == \A p \in Purposes : IsFiniteSet(files[p])

Typed ==
  /\ own \in OwnType /\ disk \in Inventories
  /\ slot \in Threads \cup {Nobody} /\ tokens \in [Boundaries -> SUBSET Threads]
  /\ th \in [Threads -> ThreadType]
  /\ Finite(disk) /\ \A t \in Threads : Finite(th[t].seen)

Holding(l, p, states) ==
  {t \in Threads : l.entry[t].purpose = p /\ l.entry[t].state \in states}

Open == {"reserved", "writing"}

(* The totals of a ledger are what its entries say.                        *)
Balanced(l) ==
  \A p \in Purposes :
    /\ l.reserved[p] = Estimated(l, Holding(l, p, Open))
    /\ p \in Assets => l.uncertain[p] = Retained + Estimated(l, Holding(l, p, {"uncertain"}))

(* The write in progress is the active one; what is uncertain ends the     *)
(* ledger; a journal replaces its own file only.                           *)
EntryOK(l, t) ==
  LET e == l.entry[t]
  IN  /\ e.state = "writing" <=> l.active = t
      /\ e.state = "uncertain" => ~LedgerLive(l)
      /\ e.state = "reserved" => t \notin Journals
      /\ \A f \in e.old : f[1] = t
      /\ t \notin Journals => e.old = {}
      /\ t \in Journals /\ e.state = "writing" =>
           /\ e.purpose = "journal"
           /\ LedgerLive(l) => e.old = {f \in l.files["journal"] : f[1] = t}

(* What was observed is what the files are, within the limits. *)
Observed(l) == \A p \in Purposes : l.observed[p] = Size(l.files[p])

Limits(l) ==
  /\ \A p \in Purposes : Total(l, p) <= Limit
  /\ Total(l, "temporary") + Total(l, "promoted") <= Shared

LedgerOK(l) ==
  /\ l \in LedgerType /\ Finite(l.files) /\ Balanced(l)
  /\ \A t \in Threads : EntryOK(l, t)
  /\ LedgerLive(l) => Observed(l) /\ Limits(l)

(* A thread finds its entry as it needs it, or retained.                   *)
Refreshes(t) == th[t].at \in {"scan", "observe", "act"}
Writes(t) == th[t].at \in {"write", "complete", "commit"}

Finds(t, states) == led.entry[t].state \in states

Place(t) ==
  /\ Refreshes(t) /\ th[t].why = "begin" => Finds(t, {"none"})
  /\ Refreshes(t) /\ th[t].why = "reserve" => Finds(t, {"open"}) /\ t \notin Journals
  /\ Refreshes(t) /\ th[t].why = "admit" =>
       IF t \in Journals THEN Finds(t, {"open", "completed"}) ELSE Finds(t, {"reserved", "uncertain"})
  /\ Writes(t) => Finds(t, {"writing", "uncertain"})

PlacesOK == \A t \in Threads : Place(t)

(* The refresh slot is held from the scan to the observation, and on to    *)
(* the admission.                                                          *)
Slotted(t) ==
  \/ th[t].at \in {"scan", "observe"}
  \/ th[t].at = "act" /\ th[t].why = "admit"

SlotOK == \A t \in Threads : Slotted(t) => slot = t

(* A file the ledger does not know is of a write in progress, or of one    *)
(* that is retained; what a completing writer scanned has its file.        *)
FileOf(t, p, f) ==
  /\ \/ f \in led.files[p]
     \/ led.entry[t].state = "uncertain"
     \/ led.entry[t].state = "writing" /\ th[t].at # "write"
  /\ th[t].at = "commit" => f \in th[t].seen[p]

FilesOf(t) == \A p \in Purposes : \A f \in disk[p] : f[1] = t /\ f # Stranger => FileOf(t, p, f)

FilesOK == \A t \in Threads : FilesOf(t)

(* A close that got past a boundary left nobody behind it.                 *)
ShutPublication == "publication" \in own.revoked /\ tokens["publication"] = {}
ShutSave == "save" \in own.revoked /\ tokens["save"] = {}

Closing(t) ==
  /\ th[t].at \in {"close_save", "close_ledger", "close_lease"} => ShutPublication
  /\ th[t].at \in {"close_ledger", "close_lease"} => ShutSave
  /\ th[t].at = "close_lease" => own.closed

ClosingOK == \A t \in Threads : Closing(t)

(* What a writer made of the files the ledger knows.                       *)
Wrote(t) ==
  LET e == led.entry[t]
  IN  \E n \in 1 .. e.est :
        disk = [led.files EXCEPT ![e.purpose] = (@ \ e.old) \cup {<<t, n>>}]

(* Left alone and not closed the owner is valid, and the files are those   *)
(* the ledger knows, but for what the active write made.                   *)
Alone == ~Foreign /\ ~Faults /\ ~own.closed

Known ==
  /\ OwnerLive
  /\ led.active = Nobody => disk = led.files
  /\ \A p \in Purposes : led.files[p] \subseteq Threads \X Nat

AloneAt(t) ==
  /\ Writes(t) <=> led.active = t
  /\ Slotted(t) => led.active = Nobody
  /\ th[t].at = "observe" => th[t].seen = led.files
  /\ th[t].at = "write" => disk = led.files
  /\ th[t].at \in {"complete", "commit"} => Wrote(t)
  /\ th[t].at = "commit" => th[t].seen = disk
  /\ t \notin Journals /\ led.entry[t].state # "completed" =>
       \A p \in Purposes : \A f \in led.files[p] : f[1] # t

AloneOK == Alone => Known /\ \A t \in Threads : AloneAt(t)

IInv ==
  Typed /\ LedgerOK(led) /\ PlacesOK /\ SlotOK /\ FilesOK /\ ClosingOK /\ AloneOK

-----------------------------------------------------------------------------
(* Sums.  The recursion of the library's fold is resolved by looking at a  *)
(* smallest set it goes wrong for.                                         *)

Some(s) == CHOOSE x \in s : TRUE

(* g sums f over every subset of S. *)
IsSum(f, S, g) ==
  g = [s \in SUBSET S |-> IF s = {} THEN 0 ELSE f[Some(s)] + g[s \ {Some(s)}]]

SumOf(f, S) == SumFunctionOnSet(f, S)

(* A property of subsets that fails, fails for a smallest one. *)
LEMMA Smallest ==
  ASSUME NEW S, IsFiniteSet(S), NEW T \in SUBSET (SUBSET S), T # {}
  PROVE  \E s \in T : \A u \in SUBSET s : u # s => u \notin T
<1>1. FiniteSubsetsOf(S) = SUBSET S BY FS_FiniteSubsetsOfFinite
<1>2. IsWellFoundedOn(StrictSubsetOrdering(S), SUBSET S)
  BY <1>1, FS_StrictSubsetOrderingWellFounded
<1>3. PICK s \in T : \A u \in T : ~(<<u, s>> \in StrictSubsetOrdering(S)) BY <1>2, WFMin
<1>4. ASSUME NEW u \in SUBSET s, u # s PROVE u \notin T
  BY <1>3, <1>4 DEF StrictSubsetOrdering
<1> QED BY <1>4

(* What the library's fold is. *)
LEMMA SumIs == ASSUME NEW f, NEW S PROVE SumOf(f, S) = (CHOOSE g : IsSum(f, S, g))[S]
BY DEF SumOf, SumFunctionOnSet, FoldFunctionOnSet, MapThenFoldSet, IsSum, Some

(* A nonempty set has its element taken out.                               *)
LEMMA SomeIn == ASSUME NEW s, s # {} PROVE Some(s) \in s /\ s \ {Some(s)} \in SUBSET s /\ s \ {Some(s)} # s
BY DEF Some

(* There is one way to sum. *)
LEMMA SumUnique ==
  ASSUME NEW f, NEW S, IsFiniteSet(S), NEW g, NEW h, IsSum(f, S, g), IsSum(f, S, h)
  PROVE  g = h
<1> DEFINE T == {s \in SUBSET S : g[s] # h[s]}
<1>1. SUFFICES ASSUME T # {} PROVE FALSE BY DEF IsSum
<1>2. PICK s \in T : \A u \in SUBSET s : u # s => u \notin T
  <2>1. T \in SUBSET (SUBSET S) OBVIOUS
  <2> HIDE DEF T
  <2> QED BY <1>1, <2>1, Smallest
<1>3. s # {} BY <1>2 DEF IsSum
<1>4. Some(s) \in s /\ s \ {Some(s)} \in SUBSET S /\ s \ {Some(s)} \notin T BY <1>2, <1>3, SomeIn
<1>5. g[s] = f[Some(s)] + g[s \ {Some(s)}] BY <1>2, <1>3 DEF IsSum
<1>6. h[s] = f[Some(s)] + h[s \ {Some(s)}] BY <1>2, <1>3 DEF IsSum
<1> QED BY <1>2, <1>4, <1>5, <1>6

(* A sum over S sums over its subsets. *)
LEMMA SumRestricts ==
  ASSUME NEW f, NEW S, NEW g, IsSum(f, S, g), NEW W \in SUBSET S
  PROVE  IsSum(f, W, [s \in SUBSET W |-> g[s]])
<1> DEFINE h == [s \in SUBSET W |-> g[s]]
<1>1. ASSUME NEW s \in SUBSET W
      PROVE  h[s] = IF s = {} THEN 0 ELSE f[Some(s)] + h[s \ {Some(s)}]
  <2>1. CASE s = {} BY <2>1 DEF IsSum
  <2>2. CASE s # {}
    <3>1. g[s] = f[Some(s)] + g[s \ {Some(s)}] BY <2>2 DEF IsSum
    <3>2. s \ {Some(s)} \in SUBSET W OBVIOUS
    <3> QED BY <2>2, <3>1, <3>2
  <2> QED BY <2>1, <2>2
<1> QED BY <1>1 DEF IsSum

(* Where there is a way to sum, it takes one element out. *)
LEMMA SumTakes ==
  ASSUME NEW f, NEW S, IsFiniteSet(S), S # {}, NEW g, IsSum(f, S, g)
  PROVE  SumOf(f, S) = f[Some(S)] + SumOf(f, S \ {Some(S)})
<1> DEFINE W == S \ {Some(S)}
           h == [s \in SUBSET W |-> g[s]]
           k == CHOOSE j : IsSum(f, S, j)
           m == CHOOSE j : IsSum(f, W, j)
<1>1. IsSum(f, W, h) BY SumRestricts
<1>2. IsFiniteSet(W) BY FS_Subset
<1>3. IsSum(f, S, k) /\ IsSum(f, W, m) BY <1>1
<1>4. k = g /\ m = h BY <1>1, <1>2, <1>3, SumUnique
<1>5. SumOf(f, S) = k[S] /\ SumOf(f, W) = m[W] BY SumIs
<1>6. g[S] = f[Some(S)] + g[W] BY DEF IsSum
<1>7. h[W] = g[W] OBVIOUS
<1> QED BY <1>4, <1>5, <1>6, <1>7

(* There is a way to sum over every finite set. *)
LEMMA SumExists == ASSUME NEW f, NEW S, IsFiniteSet(S) PROVE \E g : IsSum(f, S, g)
<1> DEFINE T == {s \in SUBSET S : \A g : ~IsSum(f, s, g)}
<1>1. SUFFICES ASSUME T # {} PROVE FALSE OBVIOUS
<1>2. PICK s \in T : \A u \in SUBSET s : u # s => u \notin T
  <2>1. T \in SUBSET (SUBSET S) OBVIOUS
  <2> HIDE DEF T
  <2> QED BY <1>1, <2>1, Smallest
<1> DEFINE g == [u \in SUBSET s |-> IF u = {} THEN 0 ELSE f[Some(u)] + SumOf(f, u \ {Some(u)})]
<1>3. ASSUME NEW u \in SUBSET s, u # s PROVE g[u] = SumOf(f, u)
  <2>1. PICK h : IsSum(f, u, h) BY <1>2, <1>3
  <2>2. IsFiniteSet(u) BY FS_Subset
  <2>3. CASE u = {}
    <3> DEFINE k == CHOOSE j : IsSum(f, u, j)
    <3>1. IsSum(f, u, k) BY <2>1
    <3>2. k[u] = 0 BY <2>3, <3>1 DEF IsSum
    <3> QED BY <2>3, <3>2, SumIs
  <2>4. CASE u # {} BY <2>1, <2>2, <2>4, SumTakes
  <2> QED BY <2>3, <2>4
<1>4. ASSUME NEW u \in SUBSET s
      PROVE  g[u] = IF u = {} THEN 0 ELSE f[Some(u)] + g[u \ {Some(u)}]
  <2>1. CASE u = {} BY <2>1
  <2>2. CASE u # {}
    <3>1. u \ {Some(u)} \in SUBSET s /\ u \ {Some(u)} # s BY <2>2, SomeIn
    <3>2. g[u \ {Some(u)}] = SumOf(f, u \ {Some(u)}) BY <1>3, <3>1
    <3> QED BY <2>2, <3>2
  <2> QED BY <2>1, <2>2
<1>5. IsSum(f, s, g) BY <1>4 DEF IsSum
<1> QED BY <1>2, <1>5

(* A sum is over nothing 0, else one element's value and the sum of the    *)
(* rest.                                                                   *)
LEMMA SumUnfolds ==
  ASSUME NEW f, NEW S, IsFiniteSet(S)
  PROVE  /\ S = {} => SumOf(f, S) = 0
         /\ S # {} => SumOf(f, S) = f[Some(S)] + SumOf(f, S \ {Some(S)})
<1>1. PICK g : IsSum(f, S, g) BY SumExists
<1>2. S # {} => SumOf(f, S) = f[Some(S)] + SumOf(f, S \ {Some(S)}) BY <1>1, SumTakes
<1>3. ASSUME S = {} PROVE SumOf(f, S) = 0
  <2> DEFINE k == CHOOSE j : IsSum(f, S, j)
  <2>1. IsSum(f, S, k) BY <1>1
  <2>2. k[S] = 0 BY <1>3, <2>1 DEF IsSum
  <2> QED BY <2>2, SumIs
<1> QED BY <1>2, <1>3

(* Sums of numbers are numbers. *)
LEMMA SumNat ==
  ASSUME NEW f, NEW S, IsFiniteSet(S), \A x \in S : f[x] \in Nat
  PROVE  SumOf(f, S) \in Nat
<1> DEFINE T == {s \in SUBSET S : SumOf(f, s) \notin Nat}
<1>1. SUFFICES ASSUME T # {} PROVE FALSE OBVIOUS
<1>2. PICK s \in T : \A u \in SUBSET s : u # s => u \notin T
  <2>1. T \in SUBSET (SUBSET S) OBVIOUS
  <2> HIDE DEF T
  <2> QED BY <1>1, <2>1, Smallest
<1>3. IsFiniteSet(s) BY <1>2, FS_Subset
<1>4. s # {}
  <2>1. s = {} => SumOf(f, s) = 0 BY <1>3, SumUnfolds
  <2>2. SumOf(f, s) \notin Nat BY <1>2
  <2> QED BY <2>1, <2>2
<1>5. SumOf(f, s) = f[Some(s)] + SumOf(f, s \ {Some(s)}) BY <1>3, <1>4, SumUnfolds
<1>6. Some(s) \in S /\ SumOf(f, s \ {Some(s)}) \in Nat BY <1>2, <1>4, SomeIn
<1> QED BY <1>2, <1>5, <1>6

(* Any element can be taken out first. *)
LEMMA SumTakesAny ==
  ASSUME NEW f, NEW S, IsFiniteSet(S), \A x \in S : f[x] \in Nat, NEW x \in S
  PROVE  SumOf(f, S) = f[x] + SumOf(f, S \ {x})
<1> DEFINE T == {s \in SUBSET S : \E y \in s : SumOf(f, s) # f[y] + SumOf(f, s \ {y})}
<1>1. SUFFICES ASSUME T # {} PROVE FALSE
  <2>1. S \in SUBSET S /\ S \notin T OBVIOUS
  <2> QED BY <2>1
<1>2. PICK s \in T : \A u \in SUBSET s : u # s => u \notin T
  <2>1. T \in SUBSET (SUBSET S) OBVIOUS
  <2> HIDE DEF T
  <2> QED BY <1>1, <2>1, Smallest
<1>3. PICK y \in s : SumOf(f, s) # f[y] + SumOf(f, s \ {y}) BY <1>2
<1>4. s \in SUBSET S /\ \A u \in SUBSET s : IsFiniteSet(u) BY <1>2, FS_Subset
<1> DEFINE c == Some(s)
           r == s \ {c}
           w == s \ {y}
           v == r \ {y}
<1>5. c \in s BY <1>3, SomeIn
<1>6. SumOf(f, s) = f[c] + SumOf(f, r)
  <2>1. IsFiniteSet(s) BY <1>4
  <2> QED BY <1>3, <2>1, SumUnfolds
<1> HIDE DEF c
<1>7. c # y BY <1>3, <1>6
<1>8. SumOf(f, r) = f[y] + SumOf(f, v)
  <2>1. r \in SUBSET S /\ r \in SUBSET s /\ r # s /\ y \in r BY <1>3, <1>4, <1>5, <1>7
  <2> QED BY <1>2, <2>1
<1>9. SumOf(f, w) = f[c] + SumOf(f, v)
  <2>1. w \in SUBSET S /\ w \in SUBSET s /\ w # s /\ c \in w BY <1>3, <1>4, <1>5, <1>7
  <2>2. w \ {c} = v OBVIOUS
  <2> HIDE DEF w, v
  <2> QED BY <1>2, <2>1, <2>2
<1>10. SumOf(f, v) \in Nat
  <2>1. v \in SUBSET s /\ \A z \in v : f[z] \in Nat BY <1>4
  <2> HIDE DEF v
  <2> QED BY <1>4, <2>1, SumNat
<1>11. f[c] \in Nat /\ f[y] \in Nat BY <1>3, <1>4, <1>5
<1> HIDE DEF r, w, v
<1>12. SumOf(f, s) = f[y] + SumOf(f, w) BY <1>6, <1>8, <1>9, <1>10, <1>11
<1> QED BY <1>3, <1>12 DEF w

(* A sum of one value. *)
LEMMA SumOne == ASSUME NEW f, NEW x, f[x] \in Nat PROVE SumOf(f, {x}) = f[x]
<1>1. IsFiniteSet({x}) /\ IsFiniteSet({}) BY FS_Singleton, FS_EmptySet
<1>2. SumOf(f, {}) = 0 BY <1>1, SumUnfolds
<1>3. SumOf(f, {x}) = f[x] + SumOf(f, {x} \ {x}) BY <1>1, SumTakesAny
<1>4. {x} \ {x} = {} OBVIOUS
<1> QED BY <1>2, <1>3, <1>4

(* Functions that agree have the same sum. *)
LEMMA SumSame ==
  ASSUME NEW f, NEW g, NEW S, IsFiniteSet(S), \A x \in S : f[x] = g[x]
  PROVE  SumOf(f, S) = SumOf(g, S)
<1> DEFINE T == {s \in SUBSET S : SumOf(f, s) # SumOf(g, s)}
<1>1. SUFFICES ASSUME T # {} PROVE FALSE
  <2>1. S \in SUBSET S /\ S \notin T OBVIOUS
  <2> QED BY <2>1
<1>2. PICK s \in T : \A u \in SUBSET s : u # s => u \notin T
  <2>1. T \in SUBSET (SUBSET S) OBVIOUS
  <2> HIDE DEF T
  <2> QED BY <1>1, <2>1, Smallest
<1>3. s \in SUBSET S /\ SumOf(f, s) # SumOf(g, s) /\ IsFiniteSet(s) BY <1>2, FS_Subset
<1>4. s # {} BY <1>3, SumUnfolds
<1> DEFINE r == s \ {Some(s)}
<1>5. Some(s) \in s /\ r \in SUBSET s /\ r # s BY <1>4, SomeIn
<1>6. SumOf(f, s) = f[Some(s)] + SumOf(f, r) /\ SumOf(g, s) = g[Some(s)] + SumOf(g, r)
  BY <1>3, <1>4, SumUnfolds
<1> HIDE DEF r
<1>7. SumOf(f, r) = SumOf(g, r) BY <1>2, <1>3, <1>5
<1>8. f[Some(s)] = g[Some(s)] BY <1>3, <1>5
<1> QED BY <1>3, <1>6, <1>7, <1>8

(* The sum over two sets that have nothing in common. *)
LEMMA SumBoth ==
  ASSUME NEW f, NEW A, NEW B, IsFiniteSet(A), IsFiniteSet(B), A \cap B = {},
         \A x \in A \cup B : f[x] \in Nat
  PROVE  SumOf(f, A \cup B) = SumOf(f, A) + SumOf(f, B)
<1> DEFINE T == {s \in SUBSET A : SumOf(f, s \cup B) # SumOf(f, s) + SumOf(f, B)}
<1>1. SUFFICES ASSUME T # {} PROVE FALSE
  <2>1. A \in SUBSET A /\ A \notin T OBVIOUS
  <2> QED BY <2>1
<1>2. PICK s \in T : \A u \in SUBSET s : u # s => u \notin T
  <2>1. T \in SUBSET (SUBSET A) OBVIOUS
  <2> HIDE DEF T
  <2> QED BY <1>1, <2>1, Smallest
<1>3. s \in SUBSET A /\ SumOf(f, s \cup B) # SumOf(f, s) + SumOf(f, B) /\ IsFiniteSet(s)
  BY <1>2, FS_Subset
<1>4. SumOf(f, B) \in Nat /\ SumOf(f, s) \in Nat
  <2>1. SumOf(f, B) \in Nat BY SumNat
  <2>2. SumOf(f, s) \in Nat BY <1>3, SumNat
  <2> QED BY <2>1, <2>2
<1>5. s # {}
  <2>1. s = {} => SumOf(f, s) = 0 BY <1>3, SumUnfolds
  <2>2. s = {} => s \cup B = B OBVIOUS
  <2> HIDE DEF T
  <2>3. s = {} => SumOf(f, s \cup B) = SumOf(f, B) BY <2>2
  <2> QED BY <1>3, <1>4, <2>1, <2>3
<1>6. PICK c \in s : TRUE BY <1>5
<1> DEFINE r == s \ {c}
           u == s \cup B
<1>7. IsFiniteSet(u) /\ IsFiniteSet(r) /\ \A x \in u : f[x] \in Nat
  <2>1. IsFiniteSet(u) BY <1>3, FS_Union
  <2>2. IsFiniteSet(r) BY <1>3, FS_Subset
  <2> QED BY <1>3, <2>1, <2>2
<1>8. u \ {c} = r \cup B BY <1>3, <1>6
<1>9. c \in u OBVIOUS
<1> HIDE DEF u
<1>10. SumOf(f, u) = f[c] + SumOf(f, r \cup B) BY <1>7, <1>8, <1>9, SumTakesAny
<1>11. SumOf(f, s) = f[c] + SumOf(f, r) BY <1>3, <1>6, SumTakesAny
<1>12. SumOf(f, r \cup B) = SumOf(f, r) + SumOf(f, B)
  <2>1. r \in SUBSET A /\ r \in SUBSET s /\ r # s BY <1>3, <1>6
  <2> HIDE DEF r
  <2> QED BY <1>2, <2>1
<1>13. SumOf(f, r) \in Nat /\ f[c] \in Nat
  <2>1. \A x \in r : f[x] \in Nat BY <1>3
  <2> HIDE DEF r
  <2> QED BY <1>3, <1>7, <2>1, SumNat
<1> HIDE DEF r
<1>14. SumOf(f, u) = SumOf(f, s) + SumOf(f, B) BY <1>4, <1>10, <1>11, <1>12, <1>13
<1> QED BY <1>3, <1>14 DEF u

(* The sum of a part is at most that of the whole. *)
LEMMA SumPart ==
  ASSUME NEW f, NEW S, IsFiniteSet(S), \A x \in S : f[x] \in Nat, NEW A \in SUBSET S
  PROVE  /\ SumOf(f, S) = SumOf(f, A) + SumOf(f, S \ A)
         /\ SumOf(f, A) \in Nat /\ SumOf(f, S \ A) \in Nat
<1> DEFINE B == S \ A
<1>1. IsFiniteSet(A) /\ IsFiniteSet(B) BY FS_Subset
<1>2. A \cup B = S /\ A \cap B = {} OBVIOUS
<1>3. \A x \in A \cup B : f[x] \in Nat OBVIOUS
<1> HIDE DEF B
<1>4. SumOf(f, A \cup B) = SumOf(f, A) + SumOf(f, B) BY <1>1, <1>2, <1>3, SumBoth
<1>5. SumOf(f, A) \in Nat /\ SumOf(f, B) \in Nat BY <1>1, <1>3, SumNat
<1> QED BY <1>2, <1>4, <1>5 DEF B

-----------------------------------------------------------------------------
(* The books of one ledger. *)

(* The constants are numbers. *)
LEMMA Constants ==
  /\ IsFiniteSet(Threads) /\ Nobody \notin Threads
  /\ MaxSize \in Nat /\ Limit \in Nat /\ Shared \in Nat /\ Retained \in Nat
  /\ 2 * Retained <= Shared /\ Retained <= Limit
  /\ Worlds \subseteq [journals : SUBSET Threads, foreign : BOOLEAN, faults : BOOLEAN]
BY CapacityAssumption DEF CapacityAssumption

(* An estimate sum over some threads is a number. *)
LEMMA EstimatedNat ==
  ASSUME NEW l \in LedgerType, NEW threads \in SUBSET Threads
  PROVE  IsFiniteSet(threads) /\ Estimated(l, threads) \in Nat
<1> DEFINE f == [t \in Threads |-> l.entry[t].est]
<1>1. IsFiniteSet(threads) BY Constants, FS_Subset
<1>2. \A t \in threads : f[t] \in Nat BY DEF LedgerType, EntryType
<1>3. Estimated(l, threads) = SumOf(f, threads) BY DEF Estimated, SumOf
<1> HIDE DEF f
<1> QED BY <1>1, <1>2, <1>3, SumNat

(* Ledgers with the same estimates of these threads have the same sum. *)
LEMMA EstimatedSame ==
  ASSUME NEW l \in LedgerType, NEW m \in LedgerType, NEW threads \in SUBSET Threads,
         \A t \in threads : m.entry[t].est = l.entry[t].est
  PROVE  Estimated(m, threads) = Estimated(l, threads)
<1> DEFINE f == [t \in Threads |-> l.entry[t].est]
           g == [t \in Threads |-> m.entry[t].est]
<1>1. IsFiniteSet(threads) BY EstimatedNat
<1>2. \A t \in threads : g[t] = f[t] OBVIOUS
<1>3. Estimated(l, threads) = SumOf(f, threads) /\ Estimated(m, threads) = SumOf(g, threads)
  BY DEF Estimated, SumOf
<1> HIDE DEF f, g
<1> QED BY <1>1, <1>2, <1>3, SumSame

(* One thread's part of an estimate sum. *)
Share(l, t, p, states) ==
  IF l.entry[t].purpose = p /\ l.entry[t].state \in states THEN l.entry[t].est ELSE 0

(* An estimate sum with one thread's part taken out. *)
LEMMA ShareTakes ==
  ASSUME NEW l \in LedgerType, NEW t \in Threads, NEW p, NEW states
  PROVE  /\ Estimated(l, Holding(l, p, states)) =
              Share(l, t, p, states) + Estimated(l, Holding(l, p, states) \ {t})
         /\ Share(l, t, p, states) \in Nat
         /\ Estimated(l, Holding(l, p, states) \ {t}) \in Nat
         /\ Estimated(l, Holding(l, p, states)) \in Nat
<1> DEFINE f == [u \in Threads |-> l.entry[u].est]
           H == Holding(l, p, states)
<1>1. H \in SUBSET Threads /\ IsFiniteSet(H)
  <2>1. H \in SUBSET Threads BY DEF Holding
  <2> QED BY <2>1, Constants, FS_Subset
<1>2. Estimated(l, H) \in Nat /\ Estimated(l, H \ {t}) \in Nat
  <2>1. H \ {t} \in SUBSET Threads BY <1>1
  <2> QED BY <1>1, <2>1, EstimatedNat
<1>3. Estimated(l, H) = SumOf(f, H) /\ Estimated(l, H \ {t}) = SumOf(f, H \ {t})
  BY DEF Estimated, SumOf
<1>4. t \in H <=> l.entry[t].purpose = p /\ l.entry[t].state \in states BY DEF Holding
<1>5. \A u \in H : f[u] \in Nat BY <1>1 DEF LedgerType, EntryType
<1>6. f[t] = l.entry[t].est /\ f[t] \in Nat BY DEF LedgerType, EntryType
<1> HIDE DEF f, H
<1>7. CASE t \in H
  <2>1. SumOf(f, H) = f[t] + SumOf(f, H \ {t}) BY <1>1, <1>5, <1>7, SumTakesAny
  <2> QED BY <1>2, <1>3, <1>4, <1>6, <1>7, <2>1 DEF Share, H
<1>8. CASE t \notin H
  <2>1. H \ {t} = H BY <1>8
  <2>2. Share(l, t, p, states) = 0 BY <1>4, <1>8 DEF Share
  <2>3. Estimated(l, H) = Share(l, t, p, states) + Estimated(l, H \ {t})
    BY <1>2, <2>1, <2>2
  <2> QED BY <1>2, <2>2, <2>3 DEF H
<1> QED BY <1>7, <1>8

(* What the other threads have is not touched. *)
LEMMA ShareMoves ==
  ASSUME NEW l \in LedgerType, NEW m \in LedgerType, NEW t \in Threads, NEW p, NEW states,
         \A u \in Threads \ {t} : m.entry[u] = l.entry[u]
  PROVE  Estimated(m, Holding(m, p, states)) =
           Estimated(l, Holding(l, p, states)) - Share(l, t, p, states) + Share(m, t, p, states)
<1> DEFINE H == Holding(l, p, states) \ {t}
           K == Holding(m, p, states) \ {t}
<1>1. H = K /\ H \in SUBSET Threads BY DEF Holding
<1>2. \A u \in H : m.entry[u].est = l.entry[u].est BY DEF Holding
<1> HIDE DEF H, K
<1>3. Estimated(m, H) = Estimated(l, H) BY <1>1, <1>2, EstimatedSame
<1>4. /\ Estimated(l, Holding(l, p, states)) = Share(l, t, p, states) + Estimated(l, H)
      /\ Estimated(m, Holding(m, p, states)) = Share(m, t, p, states) + Estimated(m, K)
      /\ Share(l, t, p, states) \in Nat /\ Share(m, t, p, states) \in Nat
      /\ Estimated(l, H) \in Nat
  BY ShareTakes DEF H, K
<1> QED BY <1>1, <1>3, <1>4

(* Sizes of finite sets of files are numbers, and that of a part is at     *)
(* most that of the whole.                                                 *)
LEMMA SizePart ==
  ASSUME NEW files, IsFiniteSet(files), \A f \in files : f[2] \in Nat,
         NEW part \in SUBSET files
  PROVE  /\ Size(files) = Size(part) + Size(files \ part)
         /\ Size(files) \in Nat /\ Size(part) \in Nat /\ Size(files \ part) \in Nat
<1> DEFINE f == [x \in files |-> x[2]]
           g == [x \in part |-> x[2]]
           rest == files \ part
           h == [x \in rest |-> x[2]]
<1>1. Size(files) = SumOf(f, files) /\ Size(part) = SumOf(g, part) /\ Size(rest) = SumOf(h, rest)
  BY DEF Size, SumFunction, SumOf
<1>2. IsFiniteSet(part) /\ IsFiniteSet(rest) BY FS_Subset
<1>3. /\ \A x \in files : f[x] \in Nat
      /\ \A x \in part : g[x] = f[x]
      /\ \A x \in rest : h[x] = f[x]
  OBVIOUS
<1>4. rest = files \ part OBVIOUS
<1> HIDE DEF f, g, h, rest
<1>5. SumOf(g, part) = SumOf(f, part) /\ SumOf(h, rest) = SumOf(f, rest)
  BY <1>2, <1>3, SumSame
<1>6. /\ SumOf(f, files) = SumOf(f, part) + SumOf(f, rest)
      /\ SumOf(f, part) \in Nat /\ SumOf(f, rest) \in Nat
  <2>1. /\ SumOf(f, files) = SumOf(f, part) + SumOf(f, files \ part)
        /\ SumOf(f, part) \in Nat /\ SumOf(f, files \ part) \in Nat
    BY <1>3, SumPart
  <2> QED BY <1>4, <2>1
<1>7. SumOf(f, files) \in Nat BY <1>6
<1> QED BY <1>1, <1>4, <1>5, <1>6, <1>7

(* The size of one file. *)
LEMMA SizeOne == ASSUME NEW x, x[2] \in Nat PROVE Size({x}) = x[2]
<1> DEFINE f == [y \in {x} |-> y[2]]
<1>1. Size({x}) = SumOf(f, {x}) BY DEF Size, SumFunction, SumOf
<1>2. f[x] = x[2] OBVIOUS
<1> HIDE DEF f
<1> QED BY <1>1, <1>2, SumOne

(* The two asset purposes. *)
LEMMA AssetSum ==
  ASSUME NEW f, DOMAIN f = Assets, \A p \in Assets : f[p] \in Nat
  PROVE  SumFunction(f) = f["temporary"] + f["promoted"]
<1>1. SumFunction(f) = SumOf(f, Assets) BY DEF SumFunction, SumOf
<1>2. IsFiniteSet(Assets)
  <2>1. Assets = {"temporary"} \cup {"promoted"} BY DEF Assets
  <2>2. IsFiniteSet({"temporary"}) /\ IsFiniteSet({"promoted"}) BY FS_Singleton
  <2> QED BY <2>1, <2>2, FS_Union
<1>3. "temporary" \in Assets /\ Assets \ {"temporary"} = {"promoted"} BY DEF Assets
<1>4. SumOf(f, Assets) = f["temporary"] + SumOf(f, Assets \ {"temporary"})
  BY <1>2, <1>3, SumTakesAny
<1>5. SumOf(f, {"promoted"}) = f["promoted"] BY SumOne DEF Assets
<1> QED BY <1>1, <1>3, <1>4, <1>5

-----------------------------------------------------------------------------
(* The ledger's calls. *)

(* Only t's entry changes, to e.                                           *)
Turns(l, m, t, e) ==
  /\ m \in LedgerType
  /\ m.entry[t] = e /\ \A u \in Threads \ {t} : m.entry[u] = l.entry[u]

(* The books balance when the totals move by the parts of the one thread   *)
(* whose entry changes.                                                    *)
Moves(l, m, t) ==
  \A p \in Purposes :
    /\ m.reserved[p] = l.reserved[p] - Share(l, t, p, Open) + Share(m, t, p, Open)
    /\ m.uncertain[p] = l.uncertain[p] - Share(l, t, p, {"uncertain"})
                          + Share(m, t, p, {"uncertain"})

(* A ledger whose totals moved with one entry is balanced. *)
LEMMA Rebalanced ==
  ASSUME NEW l, LedgerOK(l), NEW t \in Threads, NEW m, NEW e, Turns(l, m, t, e), Moves(l, m, t)
  PROVE  Balanced(m)
<1>0. /\ l \in LedgerType /\ m \in LedgerType /\ Balanced(l)
      /\ \A u \in Threads \ {t} : m.entry[u] = l.entry[u]
  BY DEF LedgerOK, Turns
<1> SUFFICES ASSUME NEW p \in Purposes
             PROVE  /\ m.reserved[p] = Estimated(m, Holding(m, p, Open))
                    /\ p \in Assets =>
                         m.uncertain[p] = Retained + Estimated(m, Holding(m, p, {"uncertain"}))
  BY DEF Balanced
<1>1. /\ Estimated(m, Holding(m, p, Open)) =
           Estimated(l, Holding(l, p, Open)) - Share(l, t, p, Open) + Share(m, t, p, Open)
      /\ Estimated(m, Holding(m, p, {"uncertain"})) =
           Estimated(l, Holding(l, p, {"uncertain"})) - Share(l, t, p, {"uncertain"})
             + Share(m, t, p, {"uncertain"})
  BY <1>0, ShareMoves
<1>2. /\ Estimated(l, Holding(l, p, Open)) \in Nat
      /\ Estimated(l, Holding(l, p, {"uncertain"})) \in Nat
      /\ Share(l, t, p, Open) \in Nat /\ Share(m, t, p, Open) \in Nat
      /\ Share(l, t, p, {"uncertain"}) \in Nat /\ Share(m, t, p, {"uncertain"}) \in Nat
  BY <1>0, ShareTakes
<1>3. m.reserved[p] = Estimated(m, Holding(m, p, Open)) BY <1>0, <1>1 DEF Balanced, Moves
<1>4. p \in Assets => m.uncertain[p] = Retained + Estimated(m, Holding(m, p, {"uncertain"}))
  BY <1>0, <1>1, <1>2, Constants DEF Balanced, Moves
<1> QED BY <1>3, <1>4

(* Totals are numbers. *)
LEMMA Totals ==
  ASSUME NEW l, LedgerOK(l), NEW p \in Purposes
  PROVE  /\ l.reserved[p] \in Nat /\ l.uncertain[p] \in Nat
         /\ Observed(l) => l.observed[p] \in Nat /\ Total(l, p) \in Nat
<1>1. l \in LedgerType /\ Balanced(l) BY DEF LedgerOK
<1>2. l.uncertain[p] \in Nat BY <1>1 DEF LedgerType
<1>3. l.reserved[p] \in Nat
  <2>1. Holding(l, p, Open) \in SUBSET Threads BY DEF Holding
  <2> QED BY <1>1, <2>1, EstimatedNat DEF Balanced
<1>4. ASSUME Observed(l) PROVE l.observed[p] \in Nat
  <2> DEFINE files == l.files[p]
  <2>1. IsFiniteSet(files) /\ files \in SUBSET Files
    BY <1>1 DEF LedgerOK, Finite, LedgerType, Inventories
  <2>2. \A f \in files : f[2] \in Nat BY <2>1 DEF Files, Stranger
  <2>3. l.observed[p] = Size(files) BY <1>4 DEF Observed
  <2> HIDE DEF files
  <2>4. files \in SUBSET files OBVIOUS
  <2> QED BY <2>1, <2>2, <2>3, <2>4, SizePart
<1> QED BY <1>2, <1>3, <1>4 DEF Total

(* Everything but the entries, the active write and the totals.            *)
SameBase(l, m) == m.closed = l.closed /\ m.invalid = l.invalid /\ m.files = l.files

(* Where one entry changes that entry is looked at. *)
LEMMA Turned ==
  ASSUME NEW l, LedgerOK(l), NEW t \in Threads, NEW m, NEW e, Turns(l, m, t, e), Moves(l, m, t),
         Finite(m.files), EntryOK(m, t),
         \A u \in Threads \ {t} : l.active = u <=> m.active = u,
         LedgerLive(m) =>
           /\ LedgerLive(l) /\ Observed(m) /\ Limits(m)
           /\ m.files = l.files \/ m.active = Nobody
  PROVE  LedgerOK(m)
<1>1. Balanced(m) BY Rebalanced
<1>2. ASSUME NEW u \in Threads \ {t} PROVE EntryOK(m, u)
  <2>1. EntryOK(l, u) /\ m.entry[u] = l.entry[u] BY DEF LedgerOK, Turns
  <2>2. u # Nobody BY Constants
  <2> QED BY <2>1, <2>2 DEF EntryOK
<1>3. m \in LedgerType BY DEF Turns
<1> QED BY <1>1, <1>2, <1>3 DEF LedgerOK

(* begin_operation. *)
LEMMA OpenLemma ==
  ASSUME NEW l, LedgerOK(l), NEW t \in Threads, l.entry[t].state = "none",
         NEW m, m = [l EXCEPT !.entry[t].state = "open"]
  PROVE  /\ LedgerOK(m) /\ Turns(l, m, t, [l.entry[t] EXCEPT !.state = "open"])
         /\ SameBase(l, m) /\ m.active = l.active
<1>1. l \in LedgerType /\ l.entry[t] \in EntryType BY DEF LedgerOK, LedgerType
<1> DEFINE e == [l.entry[t] EXCEPT !.state = "open"]
<1>2. e \in EntryType /\ e.state = "open" /\ e.purpose = l.entry[t].purpose
      /\ e.est = l.entry[t].est /\ e.old = l.entry[t].old
  BY <1>1 DEF EntryType, States
<1>3. m = [l EXCEPT !.entry = [l.entry EXCEPT ![t] = e]] BY <1>1 DEF LedgerType
<1> HIDE DEF e
<1>4. /\ m \in LedgerType /\ m.entry[t] = e /\ \A u \in Threads \ {t} : m.entry[u] = l.entry[u]
      /\ SameBase(l, m) /\ m.active = l.active
      /\ m.reserved = l.reserved /\ m.uncertain = l.uncertain /\ m.observed = l.observed
  BY <1>1, <1>2, <1>3 DEF LedgerType, SameBase
<1>5. Turns(l, m, t, e) BY <1>4 DEF Turns
<1>6. Moves(l, m, t)
  <2>1. \A p \in Purposes :
          /\ Share(l, t, p, Open) = 0 /\ Share(m, t, p, Open) = 0
          /\ Share(l, t, p, {"uncertain"}) = 0 /\ Share(m, t, p, {"uncertain"}) = 0
    BY <1>2, <1>4 DEF Share, Open
  <2>2. \A p \in Purposes : l.reserved[p] \in Int /\ l.uncertain[p] \in Int
    BY <1>1 DEF LedgerType
  <2> QED BY <1>4, <2>1, <2>2 DEF Moves
<1>7. EntryOK(m, t)
  <2>1. EntryOK(l, t) BY DEF LedgerOK
  <2> QED BY <1>2, <1>4, <2>1 DEF EntryOK, LedgerLive, SameBase
<1>8. LedgerLive(m) => Observed(m) /\ Limits(m)
  BY <1>4 DEF LedgerOK, LedgerLive, SameBase, Observed, Limits, Total
<1>9. Finite(m.files) BY <1>4 DEF LedgerOK, SameBase
<1>10. LedgerLive(m) => LedgerLive(l) BY <1>4 DEF SameBase, LedgerLive
<1>11. LedgerOK(m) BY <1>4, <1>5, <1>6, <1>7, <1>8, <1>9, <1>10, Turned DEF SameBase
<1> QED BY <1>4, <1>5, <1>11 DEF e

(* A ledger with one entry and some of the rest changed.                   *)
Made(l, t, e, r, a, u, invalid, files, observed) ==
  [closed |-> l.closed, invalid |-> invalid, active |-> a, entry |-> [l.entry EXCEPT ![t] = e],
   files |-> files, reserved |-> r, observed |-> observed, uncertain |-> u]

Makable(l, t, e, r, a, u, invalid, files, observed) ==
  /\ l \in LedgerType /\ t \in Threads /\ e \in EntryType
  /\ r \in [Purposes -> Int] /\ a \in Threads \cup {Nobody} /\ u \in [Purposes -> Nat]
  /\ invalid \in BOOLEAN /\ files \in Inventories /\ observed \in [Purposes -> Int]

Fields(l, m, t, e, r, a, u, invalid, files, observed) ==
  /\ m \in LedgerType /\ Turns(l, m, t, e) /\ m.entry[t] = e
  /\ \A w \in Threads \ {t} : m.entry[w] = l.entry[w]
  /\ m.closed = l.closed /\ m.invalid = invalid /\ m.active = a /\ m.files = files
  /\ m.reserved = r /\ m.observed = observed /\ m.uncertain = u

(* A made ledger has the fields it was made of. *)
LEMMA Makes ==
  ASSUME NEW l, NEW t, NEW e, NEW r, NEW a, NEW u, NEW v, NEW files, NEW ob,
         Makable(l, t, e, r, a, u, v, files, ob)
  PROVE  Fields(l, Made(l, t, e, r, a, u, v, files, ob), t, e, r, a, u, v, files, ob)
<1> DEFINE m == Made(l, t, e, r, a, u, v, files, ob)
<1>0. /\ l \in LedgerType /\ t \in Threads /\ e \in EntryType
      /\ r \in [Purposes -> Int] /\ a \in Threads \cup {Nobody} /\ u \in [Purposes -> Nat]
      /\ v \in BOOLEAN /\ files \in Inventories /\ ob \in [Purposes -> Int]
  BY DEF Makable
<1>1. m.entry = [l.entry EXCEPT ![t] = e] /\ l.entry \in [Threads -> EntryType]
  BY <1>0 DEF Made, LedgerType
<1>2. m.entry[t] = e /\ \A w \in Threads \ {t} : m.entry[w] = l.entry[w] BY <1>0, <1>1
<1>4. /\ m.closed = l.closed /\ m.invalid = v /\ m.active = a /\ m.files = files
      /\ m.reserved = r /\ m.observed = ob /\ m.uncertain = u
  BY DEF Made
<1>5. l.closed \in BOOLEAN BY <1>0 DEF LedgerType
<1>6. m \in LedgerType
  <2> DEFINE entry == [l.entry EXCEPT ![t] = e]
  <2>1. entry \in [Threads -> EntryType] BY <1>0, <1>1
  <2>2. m = [closed |-> l.closed, invalid |-> v, active |-> a, entry |-> entry, files |-> files,
             reserved |-> r, observed |-> ob, uncertain |-> u]
    BY DEF Made
  <2> HIDE DEF entry, m
  <2> QED BY <1>0, <1>5, <2>1, <2>2 DEF LedgerType
<1> HIDE DEF m
<1>7. Fields(l, m, t, e, r, a, u, v, files, ob) BY <1>2, <1>4, <1>6 DEF Turns, Fields
<1> QED BY <1>7 DEF m

(* What fits keeps the limits. *)
LEMMA FitsLimits ==
  ASSUME NEW l, LedgerOK(l), LedgerLive(l), NEW p \in Purposes, NEW n, Fits(l, p, n)
  PROVE  /\ Total(l, p) + n <= Limit
         /\ p \in Assets => Total(l, "temporary") + Total(l, "promoted") + n <= Shared
<1> DEFINE f == [q \in Assets |-> Total(l, q)]
<1>1. Observed(l) BY DEF LedgerOK
<1>2. DOMAIN f = Assets /\ \A q \in Assets : f[q] \in Nat BY <1>1, Totals DEF Purposes
<1>3. f["temporary"] = Total(l, "temporary") /\ f["promoted"] = Total(l, "promoted")
  BY DEF Assets
<1>4. Total(l, p) + n <= Limit /\ (p \in Assets => SumFunction(f) + n <= Shared) BY DEF Fits
<1> HIDE DEF f
<1>5. SumFunction(f) = f["temporary"] + f["promoted"] BY <1>2, AssetSum
<1> QED BY <1>3, <1>4, <1>5

(* Room for n more in p is left by what fitted before. *)
LEMMA LimitsKept ==
  ASSUME NEW l, LedgerOK(l), LedgerLive(l), NEW p \in Purposes, NEW n \in Nat, NEW m,
         \A q \in Purposes : Total(m, q) = IF q = p THEN Total(l, q) + n ELSE Total(l, q),
         Total(l, p) + n <= Limit,
         p \in Assets => Total(l, "temporary") + Total(l, "promoted") + n <= Shared
  PROVE  Limits(m)
<1>1. Observed(l) /\ Limits(l) BY DEF LedgerOK
<1>2. \A q \in Purposes : Total(l, q) \in Nat BY <1>1, Totals
<1>3. {"temporary", "promoted"} \subseteq Purposes BY DEF Purposes, Assets
<1>4. \A q \in Purposes : Total(m, q) <= Limit BY <1>1 DEF Limits
<1>5. Total(m, "temporary") + Total(m, "promoted") <= Shared
  BY <1>1, <1>2, <1>3 DEF Limits, Assets
<1> QED BY <1>4, <1>5 DEF Limits

(* Totals that do not grow stay within the limits. *)
LEMMA LimitsLess ==
  ASSUME NEW l, LedgerOK(l), LedgerLive(l), NEW m,
         \A q \in Purposes : Total(m, q) \in Int /\ Total(m, q) <= Total(l, q)
  PROVE  Limits(m)
<1>1. Observed(l) /\ Limits(l) BY DEF LedgerOK
<1>2. \A q \in Purposes : Total(l, q) \in Nat BY <1>1, Totals
<1>3. {"temporary", "promoted"} \subseteq Purposes BY DEF Purposes, Assets
<1>4. \A q \in Purposes : Total(m, q) <= Limit BY <1>1, <1>2, Constants DEF Limits
<1>5. Total(m, "temporary") + Total(m, "promoted") <= Shared
  <2>1. /\ Total(m, "temporary") <= Total(l, "temporary") /\ Total(m, "temporary") \in Int
        /\ Total(m, "promoted") <= Total(l, "promoted") /\ Total(m, "promoted") \in Int
        /\ Total(l, "temporary") \in Nat /\ Total(l, "promoted") \in Nat
    BY <1>2, <1>3
  <2>2. Total(l, "temporary") + Total(l, "promoted") <= Shared BY <1>1 DEF Limits
  <2> QED BY <2>1, <2>2, Constants
<1> QED BY <1>4, <1>5 DEF Limits

AsReserved(l, t, p, n) == [l.entry[t] EXCEPT !.state = "reserved", !.purpose = p, !.est = n]

(* reserve. *)
LEMMA ReserveLemma ==
  ASSUME NEW l, LedgerOK(l), LedgerLive(l), NEW t \in Threads, l.entry[t].state = "open",
         t \notin Journals, NEW p \in Assets, NEW n \in Sizes, Fits(l, p, n),
         NEW m, m = Reserved(l, t, p, n)
  PROVE  /\ LedgerOK(m)
         /\ Turns(l, m, t, AsReserved(l, t, p, n))
         /\ SameBase(l, m) /\ m.active = l.active
<1>1. l \in LedgerType /\ l.entry[t] \in EntryType /\ p \in Purposes /\ n \in Nat
  BY Constants DEF LedgerOK, LedgerType, Purposes, Sizes
<1> DEFINE e == [l.entry[t] EXCEPT !.state = "reserved", !.purpose = p, !.est = n]
<1>2. e \in EntryType /\ e.state = "reserved" /\ e.purpose = p /\ e.est = n
      /\ e.old = l.entry[t].old
  BY <1>1 DEF EntryType, States
<1> DEFINE r == [l.reserved EXCEPT ![p] = @ + n]
<1>3. m = Made(l, t, e, r, l.active, l.uncertain, l.invalid, l.files, l.observed)
  BY <1>1 DEF LedgerType, Reserved, Made
<1>13. /\ r \in [Purposes -> Int]
       /\ \A q \in Purposes : r[q] = IF q = p THEN l.reserved[q] + n ELSE l.reserved[q]
  BY <1>1 DEF LedgerType
<1> HIDE DEF e, r
<1>14. Makable(l, t, e, r, l.active, l.uncertain, l.invalid, l.files, l.observed)
  BY <1>1, <1>2, <1>13 DEF LedgerType, Makable
<1>15. Fields(l, m, t, e, r, l.active, l.uncertain, l.invalid, l.files, l.observed)
  BY <1>3, <1>14, Makes
<1>4. /\ m \in LedgerType /\ m.entry[t] = e /\ \A u \in Threads \ {t} : m.entry[u] = l.entry[u]
      /\ SameBase(l, m) /\ m.active = l.active
      /\ m.uncertain = l.uncertain /\ m.observed = l.observed
      /\ \A q \in Purposes : m.reserved[q] = IF q = p THEN l.reserved[q] + n ELSE l.reserved[q]
  BY <1>13, <1>15 DEF SameBase, Fields
<1>5. Turns(l, m, t, e) BY <1>15 DEF Fields
<1>6. \A q \in Purposes : l.reserved[q] \in Int /\ l.uncertain[q] \in Int /\ l.observed[q] \in Int
  BY <1>1 DEF LedgerType
<1>7. Moves(l, m, t)
  <2>1. \A q \in Purposes :
          /\ Share(l, t, q, Open) = 0 /\ Share(m, t, q, Open) = IF q = p THEN n ELSE 0
          /\ Share(l, t, q, {"uncertain"}) = 0 /\ Share(m, t, q, {"uncertain"}) = 0
    BY <1>2, <1>4 DEF Share, Open
  <2> QED BY <1>1, <1>4, <1>6, <2>1 DEF Moves
<1>8. EntryOK(m, t)
  <2>1. EntryOK(l, t) BY DEF LedgerOK
  <2> QED BY <1>2, <1>4, <2>1 DEF EntryOK, LedgerLive, SameBase
<1>9. Observed(m) BY <1>4 DEF LedgerOK, SameBase, Observed
<1>10. Limits(m)
  <2>1. \A q \in Purposes : Total(m, q) = IF q = p THEN Total(l, q) + n ELSE Total(l, q)
    BY <1>1, <1>4, <1>6 DEF Total
  <2> QED BY <1>1, <2>1, FitsLimits, LimitsKept
<1>11. Finite(m.files) BY <1>4 DEF LedgerOK, SameBase
<1>12. LedgerOK(m)
  BY <1>4, <1>5, <1>7, <1>8, <1>9, <1>10, <1>11, Turned DEF SameBase
<1> QED BY <1>4, <1>5, <1>12 DEF e, AsReserved

(* What an admission leaves. *)
Admitted(l, t) == [l EXCEPT !.entry[t].state = "writing", !.active = t]

JournalEntered(l, t) ==
  [Reserved(l, t, "journal", MaxSize) EXCEPT
     !.entry[t].old = {f \in l.files["journal"] : f[1] = t}]

Admits(l, m, t) ==
  /\ LedgerOK(m) /\ SameBase(l, m) /\ m.active = t /\ m.entry[t].state = "writing"
  /\ \A u \in Threads \ {t} : m.entry[u] = l.entry[u]

(* admit_write. *)
LEMMA AdmitLemma ==
  ASSUME NEW l, LedgerOK(l), LedgerLive(l), NEW t \in Threads, l.entry[t].state = "reserved",
         l.active = Nobody, NEW m, m = Admitted(l, t)
  PROVE  Admits(l, m, t)
<1>1. l \in LedgerType /\ l.entry[t] \in EntryType BY DEF LedgerOK, LedgerType
<1> DEFINE e == [l.entry[t] EXCEPT !.state = "writing"]
<1>2. e \in EntryType /\ e.state = "writing" /\ e.purpose = l.entry[t].purpose
      /\ e.est = l.entry[t].est /\ e.old = l.entry[t].old
  BY <1>1 DEF EntryType, States
<1>3. m = Made(l, t, e, l.reserved, t, l.uncertain, l.invalid, l.files, l.observed)
  BY <1>1 DEF Admitted, LedgerType, Made
<1> HIDE DEF e
<1>13. Makable(l, t, e, l.reserved, t, l.uncertain, l.invalid, l.files, l.observed)
  BY <1>1, <1>2 DEF LedgerType, Makable
<1>14. Fields(l, m, t, e, l.reserved, t, l.uncertain, l.invalid, l.files, l.observed)
  BY <1>3, <1>13, Makes
<1>4. /\ m \in LedgerType /\ m.entry[t] = e /\ \A u \in Threads \ {t} : m.entry[u] = l.entry[u]
      /\ SameBase(l, m) /\ m.active = t
      /\ m.reserved = l.reserved /\ m.uncertain = l.uncertain /\ m.observed = l.observed
  BY <1>14 DEF SameBase, Fields
<1>5. Turns(l, m, t, e) BY <1>14 DEF Fields
<1>6. Moves(l, m, t)
  <2>1. \A p \in Purposes :
          /\ Share(m, t, p, Open) = Share(l, t, p, Open) /\ Share(l, t, p, Open) \in Int
          /\ Share(l, t, p, {"uncertain"}) = 0 /\ Share(m, t, p, {"uncertain"}) = 0
    BY <1>1, <1>2, <1>4 DEF Share, Open, EntryType
  <2>2. \A p \in Purposes : l.reserved[p] \in Int /\ l.uncertain[p] \in Int
    BY <1>1 DEF LedgerType
  <2> QED BY <1>4, <2>1, <2>2 DEF Moves
<1>7. EntryOK(m, t)
  <2>1. EntryOK(l, t) BY DEF LedgerOK
  <2> QED BY <1>2, <1>4, <2>1 DEF EntryOK
<1>8. Observed(m) /\ Limits(m) /\ Finite(m.files)
  BY <1>4 DEF LedgerOK, SameBase, Observed, Limits, Total
<1>9. \A u \in Threads \ {t} : l.active = u <=> m.active = u BY <1>4, Constants
<1>10. LedgerLive(m) => LedgerLive(l) BY <1>4 DEF SameBase, LedgerLive
<1>11. m.files = l.files BY <1>4 DEF SameBase
<1>12. LedgerOK(m) BY <1>5, <1>6, <1>7, <1>8, <1>9, <1>10, <1>11, Turned
<1> QED BY <1>2, <1>4, <1>12 DEF Admits

(* admit_journal_replacement: what changes. *)
Journaled(l, m, t, e, old) ==
  /\ Turns(l, m, t, e) /\ m.active = t /\ SameBase(l, m)
  /\ e.state = "writing" /\ e.purpose = "journal" /\ e.est = MaxSize /\ e.old = old
  /\ m.observed = l.observed /\ m.uncertain = l.uncertain
  /\ \A q \in Purposes :
       m.reserved[q] = IF q = "journal" THEN l.reserved[q] + MaxSize ELSE l.reserved[q]

(* An admitted journal leaves the ledger in order. *)
LEMMA JournaledOK ==
  ASSUME NEW l, LedgerOK(l), LedgerLive(l), NEW t \in Threads,
         l.entry[t].state \in {"open", "completed"}, t \in Journals, l.active = Nobody,
         Fits(l, "journal", MaxSize), NEW old, old = {f \in l.files["journal"] : f[1] = t},
         NEW m, NEW e, Journaled(l, m, t, e, old)
  PROVE  LedgerOK(m)
<1>1. /\ l \in LedgerType /\ "journal" \in Purposes /\ MaxSize \in Nat
  BY Constants DEF LedgerOK, Purposes
<1>2. /\ Turns(l, m, t, e) /\ m.active = t /\ SameBase(l, m)
      /\ e.state = "writing" /\ e.purpose = "journal" /\ e.est = MaxSize /\ e.old = old
      /\ m.observed = l.observed /\ m.uncertain = l.uncertain /\ m.entry[t] = e
      /\ \A q \in Purposes :
           m.reserved[q] = IF q = "journal" THEN l.reserved[q] + MaxSize ELSE l.reserved[q]
  BY DEF Journaled, Turns
<1>7. \A q \in Purposes : l.reserved[q] \in Int /\ l.uncertain[q] \in Int /\ l.observed[q] \in Int
  BY <1>1 DEF LedgerType
<1>8. Moves(l, m, t)
  <2>1. \A q \in Purposes :
          /\ Share(l, t, q, Open) = 0
          /\ Share(m, t, q, Open) = IF q = "journal" THEN MaxSize ELSE 0
          /\ Share(l, t, q, {"uncertain"}) = 0 /\ Share(m, t, q, {"uncertain"}) = 0
    BY <1>2 DEF Share, Open
  <2> QED BY <1>1, <1>2, <1>7, <2>1 DEF Moves
<1>9. EntryOK(m, t) BY <1>2 DEF EntryOK, SameBase
<1>10. Observed(m) BY <1>2 DEF LedgerOK, SameBase, Observed
<1>11. Limits(m)
  <2>1. \A q \in Purposes :
          Total(m, q) = IF q = "journal" THEN Total(l, q) + MaxSize ELSE Total(l, q)
    BY <1>1, <1>2, <1>7 DEF Total
  <2>2. "journal" \notin Assets BY DEF Assets
  <2>3. Total(l, "journal") + MaxSize <= Limit BY <1>1, FitsLimits
  <2> QED BY <1>1, <2>1, <2>2, <2>3, LimitsKept
<1>12. Finite(m.files) BY <1>2 DEF LedgerOK, SameBase
<1>13. \A u \in Threads \ {t} : l.active = u <=> m.active = u BY <1>2, Constants
<1>18. LedgerLive(m) => LedgerLive(l) BY <1>2 DEF SameBase, LedgerLive
<1>19. m.files = l.files BY <1>2 DEF SameBase
<1>20. \A u \in Threads \ {t} : l.active = u <=> m.active = u BY <1>13
<1> QED BY <1>2, <1>8, <1>9, <1>10, <1>11, <1>12, <1>13, <1>18, <1>19, Turned

(* The two updates that admit a journal, field by field. *)
LEMMA ReservedIs ==
  ASSUME NEW l \in LedgerType, NEW t \in Threads, NEW p \in Purposes, NEW n \in Nat
  PROVE  Reserved(l, t, p, n) =
           Made(l, t, [l.entry[t] EXCEPT !.state = "reserved", !.purpose = p, !.est = n],
                [l.reserved EXCEPT ![p] = @ + n], l.active, l.uncertain, l.invalid, l.files,
                l.observed)
<1> DEFINE e == [l.entry[t] EXCEPT !.state = "reserved", !.purpose = p, !.est = n]
           r == [l.reserved EXCEPT ![p] = @ + n]
           entry == [l.entry EXCEPT ![t] = e]
<1>1. l.entry[t] \in EntryType BY DEF LedgerType
<1>2. Reserved(l, t, p, n) = [l EXCEPT !.entry = entry, !.reserved = r]
  BY <1>1 DEF LedgerType, Reserved
<1>3. Made(l, t, e, r, l.active, l.uncertain, l.invalid, l.files, l.observed) =
        [closed |-> l.closed, invalid |-> l.invalid, active |-> l.active, entry |-> entry,
         files |-> l.files, reserved |-> r, observed |-> l.observed, uncertain |-> l.uncertain]
  BY DEF Made
<1>4. l = [closed |-> l.closed, invalid |-> l.invalid, active |-> l.active, entry |-> l.entry,
           files |-> l.files, reserved |-> l.reserved, observed |-> l.observed,
           uncertain |-> l.uncertain]
  BY DEF LedgerType
<1> HIDE DEF e, r, entry
<1>5. Reserved(l, t, p, n) = Made(l, t, e, r, l.active, l.uncertain, l.invalid, l.files, l.observed)
  BY <1>2, <1>3, <1>4
<1> QED BY <1>5 DEF e, r

(* The update of the replaced files, field by field. *)
LEMMA OldIs ==
  ASSUME NEW l \in LedgerType, NEW t \in Threads, NEW old
  PROVE  [l EXCEPT !.entry[t].old = old] =
           Made(l, t, [l.entry[t] EXCEPT !.old = old], l.reserved, l.active, l.uncertain,
                l.invalid, l.files, l.observed)
BY DEF LedgerType, Made

(* admit_journal_replacement. *)
LEMMA AdmitJournalLemma ==
  ASSUME NEW l, LedgerOK(l), LedgerLive(l), NEW t \in Threads,
         l.entry[t].state \in {"open", "completed"}, t \in Journals, l.active = Nobody,
         Fits(l, "journal", MaxSize), NEW k, k = JournalEntered(l, t), NEW m, m = Admitted(k, t)
  PROVE  Admits(l, m, t)
<1> DEFINE old == {f \in l.files["journal"] : f[1] = t}
<1>0. old = {f \in l.files["journal"] : f[1] = t} OBVIOUS
<1>30. k = [Reserved(l, t, "journal", MaxSize) EXCEPT !.entry[t].old = old] BY DEF JournalEntered
<1>1. /\ l \in LedgerType /\ l.entry[t] \in EntryType /\ "journal" \in Purposes /\ MaxSize \in Nat
      /\ old \in SUBSET Files
  BY Constants DEF LedgerOK, LedgerType, Purposes, Inventories
<1> HIDE DEF old
<1> DEFINE g == Reserved(l, t, "journal", MaxSize)
           i == [l.entry[t] EXCEPT !.state = "reserved", !.purpose = "journal", !.est = MaxSize]
           r == [l.reserved EXCEPT !["journal"] = @ + MaxSize]
<1>2. /\ r \in [Purposes -> Int]
      /\ \A q \in Purposes :
           r[q] = IF q = "journal" THEN l.reserved[q] + MaxSize ELSE l.reserved[q]
  BY <1>1 DEF LedgerType
<1>3. Fields(l, g, t, i, r, l.active, l.uncertain, l.invalid, l.files, l.observed)
  <2>1. g = Made(l, t, i, r, l.active, l.uncertain, l.invalid, l.files, l.observed)
    BY <1>1, ReservedIs, Zenon
  <2>2. i \in EntryType BY <1>1 DEF EntryType, States
  <2> HIDE DEF i, r, g
  <2>3. Makable(l, t, i, r, l.active, l.uncertain, l.invalid, l.files, l.observed)
    BY <1>1, <1>2, <2>2 DEF LedgerType, Makable
  <2> QED BY <2>1, <2>3, Makes
<1>4. i.est = MaxSize /\ i.purpose = "journal" BY <1>1 DEF EntryType
<1> HIDE DEF g, i, r
<1>5. /\ g \in LedgerType /\ g.entry[t] \in EntryType /\ g.entry[t] = i
      /\ g.closed = l.closed /\ g.invalid = l.invalid /\ g.active = l.active
      /\ g.files = l.files /\ g.reserved = r /\ g.observed = l.observed
      /\ g.uncertain = l.uncertain /\ \A w \in Threads \ {t} : g.entry[w] = l.entry[w]
  BY <1>3 DEF Fields, LedgerType
<1> DEFINE h == [g.entry[t] EXCEPT !.old = old]
<1>6. h \in EntryType /\ h.est = MaxSize /\ h.purpose = "journal" /\ h.old = old
  BY <1>1, <1>4, <1>5 DEF EntryType
<1>20. Fields(g, k, t, h, g.reserved, g.active, g.uncertain, g.invalid, g.files, g.observed)
  <2>1. k = Made(g, t, h, g.reserved, g.active, g.uncertain, g.invalid, g.files, g.observed)
    <3>1. k = [g EXCEPT !.entry[t].old = old] BY <1>30 DEF g
    <3> HIDE DEF g
    <3>2. [g EXCEPT !.entry[t].old = old] =
            Made(g, t, [g.entry[t] EXCEPT !.old = old], g.reserved, g.active, g.uncertain,
                 g.invalid, g.files, g.observed)
      BY <1>5, OldIs, Zenon
    <3> QED BY <3>1, <3>2, Zenon
  <2> HIDE DEF h
  <2>2. Makable(g, t, h, g.reserved, g.active, g.uncertain, g.invalid, g.files, g.observed)
    BY <1>5, <1>6 DEF LedgerType, Makable
  <2>3. Fields(g, Made(g, t, h, g.reserved, g.active, g.uncertain, g.invalid, g.files, g.observed),
               t, h, g.reserved, g.active, g.uncertain, g.invalid, g.files, g.observed)
    BY <2>2, Makes
  <2> QED BY ONLY <2>1, <2>3
<1> HIDE DEF h
<1>21. /\ k \in LedgerType /\ k.entry[t] \in EntryType /\ k.entry[t] = h
       /\ k.closed = l.closed /\ k.invalid = l.invalid /\ k.active = l.active
       /\ k.files = l.files /\ k.reserved = r /\ k.observed = l.observed
       /\ k.uncertain = l.uncertain /\ \A w \in Threads \ {t} : k.entry[w] = l.entry[w]
  BY <1>5, <1>20 DEF Fields, LedgerType
<1> DEFINE j == [k.entry[t] EXCEPT !.state = "writing"]
<1>22. /\ j \in EntryType /\ j.est = MaxSize /\ j.purpose = "journal" /\ j.old = old
       /\ j.state = "writing"
  BY <1>6, <1>21 DEF EntryType, States
<1>23. Fields(k, m, t, j, k.reserved, t, k.uncertain, k.invalid, k.files, k.observed)
  <2>1. m = Made(k, t, j, k.reserved, t, k.uncertain, k.invalid, k.files, k.observed)
    BY <1>21 DEF Admitted, LedgerType, Made
  <2> HIDE DEF j
  <2>2. Makable(k, t, j, k.reserved, t, k.uncertain, k.invalid, k.files, k.observed)
    BY <1>21, <1>22 DEF LedgerType, Makable
  <2> QED BY <2>1, <2>2, Makes
<1> HIDE DEF j
<1>24. /\ m \in LedgerType /\ m.entry[t] = j /\ m.active = t
       /\ m.closed = l.closed /\ m.invalid = l.invalid
       /\ m.files = l.files /\ m.reserved = r /\ m.observed = l.observed
       /\ m.uncertain = l.uncertain /\ \A w \in Threads \ {t} : m.entry[w] = l.entry[w]
  BY <1>21, <1>23 DEF Fields
<1>25. SameBase(l, m) BY <1>24 DEF SameBase
<1>26. Turns(l, m, t, j) BY <1>24 DEF Turns
<1>7. Journaled(l, m, t, j, old) BY <1>2, <1>22, <1>24, <1>25, <1>26 DEF Journaled
<1>8. LedgerOK(m) BY <1>0, <1>7, JournaledOK
<1> QED BY <1>8, <1>22, <1>24, <1>25 DEF Admits

(* What settles t's open entry: its estimate is no longer reserved, kept   *)
(* when it is uncertain, and the totals of a live ledger do not grow.      *)
Settles(l, m, t, e) ==
  LET p == l.entry[t].purpose
      n == l.entry[t].est
  IN  /\ Turns(l, m, t, e) /\ m.closed = l.closed /\ l.entry[t].state \in Open
      /\ e.state \in {"cancelled", "completed", "uncertain"} /\ e.purpose = p /\ e.est = n
      /\ \A q \in Purposes :
           /\ m.reserved[q] = IF q = p THEN l.reserved[q] - n ELSE l.reserved[q]
           /\ m.uncertain[q] =
                IF q = p /\ e.state = "uncertain" THEN l.uncertain[q] + n ELSE l.uncertain[q]
      /\ m.active = IF l.active = t THEN Nobody ELSE l.active
      /\ e.state = "uncertain" => m.invalid
      /\ Finite(m.files)
      /\ m.files = l.files \/ m.active = Nobody
      /\ \A f \in e.old : f[1] = t /\ t \in Journals
      /\ LedgerLive(m) =>
           LedgerLive(l) /\ Observed(m) /\ \A q \in Purposes : Total(m, q) <= Total(l, q)

(* Settling an open entry moves the totals by its estimate. *)
LEMMA SettlesMoves ==
  ASSUME NEW l, LedgerOK(l), NEW t \in Threads, NEW m, NEW e, Settles(l, m, t, e)
  PROVE  Moves(l, m, t)
<1> DEFINE p == l.entry[t].purpose
           n == l.entry[t].est
<1>1. /\ l \in LedgerType /\ p \in Purposes /\ n \in Nat
  BY DEF LedgerOK, LedgerType, EntryType
<1>2. /\ m.entry[t] = e /\ l.entry[t].state \in Open
      /\ e.state \in {"cancelled", "completed", "uncertain"} /\ e.purpose = p /\ e.est = n
      /\ \A q \in Purposes :
           /\ m.reserved[q] = IF q = p THEN l.reserved[q] - n ELSE l.reserved[q]
           /\ m.uncertain[q] =
                IF q = p /\ e.state = "uncertain" THEN l.uncertain[q] + n ELSE l.uncertain[q]
  BY DEF Settles, Turns
<1>3. \A q \in Purposes : l.reserved[q] \in Int /\ l.uncertain[q] \in Int
  BY <1>1 DEF LedgerType
<1>4. \A q \in Purposes :
        /\ Share(l, t, q, Open) = IF q = p THEN n ELSE 0
        /\ Share(m, t, q, Open) = 0 /\ Share(l, t, q, {"uncertain"}) = 0
        /\ Share(m, t, q, {"uncertain"}) = IF q = p /\ e.state = "uncertain" THEN n ELSE 0
  BY <1>2 DEF Share, Open
<1> HIDE DEF p, n
<1>5. \A q \in Purposes :
        m.reserved[q] = l.reserved[q] - Share(l, t, q, Open) + Share(m, t, q, Open)
  BY <1>1, <1>2, <1>3, <1>4
<1>6. \A q \in Purposes :
        m.uncertain[q] = l.uncertain[q] - Share(l, t, q, {"uncertain"})
                           + Share(m, t, q, {"uncertain"})
  BY <1>1, <1>2, <1>3, <1>4
<1> QED BY <1>5, <1>6 DEF Moves

(* Settling an open entry leaves the ledger in order. *)
LEMMA SettlesOK ==
  ASSUME NEW l, LedgerOK(l), NEW t \in Threads, NEW m, NEW e, Settles(l, m, t, e)
  PROVE  LedgerOK(m)
<1>1. /\ Turns(l, m, t, e) /\ m.entry[t] = e /\ m \in LedgerType
      /\ e.state \in {"cancelled", "completed", "uncertain"}
      /\ m.active = IF l.active = t THEN Nobody ELSE l.active
      /\ e.state = "uncertain" => m.invalid
      /\ Finite(m.files)
      /\ m.files = l.files \/ m.active = Nobody
      /\ \A f \in e.old : f[1] = t /\ t \in Journals
      /\ LedgerLive(m) =>
           LedgerLive(l) /\ Observed(m) /\ \A q \in Purposes : Total(m, q) <= Total(l, q)
  BY DEF Settles, Turns
<1>2. Moves(l, m, t) BY SettlesMoves
<1>3. EntryOK(m, t)
  <2>1. m.active # t BY <1>1, Constants
  <2> QED BY <1>1, <2>1 DEF EntryOK, LedgerLive
<1>4. \A u \in Threads \ {t} : l.active = u <=> m.active = u BY <1>1, Constants
<1>5. ASSUME LedgerLive(m) PROVE Limits(m)
  <2>1. \A q \in Purposes : Total(m, q) \in Int BY <1>1 DEF Total, LedgerType
  <2> QED BY <1>1, <1>5, <2>1, LimitsLess
<1>6. Turns(l, m, t, e) /\ Finite(m.files) BY <1>1
<1>7. LedgerLive(m) =>
        /\ LedgerLive(l) /\ Observed(m) /\ Limits(m)
        /\ m.files = l.files \/ m.active = Nobody
  BY <1>1, <1>5
<1> QED BY <1>2, <1>3, <1>4, <1>6, <1>7, Turned

(* A release, field by field. *)
LEMMA ReleasedIs ==
  ASSUME NEW l \in LedgerType, NEW t \in Threads
  PROVE  /\ Released(l, t) \in LedgerType /\ Released(l, t).entry = l.entry
         /\ Released(l, t).closed = l.closed /\ Released(l, t).invalid = l.invalid
         /\ Released(l, t).active = l.active /\ Released(l, t).files = l.files
         /\ Released(l, t).observed = l.observed /\ Released(l, t).uncertain = l.uncertain
         /\ \A q \in Purposes :
              Released(l, t).reserved[q] =
                IF q = l.entry[t].purpose THEN l.reserved[q] - l.entry[t].est ELSE l.reserved[q]
<1> DEFINE p == l.entry[t].purpose
           n == l.entry[t].est
           r == [l.reserved EXCEPT ![p] = @ - n]
<1>1. p \in Purposes /\ n \in Nat BY DEF LedgerType, EntryType
<1>2. Released(l, t) = [l EXCEPT !.reserved = r] BY DEF Released, LedgerType
<1> HIDE DEF p, n
<1>3. r \in [Purposes -> Int]
      /\ \A q \in Purposes : r[q] = IF q = p THEN l.reserved[q] - n ELSE l.reserved[q]
  BY <1>1 DEF LedgerType
<1> HIDE DEF r
<1>4. Released(l, t) \in LedgerType BY <1>2, <1>3 DEF LedgerType
<1>5. Released(l, t).reserved = r BY <1>2 DEF LedgerType
<1>6. /\ Released(l, t).entry = l.entry
      /\ Released(l, t).closed = l.closed /\ Released(l, t).invalid = l.invalid
      /\ Released(l, t).active = l.active /\ Released(l, t).files = l.files
      /\ Released(l, t).observed = l.observed /\ Released(l, t).uncertain = l.uncertain
  BY <1>2 DEF LedgerType
<1> QED BY <1>3, <1>4, <1>5, <1>6 DEF p, n

Deactivates(l, t, a) == a = IF l.active = t THEN Nobody ELSE l.active

(* cancel_before_write, and cancel_write_before_create.                    *)
LEMMA CancelLemma ==
  ASSUME NEW l, LedgerOK(l), LedgerLive(l), NEW t \in Threads, l.entry[t].state \in Open,
         NEW a, Deactivates(l, t, a), t \notin Journals,
         NEW m, m = Made(Released(l, t), t, [l.entry[t] EXCEPT !.state = "cancelled"],
                         Released(l, t).reserved, a, l.uncertain, l.invalid, l.files, l.observed)
  PROVE  /\ LedgerOK(m) /\ Turns(l, m, t, [l.entry[t] EXCEPT !.state = "cancelled"])
         /\ SameBase(l, m) /\ m.active = a
<1> DEFINE e == [l.entry[t] EXCEPT !.state = "cancelled"]
           k == Released(l, t)
<1>1. /\ k \in LedgerType /\ k.entry = l.entry /\ k.closed = l.closed
      /\ \A q \in Purposes :
           k.reserved[q] =
             IF q = l.entry[t].purpose THEN l.reserved[q] - l.entry[t].est ELSE l.reserved[q]
  BY ReleasedIs DEF LedgerOK
<1>2. l \in LedgerType /\ l.entry[t] \in EntryType BY DEF LedgerOK, LedgerType
<1>3. e \in EntryType /\ e.state = "cancelled" /\ e.purpose = l.entry[t].purpose
      /\ e.est = l.entry[t].est /\ e.old = l.entry[t].old
  BY <1>2 DEF EntryType, States
<1> HIDE DEF e, k
<1>4. /\ a \in Threads \cup {Nobody}
      /\ a = IF l.active = t THEN Nobody ELSE l.active
  BY <1>2 DEF LedgerType, Deactivates
<1>5. Makable(k, t, e, k.reserved, a, l.uncertain, l.invalid, l.files, l.observed)
  BY <1>1, <1>2, <1>3, <1>4 DEF LedgerType, Makable
<1>6. m = Made(k, t, e, k.reserved, a, l.uncertain, l.invalid, l.files, l.observed) BY DEF k, e
<1>7. Fields(k, m, t, e, k.reserved, a, l.uncertain, l.invalid, l.files, l.observed)
  BY <1>5, <1>6, Makes
<1>8. /\ m \in LedgerType /\ m.entry[t] = e /\ m.reserved = k.reserved /\ m.active = a
      /\ m.uncertain = l.uncertain /\ m.files = l.files /\ m.observed = l.observed
      /\ m.closed = l.closed /\ m.invalid = l.invalid
      /\ \A w \in Threads \ {t} : m.entry[w] = l.entry[w]
  BY <1>1, <1>7 DEF Fields
<1>9. Turns(l, m, t, e) BY <1>8 DEF Turns
<1>10. SameBase(l, m) BY <1>8 DEF SameBase
<1>11. EntryOK(l, t) /\ Finite(l.files) BY DEF LedgerOK
<1>12. Observed(m) BY <1>8 DEF LedgerOK, Observed
<1>13. \A q \in Purposes : Total(m, q) <= Total(l, q)
  <2>1. \A q \in Purposes : l.reserved[q] \in Int /\ l.uncertain[q] \in Int /\ l.observed[q] \in Int
    BY <1>2 DEF LedgerType
  <2>2. l.entry[t].est \in Nat BY <1>2 DEF EntryType
  <2> QED BY <1>1, <1>8, <2>1, <2>2 DEF Total
<1>14. \A f \in e.old : f[1] = t /\ t \in Journals BY <1>3, <1>11 DEF EntryOK
<1>15. Settles(l, m, t, e)
  BY <1>1, <1>3, <1>4, <1>8, <1>9, <1>11, <1>12, <1>13, <1>14 DEF Settles
<1>16. LedgerOK(m) BY <1>15, SettlesOK
<1> QED BY <1>8, <1>9, <1>10, <1>16 DEF e

(* A state, and the active write, field by field. *)
LEMMA StateIs ==
  ASSUME NEW k \in LedgerType, NEW t \in Threads, NEW s
  PROVE  [k EXCEPT !.entry[t].state = s] =
           Made(k, t, [k.entry[t] EXCEPT !.state = s], k.reserved, k.active, k.uncertain,
                k.invalid, k.files, k.observed)
BY DEF LedgerType, Made

Stated(k, t, s, a) == [k EXCEPT !.entry[t].state = s, !.active = a]

(* The update of an entry's state and of the active write. *)
LEMMA StateActiveIs ==
  ASSUME NEW k \in LedgerType, NEW t \in Threads, NEW s, NEW a
  PROVE  Stated(k, t, s, a) =
           Made(k, t, [k.entry[t] EXCEPT !.state = s], k.reserved, a, k.uncertain,
                k.invalid, k.files, k.observed)
<1> DEFINE e == [k.entry[t] EXCEPT !.state = s]
           entry == [k.entry EXCEPT ![t] = e]
           m == [k EXCEPT !.entry[t].state = s, !.active = a]
<1>1. k = [closed |-> k.closed, invalid |-> k.invalid, active |-> k.active, entry |-> k.entry,
           files |-> k.files, reserved |-> k.reserved, observed |-> k.observed,
           uncertain |-> k.uncertain]
  BY DEF LedgerType
<1>2. m = [k EXCEPT !.entry = entry, !.active = a] BY DEF LedgerType
<1> HIDE DEF e, m
<1>3. m = [closed |-> k.closed, invalid |-> k.invalid, active |-> a, entry |-> entry,
           files |-> k.files, reserved |-> k.reserved, observed |-> k.observed,
           uncertain |-> k.uncertain]
  <2> HIDE DEF entry
  <2> QED BY <1>1, <1>2
<1>4. m = Made(k, t, e, k.reserved, a, k.uncertain, k.invalid, k.files, k.observed)
  BY <1>3, Zenon DEF Made
<1> QED BY <1>4 DEF m, e, Stated

(* What a cancelled reservation leaves. *)
Leaves(l, m, t, state) ==
  /\ LedgerOK(m) /\ Turns(l, m, t, [l.entry[t] EXCEPT !.state = state])
  /\ m.closed = l.closed /\ m.files = l.files

(* cancel_before_write. *)
LEMMA CancelBefore ==
  ASSUME NEW l, LedgerOK(l), LedgerLive(l), NEW t \in Threads, l.entry[t].state = "reserved",
         NEW m, m = [Released(l, t) EXCEPT !.entry[t].state = "cancelled"]
  PROVE  Leaves(l, m, t, "cancelled") /\ m.invalid = l.invalid /\ m.active = l.active
<1> DEFINE k == Released(l, t)
<1>1. /\ k \in LedgerType /\ k.entry = l.entry /\ k.active = l.active /\ k.invalid = l.invalid
      /\ k.files = l.files /\ k.observed = l.observed /\ k.uncertain = l.uncertain
  BY ReleasedIs DEF LedgerOK
<1>2. t \notin Journals /\ Deactivates(l, t, l.active)
  BY DEF LedgerOK, EntryOK, Deactivates
<1>3. m = [k EXCEPT !.entry[t].state = "cancelled"] OBVIOUS
<1> HIDE DEF k
<1>4. m = Made(k, t, [k.entry[t] EXCEPT !.state = "cancelled"], k.reserved, k.active, k.uncertain,
               k.invalid, k.files, k.observed)
  BY <1>1, <1>3, StateIs, Zenon
<1>5. m = Made(k, t, [l.entry[t] EXCEPT !.state = "cancelled"], k.reserved, l.active, l.uncertain,
               l.invalid, l.files, l.observed)
  BY <1>1, <1>4, Zenon
<1>6. l.entry[t].state \in Open BY DEF Open
<1>8. LedgerOK(l) /\ LedgerLive(l) /\ t \in Threads OBVIOUS
<1>7. /\ LedgerOK(m) /\ Turns(l, m, t, [l.entry[t] EXCEPT !.state = "cancelled"])
      /\ SameBase(l, m) /\ m.active = l.active
  BY ONLY <1>2, <1>5, <1>6, <1>8, CancelLemma DEF k
<1> QED BY <1>7 DEF Leaves, SameBase

Cancelled(l, t) == [Released(l, t) EXCEPT !.entry[t].state = "cancelled", !.active = Nobody]

(* cancel_write_before_create, of the active write. *)
LEMMA CancelActive ==
  ASSUME NEW l, LedgerOK(l), LedgerLive(l), NEW t \in Threads, l.active = t, t \notin Journals,
         NEW m, m = Cancelled(l, t)
  PROVE  Leaves(l, m, t, "cancelled") /\ m.invalid = l.invalid /\ m.active = Nobody
<1> DEFINE k == Released(l, t)
<1>1. /\ k \in LedgerType /\ k.entry = l.entry /\ k.active = l.active /\ k.invalid = l.invalid
      /\ k.files = l.files /\ k.observed = l.observed /\ k.uncertain = l.uncertain
  BY ReleasedIs DEF LedgerOK
<1>3. m = [k EXCEPT !.entry[t].state = "cancelled", !.active = Nobody] BY DEF Cancelled
<1> HIDE DEF k
<1>4. m = Made(k, t, [k.entry[t] EXCEPT !.state = "cancelled"], k.reserved, Nobody, k.uncertain,
               k.invalid, k.files, k.observed)
  <2>1. Stated(k, t, "cancelled", Nobody) =
          Made(k, t, [k.entry[t] EXCEPT !.state = "cancelled"], k.reserved, Nobody, k.uncertain,
               k.invalid, k.files, k.observed)
    BY <1>1, StateActiveIs
  <2> QED BY ONLY <1>3, <2>1 DEF Stated
<1>5. m = Made(k, t, [l.entry[t] EXCEPT !.state = "cancelled"], k.reserved, Nobody, l.uncertain,
               l.invalid, l.files, l.observed)
  BY <1>1, <1>4, Zenon
<1>6. l.entry[t].state \in Open BY DEF Open, LedgerOK, EntryOK
<1>7. /\ LedgerOK(m) /\ Turns(l, m, t, [l.entry[t] EXCEPT !.state = "cancelled"])
      /\ SameBase(l, m) /\ m.active = Nobody
  BY <1>5, <1>6, CancelLemma DEF k, Deactivates
<1> QED BY <1>7 DEF Leaves, SameBase

(* _retain_locked of the active write, the owner invalid with it.          *)
Uncertain(k, t, p, n, v) ==
  [[k EXCEPT !.entry[t].state = "uncertain", !.uncertain[p] = @ + n,
             !.active = IF @ = t THEN Nobody ELSE @] EXCEPT !.invalid = v]

(* The update that retains the active write, field by field. *)
LEMMA RetainIs ==
  ASSUME NEW k \in LedgerType, NEW t \in Threads, NEW p \in Purposes, NEW n \in Nat, NEW v, k.active = t
  PROVE  Uncertain(k, t, p, n, v) =
           Made(k, t, [k.entry[t] EXCEPT !.state = "uncertain"], k.reserved, Nobody,
                [k.uncertain EXCEPT ![p] = @ + n], v, k.files, k.observed)
<1> DEFINE e == [k.entry[t] EXCEPT !.state = "uncertain"]
           entry == [k.entry EXCEPT ![t] = e]
           u == [k.uncertain EXCEPT ![p] = @ + n]
           j == [k EXCEPT !.entry[t].state = "uncertain", !.uncertain[p] = @ + n,
                          !.active = IF @ = t THEN Nobody ELSE @]
           m == [j EXCEPT !.invalid = v]
<1>1. k = [closed |-> k.closed, invalid |-> k.invalid, active |-> k.active, entry |-> k.entry,
           files |-> k.files, reserved |-> k.reserved, observed |-> k.observed,
           uncertain |-> k.uncertain]
  BY DEF LedgerType
<1>2. j = [k EXCEPT !.entry = entry, !.uncertain = u, !.active = Nobody] BY DEF LedgerType
<1> HIDE DEF e, u, entry, j
<1>3. j = [closed |-> k.closed, invalid |-> k.invalid, active |-> Nobody, entry |-> entry,
           files |-> k.files, reserved |-> k.reserved, observed |-> k.observed, uncertain |-> u]
  BY ONLY <1>1, <1>2
<1>4. m = [closed |-> k.closed, invalid |-> v, active |-> Nobody, entry |-> entry,
           files |-> k.files, reserved |-> k.reserved, observed |-> k.observed, uncertain |-> u]
  <2> DEFINE c == k.closed
             i == k.invalid
             f == k.files
             r == k.reserved
             o == k.observed
             a == Nobody
  <2>1. j = [closed |-> c, invalid |-> i, active |-> a, entry |-> entry, files |-> f,
             reserved |-> r, observed |-> o, uncertain |-> u]
    BY <1>3
  <2> HIDE DEF c, i, f, r, o, a
  <2>2. m = [closed |-> c, invalid |-> v, active |-> a, entry |-> entry, files |-> f,
             reserved |-> r, observed |-> o, uncertain |-> u]
    BY ONLY <2>1 DEF m
  <2> QED BY ONLY <2>2 DEF c, f, r, o, a
<1> HIDE DEF m
<1>5. m = Made(k, t, e, k.reserved, Nobody, u, v, k.files, k.observed)
  BY <1>4, Zenon DEF Made, entry
<1> QED BY <1>5 DEF m, j, e, u, Uncertain

(* _retain_locked of the active write leaves the ledger in order. *)
LEMMA RetainLemma ==
  ASSUME NEW l, LedgerOK(l), NEW t \in Threads, l.active = t, NEW m, m = RetainInvalid(l, t)
  PROVE  Leaves(l, m, t, "uncertain") /\ m.invalid /\ m.active = Nobody
<1> DEFINE k == Released(l, t)
           e == [l.entry[t] EXCEPT !.state = "uncertain"]
           p == l.entry[t].purpose
           n == l.entry[t].est
           u == [l.uncertain EXCEPT ![p] = @ + n]
<1>1. /\ k \in LedgerType /\ k.entry = l.entry /\ k.active = l.active /\ k.invalid = l.invalid
      /\ k.closed = l.closed
      /\ k.files = l.files /\ k.observed = l.observed /\ k.uncertain = l.uncertain
      /\ \A q \in Purposes : k.reserved[q] = IF q = p THEN l.reserved[q] - n ELSE l.reserved[q]
  BY ReleasedIs DEF LedgerOK
<1>2. /\ l \in LedgerType /\ l.entry[t] \in EntryType /\ p \in Purposes /\ n \in Nat
      /\ l.entry[t].state = "writing" /\ l.entry[t].state \in Open
      /\ \A f \in l.entry[t].old : f[1] = t /\ t \in Journals
  BY DEF LedgerOK, LedgerType, EntryOK, EntryType, Open
<1>3. m = [[k EXCEPT !.entry[t].state = "uncertain", !.uncertain[p] = @ + n,
                     !.active = IF @ = t THEN Nobody ELSE @] EXCEPT !.invalid = TRUE]
  BY <1>2 DEF RetainInvalid, Retain
<1>4. e \in EntryType /\ e.state = "uncertain" /\ e.purpose = p /\ e.est = n
      /\ e.old = l.entry[t].old
  BY <1>2 DEF EntryType, States
<1>5. u \in [Purposes -> Nat]
      /\ \A q \in Purposes : u[q] = IF q = p THEN l.uncertain[q] + n ELSE l.uncertain[q]
  BY <1>2 DEF LedgerType
<1>6. m = Made(k, t, e, k.reserved, Nobody, u, TRUE, l.files, l.observed)
  <2> HIDE DEF k, p, n
  <2>2. Uncertain(k, t, p, n, TRUE) =
          Made(k, t, [k.entry[t] EXCEPT !.state = "uncertain"], k.reserved, Nobody,
               [k.uncertain EXCEPT ![p] = @ + n], TRUE, k.files, k.observed)
    BY <1>1, <1>2, RetainIs
  <2>1. m = Made(k, t, [k.entry[t] EXCEPT !.state = "uncertain"], k.reserved, Nobody,
                 [k.uncertain EXCEPT ![p] = @ + n], TRUE, k.files, k.observed)
    BY ONLY <1>3, <2>2 DEF Uncertain
  <2> QED BY <1>1, <2>1, Zenon
<1> HIDE DEF k, e, u
<1>7. Makable(k, t, e, k.reserved, Nobody, u, TRUE, l.files, l.observed)
  BY <1>1, <1>2, <1>4, <1>5 DEF LedgerType, Makable
<1>8. Fields(k, m, t, e, k.reserved, Nobody, u, TRUE, l.files, l.observed)
  BY <1>6, <1>7, Makes
<1>9. /\ m \in LedgerType /\ m.entry[t] = e /\ m.reserved = k.reserved /\ m.active = Nobody
      /\ m.uncertain = u /\ m.files = l.files /\ m.closed = l.closed /\ m.invalid
      /\ \A w \in Threads \ {t} : m.entry[w] = l.entry[w]
  BY <1>1, <1>8 DEF Fields
<1>10. Turns(l, m, t, e) BY <1>9 DEF Turns
<1>11. Finite(m.files) /\ ~LedgerLive(m) BY <1>9 DEF LedgerOK, LedgerLive
<1>12. Settles(l, m, t, e)
  BY <1>1, <1>2, <1>4, <1>5, <1>9, <1>10, <1>11 DEF Settles
<1>13. LedgerOK(m) BY <1>12, SettlesOK
<1> QED BY <1>9, <1>10, <1>13 DEF e, Leaves

(* A completed write, and a completed journal, field by field. *)
Done(k, t, files, p, n) ==
  [k EXCEPT !.entry[t].state = "completed", !.active = Nobody, !.files = files,
            !.observed[p] = @ + n]

DoneJournal(k, t, files, new, n, o) ==
  [k EXCEPT !.entry[t].state = "completed", !.active = Nobody, !.files = files,
            !.entry[t].old = new, !.observed["journal"] = @ - n + o]

Recorded(k, m, t, e, files, ob) ==
  m = [k EXCEPT !.entry = [k.entry EXCEPT ![t] = e], !.active = Nobody, !.files = files,
                !.observed = ob]

(* The update that records a completion, field by field. *)
LEMMA RecordIs ==
  ASSUME NEW k \in LedgerType, NEW t \in Threads, NEW e, NEW files, NEW ob,
         NEW m, Recorded(k, m, t, e, files, ob)
  PROVE  m = Made(k, t, e, k.reserved, Nobody, k.uncertain, k.invalid, files, ob)
<1> DEFINE entry == [k.entry EXCEPT ![t] = e]
           c == k.closed
           i == k.invalid
           a == k.active
           y == k.entry
           f == k.files
           r == k.reserved
           o == k.observed
           u == k.uncertain
           b == Nobody
<1>1. k = [closed |-> c, invalid |-> i, active |-> a, entry |-> y, files |-> f,
           reserved |-> r, observed |-> o, uncertain |-> u]
  BY DEF LedgerType
<1>2. m = [k EXCEPT !.entry = entry, !.active = b, !.files = files, !.observed = ob]
  BY DEF Recorded
<1> HIDE DEF c, i, a, y, f, r, o, u, b, entry
<1>3. m = [closed |-> c, invalid |-> i, active |-> b, entry |-> entry, files |-> files,
           reserved |-> r, observed |-> ob, uncertain |-> u]
  BY ONLY <1>1, <1>2
<1>4. m = [closed |-> k.closed, invalid |-> k.invalid, active |-> Nobody, entry |-> entry,
           files |-> files, reserved |-> k.reserved, observed |-> ob, uncertain |-> k.uncertain]
  BY ONLY <1>3 DEF c, i, b, r, u
<1> QED BY <1>4, Zenon DEF Made, entry

(* The update of a completed write. *)
LEMMA DoneIs ==
  ASSUME NEW k \in LedgerType, NEW t \in Threads, NEW files, NEW p \in Purposes, NEW n
  PROVE  Done(k, t, files, p, n) =
           Made(k, t, [k.entry[t] EXCEPT !.state = "completed"], k.reserved, Nobody,
                k.uncertain, k.invalid, files, [k.observed EXCEPT ![p] = @ + n])
<1> DEFINE e == [k.entry[t] EXCEPT !.state = "completed"]
           entry == [k.entry EXCEPT ![t] = e]
           ob == [k.observed EXCEPT ![p] = @ + n]
           m == Done(k, t, files, p, n)
<1>1. m = [k EXCEPT !.entry = entry, !.active = Nobody, !.files = files, !.observed = ob]
  BY DEF LedgerType, Done
<1>2. Recorded(k, m, t, e, files, ob) BY ONLY <1>1 DEF Recorded, entry
<1> HIDE DEF e, entry, ob, m
<1>3. m = Made(k, t, e, k.reserved, Nobody, k.uncertain, k.invalid, files, ob)
  BY <1>2, RecordIs
<1> QED BY <1>3 DEF m, e, ob

MadeJournal(k, t, files, new, n, o) ==
  Made(k, t, [[k.entry[t] EXCEPT !.state = "completed"] EXCEPT !.old = new], k.reserved,
       Nobody, k.uncertain, k.invalid, files, [k.observed EXCEPT !["journal"] = @ - n + o])

(* The update of a completed journal. *)
LEMMA DoneJournalIs ==
  ASSUME NEW k \in LedgerType, NEW t \in Threads, NEW files, NEW new, NEW n, NEW o
  PROVE  DoneJournal(k, t, files, new, n, o) = MadeJournal(k, t, files, new, n, o)
<1> DEFINE e == [[k.entry[t] EXCEPT !.state = "completed"] EXCEPT !.old = new]
           entry == [k.entry EXCEPT ![t] = e]
           ob == [k.observed EXCEPT !["journal"] = @ - n + o]
           m == DoneJournal(k, t, files, new, n, o)
<1>1. m = [k EXCEPT !.entry = entry, !.active = Nobody, !.files = files, !.observed = ob]
  BY DEF LedgerType, DoneJournal
<1>2. Recorded(k, m, t, e, files, ob) BY ONLY <1>1 DEF Recorded, entry
<1> HIDE DEF e, entry, ob, m
<1>3. m = Made(k, t, e, k.reserved, Nobody, k.uncertain, k.invalid, files, ob)
  BY <1>2, RecordIs
<1> QED BY <1>3 DEF m, e, ob, MadeJournal

(* What a completion leaves: the file taken into the books, or retained.   *)
Completes(l, m, t, seen) ==
  /\ LedgerOK(m) /\ m.active = Nobody /\ m.closed = l.closed
  /\ \A u \in Threads \ {t} : m.entry[u] = l.entry[u]
  /\ m.entry[t].purpose = l.entry[t].purpose
  /\ \A p \in Purposes : \A f \in l.files[p] : f[1] # t => f \in m.files[p]
  /\ \/ m.entry[t].state = "completed" /\ m.files = seen /\ m.invalid = l.invalid
     \/ m.entry[t].state = "uncertain" /\ m.files = l.files /\ m.invalid

(* A completion may retain the write. *)
LEMMA RetainCompletes ==
  ASSUME NEW l, LedgerOK(l), NEW t \in Threads, l.active = t, NEW seen,
         NEW m, m = RetainInvalid(l, t)
  PROVE  Completes(l, m, t, seen)
<1>1. Leaves(l, m, t, "uncertain") /\ m.invalid /\ m.active = Nobody BY RetainLemma
<1>2. l.entry[t] \in EntryType BY DEF LedgerOK, LedgerType
<1>3. LedgerOK(m) /\ m.closed = l.closed /\ m.files = l.files
      /\ m.entry[t] = [l.entry[t] EXCEPT !.state = "uncertain"]
      /\ \A u \in Threads \ {t} : m.entry[u] = l.entry[u]
  BY <1>1 DEF Leaves, Turns
<1>4. m.entry[t].state = "uncertain" /\ m.entry[t].purpose = l.entry[t].purpose
  BY <1>2, <1>3 DEF EntryType
<1> QED BY <1>1, <1>3, <1>4 DEF Completes

(* What complete_write takes. *)
Takes(l, t, seen) ==
  LET e == l.entry[t]
  IN  /\ \A q \in Purposes : l.files[q] \subseteq seen[q]
      /\ \A q \in Purposes \ {e.purpose} : seen[q] = l.files[q]
      /\ Size(seen[e.purpose] \ l.files[e.purpose]) \in 1 .. e.est

(* complete_write takes what it finds, or retains. *)
LEMMA CompleteWriteSplits ==
  ASSUME NEW l, NEW t, NEW seen
  PROVE  \/ /\ Takes(l, t, seen)
            /\ CompleteWrite(l, t, seen) =
                 Done(Released(l, t), t, seen, l.entry[t].purpose,
                      Size(seen[l.entry[t].purpose] \ l.files[l.entry[t].purpose]))
         \/ ~Takes(l, t, seen) /\ CompleteWrite(l, t, seen) = RetainInvalid(l, t)
<1> DEFINE e == l.entry[t]
           others == UNION {Additions(l, seen, p) : p \in Purposes \ {e.purpose}}
           n == Size(Additions(l, seen, e.purpose))
           c == OnlyAdditions(l, seen) /\ others = {} /\ n \in 1 .. e.est
<1>1. c <=> Takes(l, t, seen)
  <2>1. OnlyAdditions(l, seen) <=> \A q \in Purposes : l.files[q] \subseteq seen[q]
    BY DEF OnlyAdditions
  <2>2. others = {} <=> \A q \in Purposes \ {e.purpose} : seen[q] \subseteq l.files[q]
    BY DEF Additions
  <2>3. n = Size(seen[e.purpose] \ l.files[e.purpose]) BY DEF Additions
  <2> HIDE DEF others, n, e
  <2>4. (OnlyAdditions(l, seen) /\ others = {}) <=>
          /\ \A q \in Purposes : l.files[q] \subseteq seen[q]
          /\ \A q \in Purposes \ {e.purpose} : seen[q] = l.files[q]
    BY <2>1, <2>2
  <2> QED BY <2>3, <2>4 DEF Takes, e
<1>2. CASE c
  <2>1. CompleteWrite(l, t, seen) = Done(Released(l, t), t, seen, e.purpose, n)
    BY <1>2 DEF CompleteWrite, Done
  <2> QED BY <1>1, <1>2, <2>1 DEF Additions
<1>3. CASE ~c
  <2>1. CompleteWrite(l, t, seen) = RetainInvalid(l, t) BY <1>3 DEF CompleteWrite
  <2> QED BY <1>1, <1>3, <2>1
<1> QED BY <1>2, <1>3

(* The files of an inventory have sizes. *)
LEMMA Sized ==
  ASSUME NEW files \in Inventories, Finite(files), NEW p \in Purposes
  PROVE  IsFiniteSet(files[p]) /\ \A f \in files[p] : f[2] \in Nat
<1>1. files[p] \in SUBSET Files /\ IsFiniteSet(files[p]) BY DEF Inventories, Finite
<1>2. \A f \in Files : f[2] \in Nat BY DEF Files, Stranger
<1> QED BY <1>1, <1>2

(* A completion that is taken, once its entry and its books are known.     *)
LEMMA TakenCompletes ==
  ASSUME NEW l, LedgerOK(l), NEW t \in Threads, l.active = t, LedgerLive(l),
         NEW seen \in Inventories, Finite(seen),
         NEW e \in EntryType, e.state = "completed", e.purpose = l.entry[t].purpose,
         e.est = l.entry[t].est, \A f \in e.old : f[1] = t /\ t \in Journals,
         NEW ob \in [Purposes -> Int], \A q \in Purposes : ob[q] = Size(seen[q]),
         \A q \in Purposes :
           ob[q] <= l.observed[q] + (IF q = e.purpose THEN e.est ELSE 0),
         \A p \in Purposes : \A f \in l.files[p] : f[1] # t => f \in seen[p],
         NEW m, m = Made(Released(l, t), t, e, Released(l, t).reserved, Nobody,
                         l.uncertain, l.invalid, seen, ob)
  PROVE  Completes(l, m, t, seen) /\ m.entry[t] = e
<1> DEFINE k == Released(l, t)
           p == l.entry[t].purpose
           n == l.entry[t].est
<1>1. /\ k \in LedgerType /\ k.entry = l.entry /\ k.closed = l.closed
      /\ \A q \in Purposes : k.reserved[q] = IF q = p THEN l.reserved[q] - n ELSE l.reserved[q]
  BY ReleasedIs DEF LedgerOK
<1>2. /\ l \in LedgerType /\ p \in Purposes /\ n \in Nat /\ l.entry[t].state \in Open
  BY DEF LedgerOK, LedgerType, EntryOK, EntryType, Open
<1>3. m = Made(k, t, e, k.reserved, Nobody, l.uncertain, l.invalid, seen, ob) OBVIOUS
<1> HIDE DEF k
<1>4. Makable(k, t, e, k.reserved, Nobody, l.uncertain, l.invalid, seen, ob)
  BY <1>1, <1>2 DEF LedgerType, Makable
<1>5. Fields(k, m, t, e, k.reserved, Nobody, l.uncertain, l.invalid, seen, ob)
  BY <1>3, <1>4, Makes
<1>6. /\ m \in LedgerType /\ m.entry[t] = e /\ m.reserved = k.reserved /\ m.active = Nobody
      /\ m.uncertain = l.uncertain /\ m.files = seen /\ m.closed = l.closed
      /\ m.invalid = l.invalid /\ m.observed = ob
      /\ \A w \in Threads \ {t} : m.entry[w] = l.entry[w]
  BY <1>1, <1>5 DEF Fields
<1>7. Turns(l, m, t, e) BY <1>6 DEF Turns
<1>8. Observed(m) BY <1>6 DEF Observed
<1>9. \A q \in Purposes : Total(m, q) <= Total(l, q)
  <2>1. \A q \in Purposes :
          /\ l.reserved[q] \in Int /\ l.uncertain[q] \in Int /\ l.observed[q] \in Int /\ ob[q] \in Int
          /\ m.reserved[q] = (IF q = p THEN l.reserved[q] - n ELSE l.reserved[q])
          /\ ob[q] <= l.observed[q] + (IF q = p THEN n ELSE 0)
    BY <1>1, <1>2, <1>6 DEF LedgerType
  <2> HIDE DEF p, n
  <2>2. \A q \in Purposes : m.reserved[q] + ob[q] + l.uncertain[q]
                             <= l.reserved[q] + l.observed[q] + l.uncertain[q]
    BY ONLY <1>2, <2>1
  <2> QED BY <1>6, <2>2 DEF Total
<1>10. Settles(l, m, t, e)
  BY <1>1, <1>2, <1>6, <1>7, <1>8, <1>9 DEF Settles
<1>11. LedgerOK(m) BY <1>10, SettlesOK
<1> QED BY <1>6, <1>11 DEF Completes

(* complete_write. *)
LEMMA CompleteWriteLemma ==
  ASSUME NEW l, LedgerOK(l), LedgerLive(l), NEW t \in Threads, l.active = t, t \notin Journals,
         NEW seen \in Inventories, Finite(seen), NEW m, m = CompleteWrite(l, t, seen)
  PROVE  Completes(l, m, t, seen) /\ (Takes(l, t, seen) => m.entry[t].state = "completed")
<1> DEFINE k == Released(l, t)
           p == l.entry[t].purpose
           n == Size(seen[p] \ l.files[p])
           e == [l.entry[t] EXCEPT !.state = "completed"]
           ob == [l.observed EXCEPT ![p] = @ + n]
<1>1. /\ k \in LedgerType /\ k.entry = l.entry /\ k.invalid = l.invalid
      /\ k.observed = l.observed /\ k.uncertain = l.uncertain
  BY ReleasedIs DEF LedgerOK
<1>2. /\ l \in LedgerType /\ p \in Purposes /\ l.entry[t] \in EntryType
      /\ l.entry[t].est \in Nat /\ l.entry[t].old = {} /\ l.files \in Inventories /\ Finite(l.files)
  BY DEF LedgerOK, LedgerType, EntryOK, EntryType
<1>3. CASE ~Takes(l, t, seen)
  <2>1. m = RetainInvalid(l, t) BY <1>3, CompleteWriteSplits
  <2> QED BY <1>3, <2>1, RetainCompletes
<1>4. CASE Takes(l, t, seen)
  <2>1. m = Done(k, t, seen, p, n) BY <1>4, CompleteWriteSplits
  <2>2. /\ \A q \in Purposes : l.files[q] \subseteq seen[q]
        /\ \A q \in Purposes \ {p} : seen[q] = l.files[q]
        /\ n \in Nat /\ n <= l.entry[t].est
    BY <1>2, <1>4 DEF Takes
  <2>3. e \in EntryType /\ e.state = "completed" /\ e.purpose = p /\ e.est = l.entry[t].est
        /\ e.old = {}
    BY <1>2 DEF EntryType, States
  <2>4. \A q \in Purposes : l.observed[q] \in Int /\ l.observed[q] = Size(l.files[q])
    BY <1>2 DEF LedgerType, LedgerOK, Observed
  <2>5. Size(seen[p]) = Size(l.files[p]) + n
    <3>1. IsFiniteSet(seen[p]) /\ \A f \in seen[p] : f[2] \in Nat BY <1>2, Sized
    <3>2. l.files[p] \in SUBSET seen[p] BY <1>2, <2>2
    <3> QED BY <3>1, <3>2, SizePart
  <2>6. ob \in [Purposes -> Int]
        /\ \A q \in Purposes : ob[q] = IF q = p THEN l.observed[q] + n ELSE l.observed[q]
    BY <1>2, <2>2 DEF LedgerType
  <2> HIDE DEF k, e, p, n, ob
  <2>7. m = Made(k, t, e, k.reserved, Nobody, l.uncertain, l.invalid, seen, ob)
    <3>1. m = Made(k, t, [k.entry[t] EXCEPT !.state = "completed"], k.reserved, Nobody,
                   k.uncertain, k.invalid, seen, [k.observed EXCEPT ![p] = @ + n])
      BY <1>1, <1>2, <2>1, DoneIs
    <3> QED BY <1>1, <3>1 DEF e, ob
  <2>8. \A q \in Purposes : ob[q] = Size(seen[q])
    <3> SUFFICES ASSUME NEW q \in Purposes PROVE ob[q] = Size(seen[q]) OBVIOUS
    <3>1. CASE q = p BY <2>4, <2>5, <2>6, <3>1
    <3>2. CASE q # p BY <2>2, <2>4, <2>6, <3>2
    <3> QED BY <3>1, <3>2
  <2>9. \A q \in Purposes : ob[q] <= l.observed[q] + (IF q = e.purpose THEN e.est ELSE 0)
    BY <1>2, <2>2, <2>3, <2>4, <2>6
  <2>10. \A q \in Purposes : \A f \in l.files[q] : f[1] # t => f \in seen[q] BY <2>2
  <2>11. \A f \in e.old : f[1] = t /\ t \in Journals BY <2>3
  <2>12. e.purpose = l.entry[t].purpose BY <2>3 DEF p
  <2>13. Completes(l, m, t, seen) /\ m.entry[t] = e
    BY <2>3, <2>6, <2>7, <2>8, <2>9, <2>10, <2>11, <2>12, TakenCompletes DEF k
  <2> QED BY <2>3, <2>13
<1> QED BY <1>3, <1>4

(* What complete_journal_replacement takes. *)
New(l, t, seen) == seen["journal"] \ (l.files["journal"] \ l.entry[t].old)

Replaces(l, t, seen) ==
  /\ \A p \in Assets : seen[p] = l.files[p]
  /\ l.files["journal"] \ l.entry[t].old \subseteq seen["journal"]
  /\ Cardinality(New(l, t, seen)) = 1
  /\ \A f \in New(l, t, seen) : f[1] = t /\ f[2] <= l.entry[t].est

(* complete_journal_replacement takes what it finds, or retains. *)
LEMMA CompleteJournalSplits ==
  ASSUME NEW l, NEW t, NEW seen
  PROVE  \/ /\ Replaces(l, t, seen)
            /\ CompleteJournal(l, t, seen) =
                 DoneJournal(Released(l, t), t, seen, New(l, t, seen), Size(l.entry[t].old),
                             Size(New(l, t, seen)))
         \/ ~Replaces(l, t, seen) /\ CompleteJournal(l, t, seen) = RetainInvalid(l, t)
BY DEF CompleteJournal, Replaces, New, DoneJournal

(* complete_journal_replacement. *)
LEMMA CompleteJournalLemma ==
  ASSUME NEW l, LedgerOK(l), LedgerLive(l), NEW t \in Threads, l.active = t, t \in Journals,
         NEW seen \in Inventories, Finite(seen), NEW m, m = CompleteJournal(l, t, seen)
  PROVE  Completes(l, m, t, seen) /\ (Replaces(l, t, seen) => m.entry[t].state = "completed")
<1> DEFINE k == Released(l, t)
           old == l.entry[t].old
           new == New(l, t, seen)
           rest == l.files["journal"] \ old
           e == [[l.entry[t] EXCEPT !.state = "completed"] EXCEPT !.old = new]
           ob == [l.observed EXCEPT !["journal"] = @ - Size(old) + Size(new)]
<1>1. /\ k \in LedgerType /\ k.entry = l.entry /\ k.invalid = l.invalid
      /\ k.observed = l.observed /\ k.uncertain = l.uncertain
  BY ReleasedIs DEF LedgerOK
<1>2. /\ l \in LedgerType /\ "journal" \in Purposes /\ l.entry[t] \in EntryType
      /\ l.entry[t].purpose = "journal" /\ l.entry[t].est \in Nat
      /\ old = {f \in l.files["journal"] : f[1] = t} /\ l.files \in Inventories /\ Finite(l.files)
  BY DEF LedgerOK, LedgerType, EntryOK, EntryType, Purposes
<1>3. CASE ~Replaces(l, t, seen)
  <2>1. m = RetainInvalid(l, t) BY <1>3, CompleteJournalSplits
  <2> QED BY <1>3, <2>1, RetainCompletes
<1>4. CASE Replaces(l, t, seen)
  <2>1. m = DoneJournal(k, t, seen, new, Size(old), Size(new)) BY <1>4, CompleteJournalSplits
  <2>2. /\ \A p \in Assets : seen[p] = l.files[p]
        /\ rest \subseteq seen["journal"] /\ Cardinality(new) = 1
        /\ \A f \in new : f[1] = t /\ f[2] <= l.entry[t].est
        /\ new = seen["journal"] \ rest
    BY <1>4 DEF Replaces, New
  <2>3. /\ IsFiniteSet(seen["journal"]) /\ \A f \in seen["journal"] : f[2] \in Nat
        /\ IsFiniteSet(l.files["journal"]) /\ \A f \in l.files["journal"] : f[2] \in Nat
        /\ seen["journal"] \in SUBSET Files
    BY <1>2, Sized DEF Inventories
  <2> DEFINE a == Size(old)
             b == Size(new)
             c == Size(rest)
  <2>4. Size(l.files["journal"]) = a + c /\ a \in Nat /\ c \in Nat
    <3>1. old \in SUBSET l.files["journal"] BY <1>2
    <3> QED BY <2>3, <3>1, SizePart
  <2>5. Size(seen["journal"]) = c + b /\ b \in Nat
    <3>1. rest \in SUBSET seen["journal"] BY <2>2
    <3>2. seen["journal"] \ rest = new BY <2>2
    <3> HIDE DEF rest, new
    <3> QED BY <2>3, <3>1, <3>2, SizePart
  <2>6. b <= l.entry[t].est
    <3>1. new \in SUBSET seen["journal"] BY <2>2
    <3>2. IsFiniteSet(new) BY <2>3, <3>1, FS_Subset
    <3>3. PICK f : new = {f} BY <2>2, <3>2, FS_Singleton
    <3>4. f \in new /\ f[2] \in Nat /\ f[2] <= l.entry[t].est BY <2>2, <2>3, <3>1, <3>3
    <3>5. Size({f}) = f[2] BY <3>4, SizeOne
    <3> HIDE DEF new
    <3> QED BY <3>3, <3>4, <3>5
  <2>7. new \in SUBSET Files BY <2>2, <2>3
  <2>8. e \in EntryType /\ e.state = "completed" /\ e.purpose = "journal"
        /\ e.est = l.entry[t].est /\ e.old = new
    <3> DEFINE j == [l.entry[t] EXCEPT !.state = "completed"]
    <3>1. j \in EntryType /\ j.state = "completed" /\ j.purpose = "journal"
          /\ j.est = l.entry[t].est
      BY <1>2 DEF EntryType, States
    <3> HIDE DEF j, new
    <3>2. /\ [j EXCEPT !.old = new] \in EntryType /\ [j EXCEPT !.old = new].state = "completed"
          /\ [j EXCEPT !.old = new].purpose = "journal"
          /\ [j EXCEPT !.old = new].est = l.entry[t].est /\ [j EXCEPT !.old = new].old = new
      BY <2>7, <3>1 DEF EntryType
    <3> QED BY <3>2 DEF j
  <2>9. \A q \in Purposes : l.observed[q] \in Int /\ l.observed[q] = Size(l.files[q])
    BY <1>2 DEF LedgerType, LedgerOK, Observed
  <2>10. ob \in [Purposes -> Int]
         /\ \A q \in Purposes :
              ob[q] = IF q = "journal" THEN l.observed[q] - a + b ELSE l.observed[q]
    <3> HIDE DEF old, new, a, b
    <3>1. ob = [l.observed EXCEPT !["journal"] = @ - a + b] BY DEF a, b
    <3> HIDE DEF ob
    <3> QED BY <1>2, <2>4, <2>5, <3>1 DEF LedgerType
  <2>11. \A f \in e.old : f[1] = t /\ t \in Journals BY <2>2, <2>8
  <2>12. \A q \in Purposes : \A f \in l.files[q] : f[1] # t => f \in seen[q]
    BY <1>2, <2>2 DEF Purposes
  <2> HIDE DEF k, e, old, new, rest, ob
  <2>13. m = Made(k, t, e, k.reserved, Nobody, l.uncertain, l.invalid, seen, ob)
    <3>0. DoneJournal(k, t, seen, new, Size(old), Size(new)) =
            MadeJournal(k, t, seen, new, Size(old), Size(new))
      BY <1>1, DoneJournalIs
    <3>1. m = Made(k, t, [[k.entry[t] EXCEPT !.state = "completed"] EXCEPT !.old = new], k.reserved,
                   Nobody, k.uncertain, k.invalid, seen,
                   [k.observed EXCEPT !["journal"] = @ - Size(old) + Size(new)])
      BY ONLY <2>1, <3>0 DEF MadeJournal
    <3> QED BY <1>1, <3>1 DEF e, ob
  <2>14. \A q \in Purposes : ob[q] = Size(seen[q])
    <3> SUFFICES ASSUME NEW q \in Purposes PROVE ob[q] = Size(seen[q]) OBVIOUS
    <3>1. CASE q = "journal"
      <4>1. ob[q] = l.observed[q] - a + b BY <2>10, <3>1
      <4>2. l.observed[q] = a + c BY <2>4, <2>9, <3>1
      <4> HIDE DEF a, b, c
      <4> QED BY <2>4, <2>5, <3>1, <4>1, <4>2
    <3>2. CASE q # "journal"
      <4>1. q \in Assets BY <3>2 DEF Purposes
      <4> QED BY <2>2, <2>9, <2>10, <3>2, <4>1
    <3> QED BY <3>1, <3>2
  <2>15. \A q \in Purposes : ob[q] <= l.observed[q] + (IF q = e.purpose THEN e.est ELSE 0)
    <3> HIDE DEF a, b, c
    <3> QED BY <1>2, <2>4, <2>5, <2>6, <2>8, <2>9, <2>10
  <2>16. e.purpose = l.entry[t].purpose BY <1>2, <2>8
  <2>17. Completes(l, m, t, seen) /\ m.entry[t] = e
    BY <2>8, <2>10, <2>11, <2>12, <2>13, <2>14, <2>15, <2>16, TakenCompletes DEF k
  <2> QED BY <2>8, <2>17
<1> QED BY <1>3, <1>4

(* close: what is unsettled is retained.                                   *)
Closes(l, m) ==
  /\ LedgerOK(m) /\ m.closed /\ m.files = l.files /\ m.active \in {Nobody, l.active}
  /\ \A t \in Threads :
       \/ m.entry[t].state = l.entry[t].state
       \/ l.entry[t].state \in Open /\ m.entry[t].state = "uncertain"

(* A close leaves the ledger in order. *)
LEMMA CloseLemma ==
  ASSUME NEW l, LedgerOK(l), NEW m, m = CloseLedger(l)
  PROVE  Closes(l, m)
<1>1. CASE l.closed BY <1>1 DEF CloseLedger, Closes
<1>2. CASE ~l.closed
  <2> DEFINE open == {t \in Threads : l.entry[t].state \in {"reserved", "writing"}}
             entry == [t \in Threads |->
                         [l.entry[t] EXCEPT !.state = IF t \in open THEN "uncertain" ELSE @]]
             r == [p \in Purposes |-> 0]
             u == [p \in Purposes |->
                     l.uncertain[p] + Estimated(l, {t \in open : l.entry[t].purpose = p})]
  <2>1. /\ l \in LedgerType /\ Balanced(l) /\ Finite(l.files)
        /\ \A t \in Threads : l.entry[t] \in EntryType /\ EntryOK(l, t)
    BY DEF LedgerOK, LedgerType
  <2>2. m = [l EXCEPT !.closed = TRUE, !.active = Nobody, !.entry = entry, !.reserved = r,
                      !.uncertain = u]
    BY <1>2 DEF CloseLedger
  <2>3. \A t \in Threads :
          /\ entry[t] \in EntryType /\ entry[t].purpose = l.entry[t].purpose
          /\ entry[t].est = l.entry[t].est /\ entry[t].old = l.entry[t].old
          /\ entry[t].state = IF t \in open THEN "uncertain" ELSE l.entry[t].state
    BY <2>1 DEF EntryType, States
  <2>4. \A p \in Purposes : {t \in open : l.entry[t].purpose = p} = Holding(l, p, Open)
    BY DEF Holding, Open
  <2>5. \A p \in Purposes : u[p] = l.uncertain[p] + Estimated(l, Holding(l, p, Open))
    BY <2>4
  <2>6. r \in [Purposes -> Int] /\ u \in [Purposes -> Nat]
    <3>1. \A p \in Purposes : Holding(l, p, Open) \in SUBSET Threads BY DEF Holding
    <3>2. \A p \in Purposes : Estimated(l, Holding(l, p, Open)) \in Nat
      BY <2>1, <3>1, EstimatedNat
    <3>3. \A p \in Purposes : l.uncertain[p] \in Nat BY <2>1 DEF LedgerType
    <3>4. \A p \in Purposes : u[p] \in Nat
      <4> HIDE DEF u
      <4> QED BY <2>5, <3>2, <3>3
    <3> QED BY <3>4
  <2>7. entry \in [Threads -> EntryType] BY <2>3
  <2>8. \A t \in Threads : t \in open <=> l.entry[t].state \in Open BY DEF Open
  <2>9. \A p \in Purposes : r[p] = 0 OBVIOUS
  <2> HIDE DEF open, entry, r, u
  <2>10. m \in LedgerType BY <2>1, <2>2, <2>6, <2>7 DEF LedgerType
  <2>11. /\ m.closed /\ m.active = Nobody /\ m.entry = entry /\ m.reserved = r /\ m.uncertain = u
         /\ m.files = l.files
    BY <2>1, <2>2 DEF LedgerType
  <2>12. \A t \in Threads :
           /\ m.entry[t].purpose = l.entry[t].purpose
           /\ m.entry[t].est = l.entry[t].est /\ m.entry[t].old = l.entry[t].old
           /\ m.entry[t].state = IF l.entry[t].state \in Open THEN "uncertain" ELSE l.entry[t].state
    BY <2>3, <2>8, <2>11
  <2>13. Balanced(m)
    <3> SUFFICES ASSUME NEW p \in Purposes
                 PROVE  /\ m.reserved[p] = Estimated(m, Holding(m, p, Open))
                        /\ p \in Assets =>
                             m.uncertain[p] = Retained + Estimated(m, Holding(m, p, {"uncertain"}))
      BY DEF Balanced
    <3> DEFINE H == Holding(l, p, Open)
               K == Holding(l, p, {"uncertain"})
    <3>1. Holding(m, p, Open) = {} BY <2>12 DEF Holding, Open
    <3>2. Holding(m, p, {"uncertain"}) = H \cup K BY <2>12 DEF Holding, Open
    <3>3. H \cap K = {} /\ H \in SUBSET Threads /\ K \in SUBSET Threads
          /\ H \cup K \in SUBSET Threads
      BY DEF Holding, Open
    <3> HIDE DEF H, K
    <3>4. Estimated(m, {}) = 0
      <4> DEFINE f == [t \in Threads |-> m.entry[t].est]
      <4>1. Estimated(m, {}) = SumOf(f, {}) BY DEF Estimated, SumOf
      <4>2. IsFiniteSet({}) BY FS_EmptySet
      <4> HIDE DEF f
      <4> QED BY <4>1, <4>2, SumUnfolds
    <3>5. Estimated(m, H \cup K) = Estimated(l, H \cup K)
      BY <2>1, <2>10, <2>12, <3>3, EstimatedSame
    <3>6. Estimated(l, H \cup K) = Estimated(l, H) + Estimated(l, K)
      <4> DEFINE f == [t \in Threads |-> l.entry[t].est]
      <4>1. /\ Estimated(l, H \cup K) = SumOf(f, H \cup K)
            /\ Estimated(l, H) = SumOf(f, H) /\ Estimated(l, K) = SumOf(f, K)
        BY DEF Estimated, SumOf
      <4>2. IsFiniteSet(H) /\ IsFiniteSet(K) BY <2>1, <3>3, EstimatedNat
      <4>3. \A t \in H \cup K : f[t] \in Nat BY <2>1, <3>3 DEF EntryType
      <4> HIDE DEF f
      <4> QED BY <3>3, <4>1, <4>2, <4>3, SumBoth
    <3>7. Estimated(l, H) \in Nat /\ Estimated(l, K) \in Nat BY <2>1, <3>3, EstimatedNat
    <3>8. p \in Assets => l.uncertain[p] = Retained + Estimated(l, K) BY <2>1 DEF Balanced, K
    <3>9. m.uncertain[p] = l.uncertain[p] + Estimated(l, H) BY <2>5, <2>11 DEF H
    <3>10. p \in Assets => m.uncertain[p] = Retained + Estimated(m, H \cup K)
      BY <3>5, <3>6, <3>7, <3>8, <3>9, Constants
    <3>11. m.reserved[p] = Estimated(m, {}) BY <2>9, <2>11, <3>4
    <3> QED BY <3>1, <3>2, <3>10, <3>11
  <2>14. \A t \in Threads : EntryOK(m, t)
    <3> SUFFICES ASSUME NEW t \in Threads PROVE EntryOK(m, t) OBVIOUS
    <3>1. EntryOK(l, t) BY <2>1
    <3>2. m.entry[t].state \notin Open BY <2>12 DEF Open
    <3>3. m.active # t /\ ~LedgerLive(m) BY <2>11, Constants DEF LedgerLive
    <3> QED BY <2>12, <3>1, <3>2, <3>3 DEF EntryOK, Open
  <2>15. ~LedgerLive(m) /\ Finite(m.files) BY <2>1, <2>11 DEF LedgerLive
  <2>16. LedgerOK(m) BY <2>10, <2>13, <2>14, <2>15 DEF LedgerOK
  <2> QED BY <2>11, <2>12, <2>16 DEF Closes
<1> QED BY <1>1, <1>2

(* retain_completed_write_as_uncertain. *)
LEMMA RetainCompletedLemma ==
  ASSUME NEW l, LedgerOK(l), NEW t \in Threads, l.entry[t].state = "completed",
         NEW prior \in Nat, NEW m, m = RetainCompleted(l, t, prior)
  PROVE  Leaves(l, m, t, "uncertain") /\ m.active = l.active
<1> DEFINE e == [l.entry[t] EXCEPT !.state = "uncertain"]
           p == l.entry[t].purpose
           n == l.entry[t].est
           mine == {f \in l.files[p] : f[1] = t}
           u == [l.uncertain EXCEPT ![p] = @ + n]
           z == Size(mine)
           ob == [l.observed EXCEPT ![p] = @ - z + prior]
           entry == [l.entry EXCEPT ![t] = e]
           v == TRUE
<1>1. /\ l \in LedgerType /\ l.entry[t] \in EntryType /\ p \in Purposes /\ n \in Nat
      /\ EntryOK(l, t) /\ l.files \in Inventories /\ Finite(l.files)
  BY DEF LedgerOK, LedgerType, EntryType
<1>2. e \in EntryType /\ e.state = "uncertain" /\ e.purpose = p /\ e.est = n
      /\ e.old = l.entry[t].old
  BY <1>1 DEF EntryType, States
<1>3. u \in [Purposes -> Nat]
      /\ \A q \in Purposes : u[q] = IF q = p THEN l.uncertain[q] + n ELSE l.uncertain[q]
  BY <1>1 DEF LedgerType
<1>4. z \in Nat
  <2>1. IsFiniteSet(l.files[p]) /\ \A f \in l.files[p] : f[2] \in Nat BY <1>1, Sized
  <2>2. mine \in SUBSET l.files[p] OBVIOUS
  <2> HIDE DEF mine, p
  <2> QED BY <2>1, <2>2, SizePart
<1>5. m = [l EXCEPT !.entry = entry, !.observed = ob, !.uncertain = u, !.invalid = v]
  BY <1>1 DEF RetainCompleted, LedgerType
<1> HIDE DEF z
<1>6. ob \in [Purposes -> Int] BY <1>1, <1>4 DEF LedgerType
<1>7. entry \in [Threads -> EntryType] /\ entry[t] = e
      /\ \A w \in Threads \ {t} : entry[w] = l.entry[w]
  BY <1>1, <1>2 DEF LedgerType
<1>8. v \in BOOLEAN OBVIOUS
<1> HIDE DEF e, u, ob, entry, v
<1>9. /\ m.entry = entry /\ m.observed = ob /\ m.uncertain = u /\ m.invalid = v
      /\ m.closed = l.closed /\ m.active = l.active /\ m.files = l.files /\ m.reserved = l.reserved
  BY <1>1, <1>5 DEF LedgerType
<1>10. m \in LedgerType BY <1>1, <1>3, <1>5, <1>6, <1>7, <1>8 DEF LedgerType
<1>11. Turns(l, m, t, e) BY <1>7, <1>9, <1>10 DEF Turns
<1>12. Moves(l, m, t)
  <2>1. \A q \in Purposes :
          /\ Share(l, t, q, Open) = 0 /\ Share(m, t, q, Open) = 0
          /\ Share(l, t, q, {"uncertain"}) = 0
          /\ Share(m, t, q, {"uncertain"}) = IF q = p THEN n ELSE 0
    BY <1>2, <1>7, <1>9 DEF Share, Open
  <2>2. \A q \in Purposes : l.reserved[q] \in Int /\ l.uncertain[q] \in Int
    BY <1>1 DEF LedgerType
  <2> HIDE DEF p, n
  <2> QED BY <1>1, <1>3, <1>9, <2>1, <2>2 DEF Moves
<1>13. ~LedgerLive(m) BY <1>9 DEF LedgerLive, v
<1>14. EntryOK(m, t) BY <1>1, <1>2, <1>7, <1>9, <1>13 DEF EntryOK
<1>15. \A w \in Threads \ {t} : l.active = w <=> m.active = w BY <1>9
<1>16. Finite(m.files) BY <1>1, <1>9
<1>17. LedgerOK(m) BY <1>11, <1>12, <1>13, <1>14, <1>15, <1>16, Turned
<1> QED BY <1>9, <1>11, <1>17 DEF Leaves, e

-----------------------------------------------------------------------------
(* Steps. *)

(* The world stays, so that the ledger of the next state is as good there  *)
(* as here.                                                                *)
LEMMA LedgerPrimed ==
  ASSUME LedgerOK(led'), own'.world = own.world PROVE LedgerOK(led)'
<1>1. Journals' = Journals BY DEF Journals
<1> HIDE DEF Journals
<1> QED BY <1>1 DEF LedgerOK, EntryOK, LedgerLive, Balanced, Estimated, Holding, Open, Observed,
                    Limits, Total, Size, Finite, LedgerType, EntryType, Inventories, Files

(* What t's step leaves of the others.                                     *)
Kept(u) ==
  \/ led'.entry[u].state = led.entry[u].state
  \/ led.entry[u].state \in Open /\ led'.entry[u].state = "uncertain"

Moved(t) ==
  /\ own'.world = own.world /\ \A u \in Threads \ {t} : th'[u] = th[u] /\ Kept(u)

SlotMoves(t) ==
  \/ slot' = slot
  \/ slot' = Nobody /\ slot \in {t, Nobody}
  \/ slot' = t /\ slot = Nobody

FilesMove(t) ==
  \A p \in Purposes :
    /\ \A f \in disk'[p] : f[1] = t \/ f = Stranger \/ f \in disk[p]
    /\ \A f \in led.files[p] : f[1] = t \/ f \in led'.files[p]

ShutsMove ==
  /\ own.closed => own'.closed
  /\ own.revoked \subseteq own'.revoked /\ \A k \in own.revoked : tokens'[k] \subseteq tokens[k]

(* A step of t leaves the entries others need. *)
LEMMA PlacesKept ==
  ASSUME PlacesOK, NEW t \in Threads, Moved(t), Place(t)'
  PROVE  PlacesOK'
<1>1. Journals' = Journals BY DEF Journals, Moved
<1> SUFFICES ASSUME NEW u \in Threads \ {t} PROVE Place(u)' BY DEF PlacesOK
<1>2. th'[u] = th[u] /\ Kept(u) /\ Place(u) BY DEF Moved, PlacesOK
<1> QED BY <1>1, <1>2 DEF Place, Kept, Open, Refreshes, Writes, Finds

(* A step of t leaves the slot to who holds it. *)
LEMMA SlotKept ==
  ASSUME SlotOK, NEW t \in Threads, Moved(t), SlotMoves(t), (Slotted(t) => slot = t)'
  PROVE  SlotOK'
<1> SUFFICES ASSUME NEW u \in Threads \ {t} PROVE (Slotted(u) => slot = u)' BY DEF SlotOK
<1>1. th'[u] = th[u] /\ u # Nobody BY Constants DEF Moved
<1>2. Slotted(u) => slot = u BY DEF SlotOK
<1> QED BY <1>1, <1>2 DEF Slotted, SlotMoves

(* A step of t leaves the files of others accounted for. *)
LEMMA FilesKept ==
  ASSUME FilesOK, NEW t \in Threads, Moved(t), FilesMove(t), FilesOf(t)'
  PROVE  FilesOK'
<1> SUFFICES ASSUME NEW u \in Threads \ {t}, NEW p \in Purposes, NEW f \in disk'[p],
                    f[1] = u, f # Stranger
             PROVE  FileOf(u, p, f)'
  BY DEF FilesOK, FilesOf
<1>1. th'[u] = th[u] /\ Kept(u) BY DEF Moved
<1>2. f \in disk[p] /\ (f \in led.files[p] => f \in led'.files[p]) BY DEF FilesMove
<1>3. FileOf(u, p, f) BY <1>2 DEF FilesOK, FilesOf
<1> QED BY <1>1, <1>2, <1>3 DEF FileOf, Kept

(* A step of t opens no boundary again. *)
LEMMA ClosingKept ==
  ASSUME ClosingOK, NEW t \in Threads, Moved(t), ShutsMove, Closing(t)'
  PROVE  ClosingOK'
<1> SUFFICES ASSUME NEW u \in Threads \ {t} PROVE Closing(u)' BY DEF ClosingOK
<1>1. th'[u] = th[u] /\ Closing(u) BY DEF Moved, ClosingOK
<1>2. ShutPublication => ShutPublication' BY DEF ShutPublication, ShutsMove
<1>3. ShutSave => ShutSave' BY DEF ShutSave, ShutsMove
<1>4. own.closed => own'.closed BY DEF ShutsMove
<1> QED BY <1>1, <1>2, <1>3, <1>4 DEF Closing

(* t moves, its scan is finite, and the rest keeps its shape.              *)
ThreadMoves(t) ==
  /\ th' \in [Threads -> ThreadType] /\ Finite(th'[t].seen)
  /\ \A u \in Threads \ {t} : th'[u] = th[u]

Shaped ==
  /\ own' \in OwnType /\ own'.world = own.world
  /\ disk' \in Inventories /\ Finite(disk')
  /\ slot' \in Threads \cup {Nobody} /\ tokens' \in [Boundaries -> SUBSET Threads]

(* A step that moves one thread keeps the shape. *)
LEMMA TypedKept ==
  ASSUME Typed, NEW t \in Threads, ThreadMoves(t), Shaped PROVE Typed'
<1>1. /\ th' \in [Threads -> ThreadType] /\ Finite(th'[t].seen)
      /\ \A u \in Threads \ {t} : th'[u] = th[u] /\ Finite(th[u].seen)
  BY DEF ThreadMoves, Typed
<1>2. \A u \in Threads : Finite(th'[u].seen) BY <1>1
<1>3. /\ own' \in OwnType /\ disk' \in Inventories /\ Finite(disk')
      /\ slot' \in Threads \cup {Nobody} /\ tokens' \in [Boundaries -> SUBSET Threads]
  BY DEF Shaped
<1> QED BY <1>1, <1>2, <1>3 DEF Typed, Finite, Inventories, OwnType, ThreadType, Files

(* What every step of t leaves to show. *)
Local(t) ==
  /\ Place(t) /\ (Slotted(t) => slot = t) /\ FilesOf(t) /\ Closing(t) /\ AloneOK

(* What t's step keeps of the others and shows of t is the invariant. *)
LEMMA Combined ==
  ASSUME IInv, NEW t \in Threads, ThreadMoves(t), Shaped, LedgerOK(led'),
         \A u \in Threads \ {t} : Kept(u), SlotMoves(t), FilesMove(t), ShutsMove, Local(t)'
  PROVE  IInv'
<1>1. Moved(t) BY DEF Moved, ThreadMoves, Shaped
<1>2. Typed /\ PlacesOK /\ SlotOK /\ FilesOK /\ ClosingOK BY DEF IInv
<1>3. Place(t)' /\ (Slotted(t) => slot = t)' /\ FilesOf(t)' /\ Closing(t)' /\ AloneOK'
  BY DEF Local
<1>4. Typed' BY <1>2, TypedKept
<1>5. (LedgerOK(led))' BY LedgerPrimed DEF Shaped
<1>6. PlacesOK' BY <1>1, <1>2, <1>3, PlacesKept
<1>7. SlotOK' BY <1>1, <1>2, <1>3, SlotKept
<1>8. FilesOK' BY <1>1, <1>2, <1>3, FilesKept
<1>9. ClosingOK' BY <1>1, <1>2, <1>3, ClosingKept
<1> QED BY <1>3, <1>4, <1>5, <1>6, <1>7, <1>8, <1>9 DEF IInv

(* Files, active write and marks stay, and so do the entries of others.    *)
LedgerStays(t) ==
  /\ led'.files = led.files /\ led'.active = led.active
  /\ led'.closed = led.closed /\ led'.invalid = led.invalid
  /\ \A u \in Threads \ {t} : led'.entry[u] = led.entry[u]

(* A step that leaves the ledger's files and mark to others. *)
LEMMA AloneKept ==
  ASSUME AloneOK, NEW t \in Threads, ThreadMoves(t), own'.world = own.world,
         own'.closed = own.closed, own'.invalid = own.invalid, disk' = disk, LedgerStays(t),
         Alone => AloneAt(t)'
  PROVE  AloneOK'
<1>1. Journals' = Journals /\ (Alone' <=> Alone) BY DEF Journals, Alone, Foreign, Faults
<1> SUFFICES ASSUME Alone PROVE Known' /\ \A u \in Threads : AloneAt(u)' BY <1>1 DEF AloneOK
<1>2. Known /\ \A u \in Threads : AloneAt(u) BY DEF AloneOK
<1>3. Known' BY <1>2 DEF Known, OwnerLive, Live, LedgerLive, LedgerStays
<1>4. ASSUME NEW u \in Threads \ {t} PROVE AloneAt(u)'
  <2>1. AloneAt(u) /\ th'[u] = th[u] BY <1>2 DEF ThreadMoves
  <2>2. /\ led'.files = led.files /\ led'.active = led.active /\ led'.entry[u] = led.entry[u]
    BY DEF LedgerStays
  <2>3. Wrote(u) => Wrote(u)' BY <2>2 DEF Wrote
  <2> QED BY <1>1, <2>1, <2>2, <2>3 DEF AloneAt, Writes, Slotted
<1> QED BY <1>3, <1>4

(* The active writer's step finds and leaves the others out of its way.    *)
LEMMA AloneOthers ==
  ASSUME Alone, NEW t \in Threads, ThreadMoves(t), own'.world = own.world,
         NEW u \in Threads \ {t}, AloneAt(u), ~Writes(u), ~Slotted(u),
         led'.entry[u] = led.entry[u], led'.active \in {t, Nobody},
         \A p \in Purposes : \A f \in led'.files[p] : f \in led.files[p] \/ f[1] = t
  PROVE  AloneAt(u)'
<1>1. Journals' = Journals /\ th'[u] = th[u] /\ u # Nobody
  BY Constants DEF Journals, ThreadMoves
<1>2. ~Writes(u)' /\ ~Slotted(u)' BY <1>1 DEF Writes, Slotted
<1>3. led'.active # u BY <1>1
<1>4. u \notin Journals' /\ led'.entry[u].state # "completed" =>
        \A p \in Purposes : \A f \in led'.files[p] : f[1] # u
  BY <1>1 DEF AloneAt
<1> QED BY <1>2, <1>3, <1>4 DEF AloneAt, Writes, Slotted

(* A step that at most turns an entry before its write.                    *)
Early(t) ==
  led'.entry[t] = led.entry[t] \/ led.entry[t].state \in {"none", "open", "reserved"}

(* A step of a thread that is not writing, before and after. *)
LEMMA EarlyStep ==
  ASSUME IInv, NEW t \in Threads, ThreadMoves(t), Shaped, LedgerOK(led'), LedgerStays(t), Early(t),
         disk' = disk, own'.closed = own.closed, own'.invalid = own.invalid,
         SlotMoves(t), ShutsMove, ~Writes(t), ~Writes(t)', Place(t)', (Slotted(t) => slot = t)',
         Closing(t)',
         Alone => (Slotted(t)' => led.active = Nobody)
                  /\ (th'[t].at = "observe" => th'[t].seen = led.files)
  PROVE  IInv'
<1>1. \A u \in Threads \ {t} : Kept(u) BY DEF LedgerStays, Kept
<1>2. FilesMove(t) BY DEF FilesMove, LedgerStays
<1>3. FilesOf(t)'
  <2>1. FilesOf(t) BY DEF IInv, FilesOK
  <2> SUFFICES ASSUME NEW p \in Purposes, NEW f \in disk'[p], f[1] = t, f # Stranger
               PROVE  FileOf(t, p, f)'
    BY DEF FilesOf
  <2>2. FileOf(t, p, f) BY <2>1 DEF FilesOf
  <2>3. /\ led'.files = led.files
        /\ led'.entry[t] = led.entry[t] \/ led.entry[t].state \in {"none", "open", "reserved"}
    BY DEF LedgerStays, Early
  <2>4. th'[t].at # "write" /\ th'[t].at # "commit" BY DEF Writes
  <2> QED BY <2>2, <2>3, <2>4 DEF FileOf
<1>4. AloneOK'
  <2>1. ASSUME Alone PROVE AloneAt(t)'
    <3>1. AloneAt(t) /\ Journals' = Journals
      BY <2>1 DEF IInv, AloneOK, Journals, Shaped
    <3>2. led'.files = led.files /\ led'.active = led.active BY DEF LedgerStays
    <3>3. /\ Writes(t)' <=> led'.active = t
          /\ Slotted(t)' => led'.active = Nobody
          /\ th'[t].at = "observe" => th'[t].seen = led'.files
      BY <2>1, <3>1, <3>2 DEF AloneAt
    <3>4. th'[t].at \notin {"write", "complete", "commit"} BY DEF Writes
    <3>5. t \notin Journals' /\ led'.entry[t].state # "completed" =>
            \A p \in Purposes : \A f \in led'.files[p] : f[1] # t
      BY <3>1, <3>2 DEF AloneAt, Early
    <3> QED BY <3>3, <3>4, <3>5 DEF AloneAt, Writes, Slotted
  <2>2. AloneOK BY DEF IInv
  <2> QED BY <2>1, <2>2, AloneKept DEF Shaped
<1>5. Local(t)' BY <1>3, <1>4 DEF Local
<1> QED BY <1>1, <1>2, <1>5, Combined

(* A step that closes the ledger. *)
LEMMA LateStep ==
  ASSUME IInv, NEW t \in Threads, ThreadMoves(t), Shaped, Closes(led, led'),
         disk' = disk, ~Alone', SlotMoves(t), ShutsMove, ~Writes(t), ~Refreshes(t)', ~Writes(t)',
         Closing(t)'
  PROVE  IInv'
<1>1. /\ LedgerOK(led') /\ led'.files = led.files
      /\ \A u \in Threads :
           \/ led'.entry[u].state = led.entry[u].state
           \/ led.entry[u].state \in Open /\ led'.entry[u].state = "uncertain"
  BY DEF Closes
<1>2. \A u \in Threads : Kept(u) BY <1>1 DEF Kept
<1>3. FilesMove(t) BY <1>1 DEF FilesMove
<1>4. FilesOf(t)'
  <2>1. FilesOf(t) BY DEF IInv, FilesOK
  <2> SUFFICES ASSUME NEW p \in Purposes, NEW f \in disk'[p], f[1] = t, f # Stranger
               PROVE  FileOf(t, p, f)'
    BY DEF FilesOf
  <2>2. FileOf(t, p, f) BY <2>1 DEF FilesOf
  <2>3. th'[t].at # "write" /\ th'[t].at # "commit" BY DEF Writes
  <2> QED BY <1>1, <2>2, <2>3 DEF FileOf
<1>5. Place(t)' /\ ~Slotted(t)' BY DEF Place, Refreshes, Writes, Slotted
<1>6. AloneOK' BY DEF AloneOK
<1>7. Local(t)' BY <1>4, <1>5, <1>6 DEF Local
<1> QED BY <1>1, <1>2, <1>3, <1>7, Combined

(* A step that retains t's write, or leaves it. *)
LEMMA RetainStep ==
  ASSUME IInv, NEW t \in Threads, ThreadMoves(t), Shaped, LedgerOK(led'), led'.files = led.files,
         \A u \in Threads \ {t} : led'.entry[u] = led.entry[u],
         led'.entry[t] = led.entry[t] \/ led'.entry[t].state = "uncertain",
         disk' = disk, ~Alone', slot' = slot, tokens' = tokens, ShutsMove, th'[t].at = "idle"
  PROVE  IInv'
<1>1. \A u \in Threads \ {t} : Kept(u) BY DEF Kept
<1>2. FilesMove(t) BY DEF FilesMove
<1>3. FilesOf(t)'
  <2>1. FilesOf(t) BY DEF IInv, FilesOK
  <2> SUFFICES ASSUME NEW p \in Purposes, NEW f \in disk'[p], f[1] = t, f # Stranger
               PROVE  FileOf(t, p, f)'
    BY DEF FilesOf
  <2>2. FileOf(t, p, f) BY <2>1 DEF FilesOf
  <2> QED BY <2>2 DEF FileOf
<1>4. Place(t)' /\ ~Slotted(t)' /\ Closing(t)' BY DEF Place, Refreshes, Writes, Slotted, Closing
<1>5. AloneOK' BY DEF AloneOK
<1>6. Local(t)' BY <1>3, <1>4, <1>5 DEF Local
<1>7. SlotMoves(t) BY DEF SlotMoves
<1> QED BY <1>1, <1>2, <1>6, <1>7, Combined

(* Goto, field by field. *)
LEMMA GotoLemma ==
  ASSUME Typed, NEW t \in Threads, NEW a \in Places, Goto(t, a)
  PROVE  /\ ThreadMoves(t) /\ th'[t].at = a /\ th'[t].seen = Nothing
         /\ th'[t].why = IF a = "act" THEN th[t].why ELSE "none"
<1> DEFINE w == IF a = "act" THEN th[t].why ELSE "none"
<1>1. th \in [Threads -> ThreadType] /\ th[t] \in ThreadType BY DEF Typed
<1>2. /\ th'[t].at = a /\ th'[t].seen = Nothing /\ th'[t].why = w
      /\ th'[t].revisions = th[t].revisions
  BY <1>1 DEF Goto, ThreadType
<1>3. w \in Refreshing \cup {"none"} BY <1>1 DEF ThreadType
<1>4. Nothing \in Inventories BY DEF Nothing, Inventories
<1>5. Finite(Nothing) BY FS_EmptySet DEF Finite, Nothing
<1>6. \A u \in Threads \ {t} : th'[u] = th[u] BY <1>1 DEF Goto
<1>7. th' \in [Threads -> ThreadType]
  <2> DEFINE x == [[[th[t] EXCEPT !.at = a] EXCEPT !.seen = Nothing] EXCEPT !.why = w]
  <2>1. [th[t] EXCEPT !.at = a] \in ThreadType BY <1>1 DEF ThreadType
  <2>2. [[th[t] EXCEPT !.at = a] EXCEPT !.seen = Nothing] \in ThreadType
    BY <1>4, <2>1 DEF ThreadType
  <2> HIDE DEF w
  <2>3. x \in ThreadType BY <1>3, <2>2 DEF ThreadType
  <2>4. th' = [th EXCEPT ![t] = x] BY <1>1 DEF Goto, ThreadType, w
  <2> HIDE DEF x
  <2> QED BY <1>1, <2>3, <2>4
<1>8. ThreadMoves(t) BY <1>2, <1>5, <1>6, <1>7 DEF ThreadMoves
<1> QED BY <1>2, <1>8 DEF w

(* Where nothing of the ledger is in a thread's hands.                     *)
Calm == {"idle", "drain_publication", "drain_save", "close_publication"}

(* What holds of a thread at a calm place. *)
LEMMA CalmLemma ==
  ASSUME NEW t \in Threads, th'[t].at \in Calm
  PROVE  /\ Place(t)' /\ ~Slotted(t)' /\ Closing(t)' /\ ~Writes(t)' /\ ~Refreshes(t)'
         /\ th'[t].at # "observe"
BY DEF Calm, Place, Slotted, Closing, Writes, Refreshes

(* Where a failed refresh goes. *)
LEMMA FailureLemma ==
  ASSUME Typed, NEW t \in Threads, NEW why, AfterFailure(t, why)
  PROVE  ThreadMoves(t) /\ th'[t].at \in {"idle", "drain_publication"}
<1> DEFINE a == IF why = "admit" \/ ~own'.invalid THEN "idle" ELSE "drain_publication"
<1>1. a \in {"idle", "drain_publication"} /\ a \in Places BY DEF Places
<1>2. Goto(t, a) BY DEF AfterFailure
<1> HIDE DEF a
<1> QED BY <1>1, <1>2, GotoLemma

(* _mark_invalid_locked. *)
LEMMA InvalidLemma ==
  ASSUME Typed, LedgerOK(led), MarkInvalid
  PROVE  /\ Closes(led, led') /\ own' \in OwnType /\ own'.world = own.world
         /\ own'.closed = own.closed /\ own'.revoked = own.revoked /\ own'.invalid
<1>1. Closes(led, led') BY CloseLemma DEF MarkInvalid
<1>2. own \in OwnType BY DEF Typed
<1>3. own' = [own EXCEPT !.invalid = TRUE, !.revoking = TRUE] BY DEF MarkInvalid
<1> QED BY <1>1, <1>2, <1>3 DEF OwnType

(* A refresh that fails. *)
LEMMA FailedStep ==
  ASSUME IInv, NEW t \in Threads, NEW why, MarkInvalid, AfterFailure(t, why), ~Alone,
         UNCHANGED <<disk, tokens>>, slot' \in Threads \cup {Nobody}, SlotMoves(t), ~Writes(t)
  PROVE  IInv'
<1>0. Typed /\ LedgerOK(led) BY DEF IInv
<1>1. ThreadMoves(t) /\ th'[t].at \in Calm BY <1>0, FailureLemma DEF Calm
<1>2. /\ Closes(led, led') /\ own' \in OwnType /\ own'.world = own.world
      /\ own'.closed = own.closed /\ own'.revoked = own.revoked
  BY <1>0, InvalidLemma
<1>3. Shaped BY <1>0, <1>2 DEF Shaped, Typed
<1>4. ~Alone' BY <1>2 DEF Alone, Foreign, Faults
<1>5. ShutsMove BY <1>2 DEF ShutsMove
<1>6. Closing(t)' /\ ~Writes(t)' /\ ~Refreshes(t)' BY <1>1, CalmLemma
<1> QED BY <1>1, <1>2, <1>3, <1>4, <1>5, <1>6, LateStep

(* Nothing but the thread and the slot change. *)
LEMMA ThreadStep ==
  ASSUME IInv, NEW t \in Threads, ThreadMoves(t), UNCHANGED <<led, own, disk, tokens>>,
         slot' \in Threads \cup {Nobody}, SlotMoves(t),
         ~Writes(t), ~Writes(t)', Place(t)', (Slotted(t) => slot = t)', Closing(t)',
         Alone => (Slotted(t)' => led.active = Nobody)
                  /\ (th'[t].at = "observe" => th'[t].seen = led.files)
  PROVE  IInv'
<1>1. Typed /\ LedgerOK(led) BY DEF IInv
<1>2. Shaped BY <1>1 DEF Shaped, Typed
<1>3. LedgerOK(led') /\ LedgerStays(t) /\ Early(t) BY <1>1 DEF LedgerStays, Early
<1>4. ShutsMove BY DEF ShutsMove
<1> QED BY <1>2, <1>3, <1>4, EarlyStep

(* A claim of the refresh slot. *)
LEMMA ClaimStep ==
  ASSUME IInv, NEW t \in Threads, NEW why \in Refreshing, Claim(t, why)
  PROVE  IInv'
<1>1. Typed /\ LedgerOK(led) BY DEF IInv
<1>2. th[t].at = "idle" /\ slot = Nobody /\ Wants(t, why) /\ UNCHANGED <<disk, tokens>>
  BY DEF Claim, At
<1>3. ~Writes(t) BY <1>2 DEF Writes
<1>4. CASE OwnerLive /\ led.active = Nobody
  <2>1. slot' = t /\ th' = [th EXCEPT ![t].why = why, ![t].at = "scan"] /\ UNCHANGED <<led, own>>
    BY <1>4 DEF Claim
  <2>2. th \in [Threads -> ThreadType] /\ th[t] \in ThreadType /\ Finite(th[t].seen)
    BY <1>1 DEF Typed
  <2>3. th'[t].at = "scan" /\ th'[t].why = why /\ th'[t].seen = th[t].seen
    BY <2>1, <2>2 DEF ThreadType
  <2>4. ThreadMoves(t) BY <2>1, <2>2, <2>3 DEF ThreadMoves, ThreadType, Places
  <2>5. Place(t)'
    <3>1. Journals' = Journals /\ led' = led BY <2>1 DEF Journals
    <3>2. EntryOK(led, t) BY <1>1 DEF LedgerOK
    <3>3. why = "begin" => led.entry[t].state = "none" BY <1>2 DEF Wants
    <3>4. why = "reserve" => led.entry[t].state = "open" /\ t \notin Journals BY <1>2 DEF Wants
    <3>5. why = "admit" => IF t \in Journals THEN led.entry[t].state \in {"open", "completed"}
                           ELSE led.entry[t].state = "reserved"
      BY <1>2, <3>2 DEF Wants, EntryOK
    <3>6. ~Writes(t)' BY <2>3 DEF Writes
    <3> QED BY <2>3, <3>1, <3>3, <3>4, <3>5, <3>6 DEF Place, Finds, Refreshes
  <2>6. SlotMoves(t) BY <1>2, <2>1 DEF SlotMoves
  <2>7. ~Writes(t)' /\ Closing(t)' /\ th'[t].at # "observe" BY <2>3 DEF Writes, Closing
  <2>8. (Slotted(t) => slot = t)' BY <2>1
  <2> QED BY <1>2, <1>3, <1>4, <2>1, <2>4, <2>5, <2>6, <2>7, <2>8, ThreadStep
<1>5. CASE ~(OwnerLive /\ led.active = Nobody)
  <2>1. /\ IF OwnerLive THEN UNCHANGED <<led, own>> ELSE MarkInvalid
        /\ UNCHANGED slot /\ AfterFailure(t, why)
    BY <1>5 DEF Claim
  <2>2. slot' \in Threads \cup {Nobody} /\ SlotMoves(t) BY <1>1, <2>1 DEF Typed, SlotMoves
  <2>3. CASE OwnerLive
    <3>1. ThreadMoves(t) /\ th'[t].at \in Calm BY <1>1, <2>1, FailureLemma DEF Calm
    <3>2. Place(t)' /\ ~Slotted(t)' /\ Closing(t)' /\ ~Writes(t)' /\ th'[t].at # "observe"
      BY <3>1, CalmLemma
    <3>3. (Slotted(t) => slot = t)' BY <3>2
    <3> QED BY <1>2, <1>3, <2>1, <2>2, <2>3, <3>1, <3>2, <3>3, ThreadStep
  <2>4. CASE ~OwnerLive
    <3>1. ~Alone BY <2>4 DEF IInv, AloneOK, Known
    <3> QED BY <1>2, <1>3, <2>1, <2>2, <2>4, <3>1, FailedStep
  <2> QED BY <2>3, <2>4
<1> QED BY <1>4, <1>5

(* The scan outside the lock. *)
LEMMA ScanStep ==
  ASSUME IInv, NEW t \in Threads, Scan(t)
  PROVE  IInv'
<1>1. Typed /\ LedgerOK(led) BY DEF IInv
<1>2. th[t].at = "scan" /\ UNCHANGED <<disk, tokens>> BY DEF Scan, At
<1>3. ~Writes(t) /\ slot = t /\ Slotted(t)
  <2>1. Slotted(t) /\ ~Writes(t) BY <1>2 DEF Slotted, Writes
  <2> QED BY <2>1 DEF IInv, SlotOK
<1>4. CASE th' = [th EXCEPT ![t].at = "observe", ![t].seen = disk] /\ UNCHANGED <<led, own, slot>>
  <2>2. th \in [Threads -> ThreadType] /\ th[t] \in ThreadType /\ disk \in Inventories /\ Finite(disk)
    BY <1>1 DEF Typed
  <2>3. th'[t].at = "observe" /\ th'[t].why = th[t].why /\ th'[t].seen = disk
    BY <1>4, <2>2 DEF ThreadType
  <2>4. ThreadMoves(t) BY <1>4, <2>2, <2>3 DEF ThreadMoves, ThreadType, Places
  <2>5. Place(t)'
    <3>1. Place(t) /\ Journals' = Journals /\ led' = led BY <1>4 DEF IInv, PlacesOK, Journals
    <3> QED BY <1>2, <2>3, <3>1 DEF Place, Finds, Refreshes, Writes
  <2>6. SlotMoves(t) /\ slot' \in Threads \cup {Nobody} BY <1>1, <1>4 DEF SlotMoves, Typed
  <2>7. ~Writes(t)' /\ Closing(t)' BY <2>3 DEF Writes, Closing
  <2>8. (Slotted(t) => slot = t)' BY <1>3, <1>4
  <2>9. Alone => led.active = Nobody /\ disk = led.files
    BY <1>3 DEF IInv, AloneOK, AloneAt, Known
  <2> QED BY <1>2, <1>3, <1>4, <2>3, <2>4, <2>5, <2>6, <2>7, <2>8, <2>9, ThreadStep
<1>5. CASE Faults /\ MarkInvalid /\ AfterFailure(t, th[t].why) /\ Frees(t)
  <2>1. slot' = Nobody BY <1>3, <1>5 DEF Frees
  <2>2. slot' \in Threads \cup {Nobody} /\ SlotMoves(t) BY <1>3, <2>1 DEF SlotMoves
  <2>3. ~Alone BY <1>5 DEF Alone
  <2> QED BY <1>2, <1>3, <1>5, <2>2, <2>3, FailedStep
<1> QED BY <1>4, <1>5 DEF Scan

(* The observation under the lock. *)
LEMMA ObserveStep ==
  ASSUME IInv, NEW t \in Threads, Observe(t)
  PROVE  IInv'
<1>1. Typed /\ LedgerOK(led) BY DEF IInv
<1>2. th[t].at = "observe" /\ UNCHANGED <<disk, tokens>> BY DEF Observe, At
<1>3. ~Writes(t) /\ slot = t /\ Slotted(t)
  <2>1. Slotted(t) /\ ~Writes(t) BY <1>2 DEF Slotted, Writes
  <2> QED BY <2>1 DEF IInv, SlotOK
<1>4. CASE OwnerLive /\ th[t].seen = led.files
  <2> DEFINE a == IF th[t].why = "readiness" THEN "idle" ELSE "act"
  <2>1. /\ UNCHANGED <<led, own>> /\ slot' = IF th[t].why = "admit" THEN slot ELSE Nobody
        /\ Goto(t, a)
    BY <1>4 DEF Observe
  <2>2. a \in Places BY DEF Places
  <2>3. /\ ThreadMoves(t) /\ th'[t].at = a /\ th'[t].seen = Nothing
        /\ a = "act" => th'[t].why = th[t].why
    <3> HIDE DEF a
    <3> QED BY <1>1, <2>1, <2>2, GotoLemma
  <2>4. th'[t].at \in {"idle", "act"} BY <2>3
  <2>5. Place(t)'
    <3>1. Place(t) /\ Journals' = Journals /\ led' = led BY <2>1 DEF IInv, PlacesOK, Journals
    <3> QED BY <1>2, <2>3, <2>4, <3>1 DEF Place, Finds, Refreshes, Writes
  <2>6. SlotMoves(t) /\ slot' \in Threads \cup {Nobody} BY <1>1, <1>3, <2>1 DEF SlotMoves, Typed
  <2>7. ~Writes(t)' /\ Closing(t)' /\ th'[t].at # "observe" BY <2>4 DEF Writes, Closing
  <2>8. (Slotted(t) => slot = t)' BY <1>3, <2>1, <2>3 DEF Slotted
  <2>9. Alone => led.active = Nobody BY <1>3 DEF IInv, AloneOK, AloneAt
  <2> QED BY <1>2, <1>3, <2>1, <2>3, <2>5, <2>6, <2>7, <2>8, <2>9, ThreadStep
<1>5. CASE ~(OwnerLive /\ th[t].seen = led.files)
  <2>1. /\ Frees(t) /\ IF Live THEN MarkInvalid ELSE UNCHANGED <<led, own>>
        /\ AfterFailure(t, th[t].why)
    BY <1>5 DEF Observe
  <2>2. slot' \in Threads \cup {Nobody} /\ SlotMoves(t) BY <1>3, <2>1 DEF Frees, SlotMoves
  <2>3. CASE Live
    <3>1. ~Alone BY <1>2, <1>5 DEF IInv, AloneOK, AloneAt, Known
    <3> QED BY <1>2, <1>3, <2>1, <2>2, <2>3, <3>1, FailedStep
  <2>4. CASE ~Live
    <3>1. ThreadMoves(t) /\ th'[t].at \in Calm BY <1>1, <2>1, FailureLemma DEF Calm
    <3>2. Place(t)' /\ ~Slotted(t)' /\ Closing(t)' /\ ~Writes(t)' /\ th'[t].at # "observe"
      BY <3>1, CalmLemma
    <3>3. (Slotted(t) => slot = t)' BY <3>2
    <3> QED BY <1>2, <1>3, <2>1, <2>2, <2>4, <3>1, <3>2, <3>3, ThreadStep
  <2> QED BY <2>3, <2>4
<1> QED BY <1>4, <1>5

(* A step of the owner alone, from a calm or closing place to one where    *)
(* nothing is held.                                                        *)
LEMMA OwnerStep ==
  ASSUME IInv, NEW t \in Threads, ThreadMoves(t), UNCHANGED <<led, disk, slot>>,
         own' \in OwnType, own'.world = own.world, own'.closed = own.closed,
         own'.invalid = own.invalid, tokens' \in [Boundaries -> SUBSET Threads],
         ShutsMove, ~Writes(t), ~Writes(t)', ~Refreshes(t)', Closing(t)'
  PROVE  IInv'
<1>1. Typed /\ LedgerOK(led) BY DEF IInv
<1>2. Shaped BY <1>1 DEF Shaped, Typed
<1>3. LedgerOK(led') /\ LedgerStays(t) /\ Early(t) BY <1>1 DEF LedgerStays, Early
<1>4. Place(t)' /\ ~Slotted(t)' /\ th'[t].at # "observe"
  BY DEF Place, Slotted, Refreshes, Writes
<1>5. SlotMoves(t) BY DEF SlotMoves
<1>6. (Slotted(t) => slot = t)' BY <1>4
<1> QED BY <1>2, <1>3, <1>4, <1>5, <1>6, EarlyStep

(* _drain_invalidated_publications. *)
LEMMA DrainStep ==
  ASSUME IInv, NEW t \in Threads, Drain(t)
  PROVE  IInv'
<1>1. Typed BY DEF IInv
<1>2. UNCHANGED <<led, disk, slot, tokens>> BY DEF Drain
<1>3. PICK k \in Boundaries, a \in Calm :
        /\ th[t].at \in {"drain_publication", "drain_save"} /\ Goto(t, a)
        /\ own' = [own EXCEPT !.revoked = @ \cup {k}]
  BY DEF Drain, At, Boundaries, Calm
<1>4. /\ own' \in OwnType /\ own'.world = own.world /\ own'.closed = own.closed
      /\ own'.invalid = own.invalid /\ own'.revoked = own.revoked \cup {k}
  BY <1>1, <1>3 DEF Typed, OwnType
<1>5. ThreadMoves(t) /\ th'[t].at = a
  <2>1. a \in Places BY DEF Calm, Places
  <2> QED BY <1>1, <1>3, <2>1, GotoLemma
<1>6. Closing(t)' /\ ~Writes(t)' /\ ~Refreshes(t)' BY <1>5, CalmLemma
<1>7. ~Writes(t) BY <1>3 DEF Writes
<1>8. ShutsMove BY <1>2, <1>4 DEF ShutsMove
<1>9. tokens' \in [Boundaries -> SUBSET Threads] BY <1>1, <1>2 DEF Typed
<1> QED BY <1>2, <1>4, <1>5, <1>6, <1>7, <1>8, <1>9, OwnerStep

(* A ledger call of t before its write, from its act or from idle.         *)
LEMMA CallStep ==
  ASSUME IInv, NEW t \in Threads, ThreadMoves(t), th'[t].at \in Calm, ~Writes(t),
         UNCHANGED <<own, disk, tokens>>, slot' \in Threads \cup {Nobody}, SlotMoves(t),
         LedgerOK(led'), LedgerStays(t), Early(t)
  PROVE  IInv'
<1>1. Typed BY DEF IInv
<1>2. Shaped BY <1>1 DEF Shaped, Typed
<1>3. /\ Place(t)' /\ ~Slotted(t)' /\ Closing(t)' /\ ~Writes(t)' /\ th'[t].at # "observe"
  BY CalmLemma
<1>4. ShutsMove BY DEF ShutsMove
<1>5. (Slotted(t) => slot = t)' BY <1>3
<1> QED BY <1>2, <1>3, <1>4, <1>5, EarlyStep

(* A ledger call that turned t's entry. *)
LEMMA StaysLemma ==
  ASSUME NEW t \in Threads, NEW e, Turns(led, led', t, e), SameBase(led, led'),
         led'.active = led.active
  PROVE  LedgerStays(t)
BY DEF Turns, SameBase, LedgerStays

(* begin. *)
LEMMA BeginStep ==
  ASSUME IInv, NEW t \in Threads, Begin(t)
  PROVE  IInv'
<1>1. Typed /\ LedgerOK(led) BY DEF IInv
<1>2. /\ th[t].at = "act" /\ th[t].why = "begin" /\ Goto(t, "idle")
      /\ UNCHANGED <<own, disk, slot, tokens>>
  BY DEF Begin, At
<1>3. ThreadMoves(t) /\ th'[t].at = "idle"
  <2>1. "idle" \in Places BY DEF Places
  <2> QED BY <1>1, <1>2, <2>1, GotoLemma
<1>4. ~Writes(t) /\ led.entry[t].state = "none"
  <2>1. Place(t) /\ Refreshes(t) /\ ~Writes(t) BY <1>2 DEF IInv, PlacesOK, Refreshes, Writes
  <2> QED BY <1>2, <2>1 DEF Place, Finds
<1>5. LedgerOK(led') /\ LedgerStays(t)
  <2>1. CASE led' = led BY <1>1, <2>1 DEF LedgerStays
  <2>2. CASE led' = [led EXCEPT !.entry[t].state = "open"]
    <3>1. /\ LedgerOK(led') /\ Turns(led, led', t, [led.entry[t] EXCEPT !.state = "open"])
          /\ SameBase(led, led') /\ led'.active = led.active
      BY <1>1, <1>4, <2>2, OpenLemma
    <3> QED BY <3>1, StaysLemma
  <2> QED BY <2>1, <2>2 DEF Begin
<1>6. Early(t) /\ slot' \in Threads \cup {Nobody} /\ SlotMoves(t) /\ th'[t].at \in Calm
  BY <1>1, <1>2, <1>3, <1>4 DEF Early, SlotMoves, Typed, Calm
<1> QED BY <1>2, <1>3, <1>4, <1>5, <1>6, CallStep

(* reserve. *)
LEMMA ReserveStep ==
  ASSUME IInv, NEW t \in Threads, Reserve(t)
  PROVE  IInv'
<1>1. Typed /\ LedgerOK(led) BY DEF IInv
<1>2. /\ th[t].at = "act" /\ th[t].why = "reserve" /\ Goto(t, "idle")
      /\ UNCHANGED <<own, disk, slot, tokens>>
  BY DEF Reserve, At
<1>3. ThreadMoves(t) /\ th'[t].at = "idle"
  <2>1. "idle" \in Places BY DEF Places
  <2> QED BY <1>1, <1>2, <2>1, GotoLemma
<1>4. ~Writes(t) /\ led.entry[t].state = "open" /\ t \notin Journals
  <2>1. Place(t) /\ Refreshes(t) /\ ~Writes(t) BY <1>2 DEF IInv, PlacesOK, Refreshes, Writes
  <2> QED BY <1>2, <2>1 DEF Place, Finds
<1>5. LedgerOK(led') /\ LedgerStays(t)
  <2>1. PICK p \in Assets, n \in Sizes :
          led' = IF OwnerLive /\ Fits(led, p, n) THEN Reserved(led, t, p, n) ELSE led
    BY DEF Reserve
  <2>2. CASE led' = led BY <1>1, <2>2 DEF LedgerStays
  <2>3. CASE OwnerLive /\ Fits(led, p, n) /\ led' = Reserved(led, t, p, n)
    <3>1. LedgerLive(led) BY <2>3 DEF OwnerLive
    <3>2. Fits(led, p, n) /\ led' = Reserved(led, t, p, n) BY <2>3
    <3>3. t \in Threads /\ p \in Assets /\ n \in Sizes OBVIOUS
    <3>4. /\ LedgerOK(led') /\ SameBase(led, led') /\ led'.active = led.active
          /\ Turns(led, led', t, AsReserved(led, t, p, n))
      BY ONLY <1>1, <1>4, <3>1, <3>2, <3>3, ReserveLemma
    <3> QED BY <3>4, StaysLemma
  <2> QED BY <2>1, <2>2, <2>3
<1>6. Early(t) /\ slot' \in Threads \cup {Nobody} /\ SlotMoves(t) /\ th'[t].at \in Calm
  BY <1>1, <1>2, <1>3, <1>4 DEF Early, SlotMoves, Typed, Calm
<1> QED BY <1>2, <1>3, <1>4, <1>5, <1>6, CallStep

(* cancel_before_write. *)
LEMMA CancelBeforeStep ==
  ASSUME IInv, NEW t \in Threads, CancelBeforeWrite(t)
  PROVE  IInv'
<1>1. Typed /\ LedgerOK(led) BY DEF IInv
<1>2. /\ th[t].at = "idle" /\ OwnerLive /\ led.entry[t].state = "reserved"
      /\ led' = [Released(led, t) EXCEPT !.entry[t].state = "cancelled"]
      /\ UNCHANGED <<own, disk, slot, tokens, th>>
  BY DEF CancelBeforeWrite, At
<1>3. ThreadMoves(t) /\ th'[t].at \in Calm BY <1>1, <1>2 DEF ThreadMoves, Typed, Calm
<1>4. ~Writes(t) /\ LedgerLive(led) BY <1>2 DEF Writes, OwnerLive
<1>5. Leaves(led, led', t, "cancelled") /\ led'.invalid = led.invalid /\ led'.active = led.active
  BY <1>1, <1>2, <1>4, CancelBefore
<1>6. LedgerOK(led') /\ LedgerStays(t) BY <1>5 DEF Leaves, LedgerStays, Turns
<1>7. Early(t) /\ slot' \in Threads \cup {Nobody} /\ SlotMoves(t)
  BY <1>1, <1>2 DEF Early, SlotMoves, Typed
<1> QED BY <1>2, <1>3, <1>4, <1>6, <1>7, CallStep

(* An admission. *)
LEMMA AdmittedLemma ==
  ASSUME LedgerOK(led), NEW t \in Threads, Place(t), th[t].at = "act", th[t].why = "admit",
         OwnerLive, led.active = Nobody,
         IF t \in Journals THEN Fits(led, "journal", MaxSize) ELSE led.entry[t].state = "reserved",
         led' = Admitted(IF t \in Journals THEN JournalEntered(led, t) ELSE led, t)
  PROVE  /\ Admits(led, led', t) /\ led.entry[t].state \in {"open", "completed", "reserved"}
         /\ t \notin Journals => led.entry[t].state = "reserved"
<1>1. LedgerLive(led) BY DEF OwnerLive
<1>2. CASE t \in Journals
  <2>1. led.entry[t].state \in {"open", "completed"}
    BY <1>2 DEF Place, Refreshes, Finds
  <2>2. Admits(led, Admitted(JournalEntered(led, t), t), t)
    BY <1>1, <1>2, <2>1, AdmitJournalLemma
  <2> QED BY <1>2, <2>1, <2>2
<1>3. CASE t \notin Journals
  <2>1. led.entry[t].state = "reserved" BY <1>3
  <2>2. Admits(led, Admitted(led, t), t) BY <1>1, <2>1, AdmitLemma
  <2> QED BY <1>3, <2>1, <2>2
<1> QED BY <1>2, <1>3

(* An admission under the slot. *)
LEMMA AdmitStep ==
  ASSUME IInv, NEW t \in Threads, Admit(t)
  PROVE  IInv'
<1>1. Typed /\ LedgerOK(led) BY DEF IInv
<1>2. /\ th[t].at = "act" /\ th[t].why = "admit" /\ Frees(t) /\ UNCHANGED <<own, disk, tokens>>
  BY DEF Admit, At
<1>3. Slotted(t) /\ slot = t /\ ~Writes(t) /\ Place(t) /\ FilesOf(t)
  <2>1. Slotted(t) /\ ~Writes(t) BY <1>2 DEF Slotted, Writes
  <2> QED BY <2>1 DEF IInv, SlotOK, PlacesOK, FilesOK
<1>4. slot' \in Threads \cup {Nobody} /\ SlotMoves(t) BY <1>2, <1>3 DEF Frees, SlotMoves
<1>5. CASE UNCHANGED led /\ Goto(t, "idle")
  <2>1. ThreadMoves(t) /\ th'[t].at \in Calm
    <3>1. "idle" \in Places /\ "idle" \in Calm BY DEF Places, Calm
    <3> QED BY <1>1, <1>5, <3>1, GotoLemma
  <2>2. Place(t)' /\ ~Slotted(t)' /\ Closing(t)' /\ ~Writes(t)' /\ th'[t].at # "observe"
    BY <2>1, CalmLemma
  <2>3. (Slotted(t) => slot = t)' BY <2>2
  <2> QED BY <1>2, <1>3, <1>4, <1>5, <2>1, <2>2, <2>3, ThreadStep
<1>6. CASE ~(UNCHANGED led /\ Goto(t, "idle"))
  <2>1. /\ OwnerLive /\ led.active = Nobody
        /\ IF t \in Journals THEN Fits(led, "journal", MaxSize) ELSE led.entry[t].state = "reserved"
        /\ led' = Admitted(IF t \in Journals THEN JournalEntered(led, t) ELSE led, t)
        /\ th' = [th EXCEPT ![t].at = "write", ![t].why = "none",
                            ![t].revisions = IF t \in Journals THEN @ + 1 ELSE @]
    BY <1>6 DEF Admit, Admitted, JournalEntered
  <2>2. /\ LedgerOK(led') /\ SameBase(led, led') /\ led'.active = t
        /\ led'.entry[t].state = "writing" /\ led.entry[t].state \in {"open", "completed", "reserved"}
        /\ t \notin Journals => led.entry[t].state = "reserved"
        /\ \A u \in Threads \ {t} : led'.entry[u] = led.entry[u]
    BY <1>1, <1>2, <1>3, <2>1, AdmittedLemma DEF Admits
  <2>3. th \in [Threads -> ThreadType] /\ th[t] \in ThreadType /\ Finite(th[t].seen)
    BY <1>1 DEF Typed
  <2>4. /\ th'[t].at = "write" /\ th'[t].why = "none" /\ th'[t].seen = th[t].seen
        /\ th' \in [Threads -> ThreadType] /\ \A u \in Threads \ {t} : th'[u] = th[u]
    <3> DEFINE r == IF t \in Journals THEN th[t].revisions + 1 ELSE th[t].revisions
               x == [[th[t] EXCEPT !.at = "write"] EXCEPT !.why = "none"]
               y == [x EXCEPT !.revisions = r]
    <3>1. r \in Nat BY <2>3 DEF ThreadType
    <3>2. x \in ThreadType /\ x.at = "write" /\ x.why = "none" /\ x.seen = th[t].seen
      BY <2>3 DEF ThreadType, Places
    <3>3. th' = [th EXCEPT ![t] = y] BY <2>1, <2>3 DEF ThreadType
    <3> HIDE DEF r, x
    <3>4. y \in ThreadType /\ y.at = "write" /\ y.why = "none" /\ y.seen = th[t].seen
      BY <3>1, <3>2 DEF ThreadType
    <3> HIDE DEF y
    <3> QED BY <2>3, <3>3, <3>4
  <2>5. ThreadMoves(t) BY <2>3, <2>4 DEF ThreadMoves
  <2>6. Shaped BY <1>1, <1>2, <1>4 DEF Shaped, Typed
  <2>7. \A u \in Threads \ {t} : Kept(u) BY <2>2 DEF Kept
  <2>8. FilesMove(t) /\ ShutsMove BY <1>2, <2>2 DEF FilesMove, ShutsMove, SameBase
  <2>9. Place(t)' /\ ~Slotted(t)' /\ Closing(t)'
    BY <2>2, <2>4 DEF Place, Slotted, Closing, Refreshes, Writes, Finds
  <2>10. FilesOf(t)'
    <3> SUFFICES ASSUME NEW p \in Purposes, NEW f \in disk'[p], f[1] = t, f # Stranger
                 PROVE  FileOf(t, p, f)'
      BY DEF FilesOf
    <3>1. FileOf(t, p, f) BY <1>2, <1>3 DEF FilesOf
    <3> QED BY <2>2, <2>4, <3>1 DEF FileOf, SameBase
  <2>11. AloneOK'
    <3>1. Journals' = Journals /\ (Alone' <=> Alone)
      BY <1>2 DEF Journals, Alone, Foreign, Faults
    <3> SUFFICES ASSUME Alone PROVE Known' /\ \A u \in Threads : AloneAt(u)'
      BY <3>1 DEF AloneOK
    <3>2. Known /\ \A u \in Threads : AloneAt(u) BY DEF IInv, AloneOK
    <3>3. t # Nobody BY Constants
    <3>4. Known'
      BY <1>2, <2>2, <3>2, <3>3 DEF Known, OwnerLive, Live, LedgerLive, SameBase
    <3>5. ASSUME NEW u \in Threads \ {t} PROVE AloneAt(u)'
      <4>1. ~Writes(u) BY <2>1, <3>2, Constants DEF AloneAt
      <4>2. ~Slotted(u) BY <1>3 DEF IInv, SlotOK
      <4>3. AloneAt(u) /\ led'.entry[u] = led.entry[u] /\ led'.active \in {t, Nobody}
            /\ own'.world = own.world
        BY <1>2, <2>2, <3>2
      <4>4. \A p \in Purposes : \A f \in led'.files[p] : f \in led.files[p] \/ f[1] = t
        BY <2>2 DEF SameBase
      <4> QED BY <2>5, <4>1, <4>2, <4>3, <4>4, AloneOthers
    <3>6. AloneAt(t)'
      <4>1. Writes(t)' /\ ~Slotted(t)' BY <2>4 DEF Writes, Slotted
      <4>2. disk' = led'.files BY <1>2, <2>1, <2>2, <3>2 DEF Known, SameBase
      <4>3. t \notin Journals' =>
              \A p \in Purposes : \A f \in led'.files[p] : f[1] # t
        BY <2>2, <3>1, <3>2 DEF AloneAt, SameBase
      <4> QED BY <2>2, <2>4, <4>1, <4>2, <4>3 DEF AloneAt, Writes, Slotted
    <3> QED BY <3>4, <3>5, <3>6
  <2>12. Local(t)' BY <2>9, <2>10, <2>11 DEF Local
  <2> QED BY <1>4, <2>2, <2>5, <2>6, <2>7, <2>8, <2>12, Combined
<1> QED BY <1>5, <1>6

(* The writer's file. *)
LEMMA CreateStep ==
  ASSUME IInv, NEW t \in Threads, Create(t)
  PROVE  IInv'
<1> DEFINE e == led.entry[t]
           p == e.purpose
<1>1. Typed /\ LedgerOK(led) BY DEF IInv
<1>2. th[t].at = "write" /\ Goto(t, "complete") /\ UNCHANGED <<led, own, slot, tokens>>
  BY DEF Create, At
<1>3. Writes(t) /\ Place(t) /\ FilesOf(t)
  <2>1. Writes(t) BY <1>2 DEF Writes
  <2> QED BY <2>1 DEF IInv, PlacesOK, FilesOK
<1>4. e \in EntryType /\ p \in Purposes /\ e.est \in Nat BY <1>1 DEF LedgerOK, LedgerType, EntryType
<1>5. ThreadMoves(t) /\ th'[t].at = "complete"
  <2>1. "complete" \in Places BY DEF Places
  <2> QED BY <1>1, <1>2, <2>1, GotoLemma
<1>6. PICK n \in (IF Faults THEN Sizes ELSE 1 .. e.est) :
        disk' = [disk EXCEPT ![p] = (@ \ e.old) \cup {<<t, n>>}]
  BY DEF Create
<1>7. n \in Nat /\ (~Faults => n \in 1 .. e.est) BY <1>4, <1>6, Constants DEF Sizes
<1> HIDE DEF p
<1>8. /\ disk \in Inventories /\ Finite(disk)
      /\ \A q \in Purposes :
           disk'[q] = IF q = p THEN (disk[p] \ e.old) \cup {<<t, n>>} ELSE disk[q]
  BY <1>1, <1>4, <1>6 DEF Typed, Inventories
<1>9. disk' \in Inventories
  <2>1. <<t, n>> \in Files BY <1>7 DEF Files
  <2> QED BY <1>4, <1>6, <1>8, <2>1 DEF Inventories
<1>10. Finite(disk')
  <2> SUFFICES ASSUME NEW q \in Purposes PROVE IsFiniteSet(disk'[q]) BY DEF Finite
  <2>1. IsFiniteSet(disk[q]) BY <1>8 DEF Finite
  <2>2. disk[q] \ e.old \in SUBSET disk[q] OBVIOUS
  <2>3. IsFiniteSet(disk[q] \ e.old) BY <2>1, <2>2, FS_Subset
  <2>4. IsFiniteSet((disk[q] \ e.old) \cup {<<t, n>>}) BY <2>3, FS_AddElement
  <2> QED BY <1>8, <2>1, <2>4
<1>11. Shaped BY <1>1, <1>2, <1>9, <1>10 DEF Shaped, Typed
<1>12. \A u \in Threads \ {t} : Kept(u) BY <1>2 DEF Kept
<1>13. FilesMove(t)
  <2>1. <<t, n>>[1] = t OBVIOUS
  <2> QED BY <1>2, <1>8, <2>1 DEF FilesMove
<1>14. ShutsMove /\ SlotMoves(t) BY <1>2 DEF ShutsMove, SlotMoves
<1>15. Place(t)' /\ ~Slotted(t)' /\ Closing(t)'
  BY <1>2, <1>3, <1>5 DEF Place, Slotted, Closing, Refreshes, Writes, Finds
<1>16. FilesOf(t)'
  <2> SUFFICES ASSUME NEW q \in Purposes, NEW f \in disk'[q], f[1] = t, f # Stranger
               PROVE  FileOf(t, q, f)'
    BY DEF FilesOf
  <2>1. led.entry[t].state \in {"writing", "uncertain"} BY <1>3 DEF Place, Finds
  <2> QED BY <1>2, <1>5, <2>1 DEF FileOf
<1>17. AloneOK'
  <2>1. Journals' = Journals /\ (Alone' <=> Alone)
    BY <1>2 DEF Journals, Alone, Foreign, Faults
  <2> SUFFICES ASSUME Alone PROVE Known' /\ \A u \in Threads : AloneAt(u)'
    BY <2>1 DEF AloneOK
  <2>2. Known /\ \A u \in Threads : AloneAt(u) BY DEF IInv, AloneOK
  <2>3. led.active = t /\ t # Nobody /\ disk = led.files
    BY <1>2, <1>3, <2>2, Constants DEF AloneAt
  <2>4. Known' BY <1>2, <2>2, <2>3 DEF Known, OwnerLive, Live, LedgerLive
  <2>5. ASSUME NEW u \in Threads \ {t} PROVE AloneAt(u)'
    <3>1. ~Writes(u) /\ ~Slotted(u) /\ AloneAt(u) BY <2>2, <2>3 DEF AloneAt
    <3>2. led'.entry[u] = led.entry[u] /\ led'.active \in {t, Nobody} /\ own'.world = own.world
      BY <1>2, <2>3
    <3>3. \A q \in Purposes : \A f \in led'.files[q] : f \in led.files[q] \/ f[1] = t BY <1>2
    <3> QED BY <1>5, <3>1, <3>2, <3>3, AloneOthers
  <2>6. AloneAt(t)'
    <3>1. Wrote(t)'
      <4>1. n \in 1 .. e.est BY <1>7 DEF Alone
      <4>2. disk' = [led'.files EXCEPT ![p] = (@ \ e.old) \cup {<<t, n>>}] BY <1>2, <1>6, <2>3
      <4> QED BY <1>2, <4>1, <4>2 DEF Wrote, p
    <3>2. Writes(t)' /\ ~Slotted(t)' BY <1>5 DEF Writes, Slotted
    <3>3. led'.active = t BY <1>2, <2>3
    <3>4. t \notin Journals' /\ led'.entry[t].state # "completed" =>
            \A q \in Purposes : \A f \in led'.files[q] : f[1] # t
      BY <1>2, <2>1, <2>2 DEF AloneAt
    <3> QED BY <1>5, <3>1, <3>2, <3>3, <3>4 DEF AloneAt, Writes, Slotted
  <2> QED BY <2>4, <2>5, <2>6
<1>18. Local(t)' BY <1>15, <1>16, <1>17 DEF Local
<1>19. LedgerOK(led') BY <1>1, <1>2
<1> QED BY <1>5, <1>11, <1>12, <1>13, <1>14, <1>18, <1>19, Combined

(* The active writer ends its write. *)
LEMMA EndStep ==
  ASSUME IInv, NEW t \in Threads, ThreadMoves(t), th'[t].at = "idle", led.active = t,
         LedgerOK(led'), led'.active = Nobody, led'.closed = led.closed,
         \A u \in Threads \ {t} : led'.entry[u] = led.entry[u],
         \A p \in Purposes : \A f \in led.files[p] : f[1] = t \/ f \in led'.files[p],
         UNCHANGED <<own, disk, slot, tokens>>, FilesOf(t)',
         Alone =>
           /\ led'.invalid = led.invalid /\ led'.files = disk
           /\ \A p \in Purposes : \A f \in led'.files[p] : f \in led.files[p] \/ f[1] = t
           /\ \A p \in Purposes : led'.files[p] \subseteq Threads \X Nat
           /\ t \notin Journals /\ led'.entry[t].state # "completed" =>
                \A p \in Purposes : \A f \in led'.files[p] : f[1] # t
  PROVE  IInv'
<1>1. Typed BY DEF IInv
<1>2. Shaped BY <1>1 DEF Shaped, Typed
<1>3. \A u \in Threads \ {t} : Kept(u) BY DEF Kept
<1>4. FilesMove(t) BY DEF FilesMove
<1>5. ShutsMove /\ SlotMoves(t) BY DEF ShutsMove, SlotMoves
<1>6. Place(t)' /\ ~Slotted(t)' /\ Closing(t)' /\ ~Writes(t)'
  BY DEF Place, Slotted, Refreshes, Writes, Closing
<1>7. AloneOK'
  <2>1. Journals' = Journals /\ (Alone' <=> Alone) BY DEF Journals, Alone, Foreign, Faults
  <2> SUFFICES ASSUME Alone PROVE Known' /\ \A u \in Threads : AloneAt(u)'
    BY <2>1 DEF AloneOK
  <2>2. Known /\ \A u \in Threads : AloneAt(u) BY DEF IInv, AloneOK
  <2>3. Known' BY <2>2 DEF Known, OwnerLive, Live, LedgerLive
  <2>4. ASSUME NEW u \in Threads \ {t} PROVE AloneAt(u)'
    <3>1. ~Writes(u) /\ ~Slotted(u) /\ AloneAt(u) BY <2>2, Constants DEF AloneAt
    <3>2. led'.entry[u] = led.entry[u] /\ led'.active \in {t, Nobody} /\ own'.world = own.world
      OBVIOUS
    <3>3. \A p \in Purposes : \A f \in led'.files[p] : f \in led.files[p] \/ f[1] = t OBVIOUS
    <3> QED BY <3>1, <3>2, <3>3, AloneOthers
  <2>5. AloneAt(t)'
    <3>1. t # Nobody BY Constants
    <3>2. t \notin Journals' /\ led'.entry[t].state # "completed" =>
            \A p \in Purposes : \A f \in led'.files[p] : f[1] # t
      BY <2>1
    <3> QED BY <1>6, <3>1, <3>2 DEF AloneAt
  <2> QED BY <2>3, <2>4, <2>5
<1>8. Local(t)' BY <1>6, <1>7 DEF Local
<1> QED BY <1>2, <1>3, <1>4, <1>5, <1>8, Combined

(* cancel_write_before_create. *)
LEMMA CancelWriteStep ==
  ASSUME IInv, NEW t \in Threads, CancelWrite(t)
  PROVE  IInv'
<1>1. Typed /\ LedgerOK(led) BY DEF IInv
<1>2. /\ th[t].at = "write" /\ t \notin Journals /\ OwnerLive /\ led.active = t
      /\ Goto(t, "idle") /\ UNCHANGED <<own, disk, slot, tokens>>
      /\ led' = Cancelled(led, t)
  BY DEF CancelWrite, Cancelled, At
<1>3. LedgerLive(led) BY <1>2 DEF OwnerLive
<1>4. Leaves(led, led', t, "cancelled") /\ led'.invalid = led.invalid /\ led'.active = Nobody
  BY <1>1, <1>2, <1>3, CancelActive
<1>5. /\ LedgerOK(led') /\ Turns(led, led', t, [led.entry[t] EXCEPT !.state = "cancelled"])
      /\ led'.closed = led.closed /\ led'.files = led.files
  BY <1>4 DEF Leaves
<1>6. \A u \in Threads \ {t} : led'.entry[u] = led.entry[u] BY <1>5 DEF Turns
<1>7. ThreadMoves(t) /\ th'[t].at = "idle"
  <2>1. "idle" \in Places BY DEF Places
  <2> QED BY <1>1, <1>2, <2>1, GotoLemma
<1>8. led.entry[t].state = "writing" BY <1>1, <1>2 DEF LedgerOK, EntryOK
<1>9. FilesOf(t)'
  <2> SUFFICES ASSUME NEW p \in Purposes, NEW f \in disk'[p], f[1] = t, f # Stranger
               PROVE  FileOf(t, p, f)'
    BY DEF FilesOf
  <2>1. FileOf(t, p, f) BY <1>2 DEF IInv, FilesOK, FilesOf
  <2> QED BY <1>2, <1>5, <1>7, <1>8, <2>1 DEF FileOf
<1>10. \A p \in Purposes : \A f \in led.files[p] : f[1] = t \/ f \in led'.files[p] BY <1>5
<1>11. Alone =>
         /\ led'.invalid = led.invalid /\ led'.files = disk
         /\ \A p \in Purposes : \A f \in led'.files[p] : f \in led.files[p] \/ f[1] = t
         /\ \A p \in Purposes : led'.files[p] \subseteq Threads \X Nat
         /\ t \notin Journals /\ led'.entry[t].state # "completed" =>
              \A p \in Purposes : \A f \in led'.files[p] : f[1] # t
  <2> SUFFICES ASSUME Alone
               PROVE  /\ led'.invalid = led.invalid /\ led'.files = disk
                      /\ \A p \in Purposes : \A f \in led'.files[p] : f \in led.files[p] \/ f[1] = t
                      /\ \A p \in Purposes : led'.files[p] \subseteq Threads \X Nat
                      /\ t \notin Journals /\ led'.entry[t].state # "completed" =>
                           \A p \in Purposes : \A f \in led'.files[p] : f[1] # t
    OBVIOUS
  <2>1. Known /\ AloneAt(t) BY DEF IInv, AloneOK
  <2>2. /\ disk = led.files /\ \A p \in Purposes : led.files[p] \subseteq Threads \X Nat
        /\ \A p \in Purposes : \A f \in led.files[p] : f[1] # t
    BY <1>2, <1>8, <2>1 DEF AloneAt, Known
  <2> QED BY <1>4, <1>5, <2>2
<1>12. UNCHANGED <<own, disk, slot, tokens>> BY <1>2
<1>13. led.active = t /\ led'.active = Nobody /\ led'.closed = led.closed BY <1>2, <1>4, <1>5
<1> QED BY <1>5, <1>6, <1>7, <1>9, <1>10, <1>11, <1>12, <1>13, EndStep

(* retain_uncertain, and a scan that fails: what the fault leaves.         *)
LEMMA FaultStep ==
  ASSUME IInv, NEW t \in Threads, Faults, Goto(t, "idle"), UNCHANGED <<disk, slot, tokens>>,
         own' = own \/ own' = [own EXCEPT !.invalid = TRUE],
         led' = led \/ (led.active = t /\ led' = RetainInvalid(led, t))
  PROVE  IInv'
<1>1. Typed /\ LedgerOK(led) BY DEF IInv
<1>2. own' \in OwnType /\ own'.world = own.world /\ own'.closed = own.closed
      /\ own'.revoked = own.revoked
  BY <1>1 DEF Typed, OwnType
<1>3. Shaped BY <1>1, <1>2 DEF Shaped, Typed
<1>4. ShutsMove BY <1>2 DEF ShutsMove
<1>5. ~Alone' BY <1>2 DEF Alone, Faults
<1>6. ThreadMoves(t) /\ th'[t].at = "idle"
  <2>1. "idle" \in Places BY DEF Places
  <2> QED BY <1>1, <2>1, GotoLemma
<1>7. /\ LedgerOK(led') /\ led'.files = led.files
      /\ \A u \in Threads \ {t} : led'.entry[u] = led.entry[u]
      /\ led'.entry[t] = led.entry[t] \/ led'.entry[t].state = "uncertain"
  <2>1. CASE led' = led BY <1>1, <2>1
  <2>2. CASE led.active = t /\ led' = RetainInvalid(led, t)
    <3>1. Leaves(led, led', t, "uncertain") BY <1>1, <2>2, RetainLemma
    <3>2. led.entry[t] \in EntryType BY <1>1 DEF LedgerOK, LedgerType
    <3>3. /\ LedgerOK(led') /\ led'.files = led.files
          /\ led'.entry[t] = [led.entry[t] EXCEPT !.state = "uncertain"]
          /\ \A u \in Threads \ {t} : led'.entry[u] = led.entry[u]
      BY <3>1 DEF Leaves, Turns
    <3>4. led'.entry[t].state = "uncertain" BY <3>2, <3>3 DEF EntryType
    <3> QED BY <3>3, <3>4
  <2> QED BY <2>1, <2>2
<1>8. disk' = disk /\ slot' = slot /\ tokens' = tokens OBVIOUS
<1> QED BY <1>3, <1>4, <1>5, <1>6, <1>7, <1>8, RetainStep

(* retain_uncertain. *)
LEMMA RetainWriteStep ==
  ASSUME IInv, NEW t \in Threads, RetainWrite(t)
  PROVE  IInv'
<1>1. /\ Faults /\ Goto(t, "idle") /\ UNCHANGED <<disk, slot, tokens>>
      /\ IF led.active = t THEN led' = RetainInvalid(led, t) /\ own' = [own EXCEPT !.invalid = TRUE]
         ELSE UNCHANGED <<led, own>>
  BY DEF RetainWrite
<1>2. own' = own \/ own' = [own EXCEPT !.invalid = TRUE] BY <1>1
<1>3. led' = led \/ (led.active = t /\ led' = RetainInvalid(led, t))
  <2>1. CASE led.active = t BY <1>1, <2>1
  <2>2. CASE led.active # t BY <1>1, <2>2
  <2> QED BY <2>1, <2>2
<1> QED BY <1>1, <1>2, <1>3, FaultStep

(* The inventory of a completing writer. *)
LEMMA CompleteScanStep ==
  ASSUME IInv, NEW t \in Threads, CompleteScan(t)
  PROVE  IInv'
<1>1. Typed /\ LedgerOK(led) BY DEF IInv
<1>2. th[t].at = "complete" /\ UNCHANGED <<disk, slot, tokens>> BY DEF CompleteScan, At
<1>3. CASE th' = [th EXCEPT ![t].at = "commit", ![t].seen = disk] /\ UNCHANGED <<led, own>>
  <2>1. th \in [Threads -> ThreadType] /\ th[t] \in ThreadType /\ disk \in Inventories /\ Finite(disk)
    BY <1>1 DEF Typed
  <2>2. th'[t].at = "commit" /\ th'[t].why = th[t].why /\ th'[t].seen = disk
    BY <1>3, <2>1 DEF ThreadType
  <2>3. ThreadMoves(t) BY <1>3, <2>1, <2>2 DEF ThreadMoves, ThreadType, Places
  <2>4. Shaped BY <1>1, <1>2, <1>3 DEF Shaped, Typed
  <2>5. \A u \in Threads \ {t} : Kept(u) BY <1>3 DEF Kept
  <2>6. FilesMove(t) /\ ShutsMove /\ SlotMoves(t)
    BY <1>2, <1>3 DEF FilesMove, ShutsMove, SlotMoves
  <2>7. Place(t)' /\ ~Slotted(t)' /\ Closing(t)'
    <3>1. Place(t) BY DEF IInv, PlacesOK
    <3> QED BY <1>2, <1>3, <2>2, <3>1 DEF Place, Slotted, Closing, Refreshes, Writes, Finds
  <2>8. FilesOf(t)'
    <3> SUFFICES ASSUME NEW p \in Purposes, NEW f \in disk'[p], f[1] = t, f # Stranger
                 PROVE  FileOf(t, p, f)'
      BY DEF FilesOf
    <3>1. FileOf(t, p, f) BY <1>2 DEF IInv, FilesOK, FilesOf
    <3> QED BY <1>2, <1>3, <2>2, <3>1 DEF FileOf
  <2>9. AloneOK'
    <3>1. ASSUME Alone PROVE AloneAt(t)'
      <4>1. AloneAt(t) /\ Journals' = Journals BY <1>3, <3>1 DEF IInv, AloneOK, Journals
      <4>2. Writes(t) /\ Writes(t)' /\ ~Slotted(t)' BY <1>2, <2>2 DEF Writes, Slotted
      <4>3. Wrote(t)' BY <1>2, <1>3, <4>1 DEF Wrote, AloneAt
      <4> QED BY <1>2, <1>3, <2>2, <4>1, <4>2, <4>3 DEF AloneAt
    <3>2. AloneOK /\ LedgerStays(t) BY <1>3 DEF IInv, LedgerStays
    <3> QED BY <1>2, <1>3, <2>3, <3>1, <3>2, AloneKept
  <2>10. Local(t)' BY <2>7, <2>8, <2>9 DEF Local
  <2>11. LedgerOK(led') BY <1>1, <1>3
  <2> QED BY <2>3, <2>4, <2>5, <2>6, <2>10, <2>11, Combined
<1>4. CASE /\ Faults /\ Goto(t, "idle") /\ own' = [own EXCEPT !.invalid = TRUE]
           /\ led' = IF led.active = t THEN RetainInvalid(led, t) ELSE led
  <2>1. led' = led \/ (led.active = t /\ led' = RetainInvalid(led, t))
    <3>1. CASE led.active = t BY <1>4, <3>1
    <3>2. CASE led.active # t BY <1>4, <3>2
    <3> QED BY <3>1, <3>2
  <2> QED BY <1>2, <1>4, <2>1, FaultStep
<1> QED BY <1>3, <1>4 DEF CompleteScan

(* What a writer made alone is what its completion takes.                  *)
LEMMA WroteTaken ==
  ASSUME LedgerOK(led), NEW t \in Threads, t \notin Journals, led.entry[t].state = "writing",
         AloneAt(t), Wrote(t)
  PROVE  Takes(led, t, disk)
<1> DEFINE e == led.entry[t]
           p == e.purpose
<1>1. /\ e \in EntryType /\ p \in Purposes /\ led.files \in Inventories /\ e.old = {}
  BY DEF LedgerOK, LedgerType, EntryType, EntryOK
<1>2. PICK n \in 1 .. e.est : disk = [led.files EXCEPT ![p] = (@ \ e.old) \cup {<<t, n>>}]
  BY DEF Wrote
<1>3. n \in Nat BY <1>1, <1>2 DEF EntryType
<1>4. \A q \in Purposes :
        disk[q] = IF q = p THEN led.files[p] \cup {<<t, n>>} ELSE led.files[q]
  BY <1>1, <1>2 DEF Inventories
<1>5. <<t, n>> \notin led.files[p]
  <2>1. \A f \in led.files[p] : f[1] # t BY <1>1 DEF AloneAt
  <2>2. <<t, n>>[1] = t OBVIOUS
  <2> QED BY <2>1, <2>2
<1>6. disk[p] \ led.files[p] = {<<t, n>>} BY <1>1, <1>4, <1>5
<1>7. Size({<<t, n>>}) = n
  <2>1. <<t, n>>[2] = n OBVIOUS
  <2> QED BY <1>3, <2>1, SizeOne
<1>8. Size(disk[p] \ led.files[p]) \in 1 .. e.est BY <1>2, <1>6, <1>7
<1>9. \A q \in Purposes : led.files[q] \subseteq disk[q] BY <1>4
<1>10. \A q \in Purposes \ {p} : disk[q] = led.files[q] BY <1>4
<1> QED BY <1>8, <1>9, <1>10 DEF Takes

(* What a writer made of its journal is what its completion takes. *)
LEMMA WroteReplaces ==
  ASSUME LedgerOK(led), LedgerLive(led), NEW t \in Threads, t \in Journals,
         led.entry[t].state = "writing", Wrote(t)
  PROVE  Replaces(led, t, disk)
<1> DEFINE e == led.entry[t]
           rest == led.files["journal"] \ e.old
<1>1. /\ e \in EntryType /\ led.files \in Inventories /\ e.purpose = "journal"
      /\ e.old = {f \in led.files["journal"] : f[1] = t} /\ "journal" \in Purposes
  BY DEF LedgerOK, LedgerType, EntryOK, Purposes
<1>2. PICK n \in 1 .. e.est :
        disk = [led.files EXCEPT !["journal"] = (@ \ e.old) \cup {<<t, n>>}]
  BY <1>1 DEF Wrote
<1>3. n \in Nat /\ n <= e.est BY <1>1, <1>2 DEF EntryType
<1>4. disk["journal"] = rest \cup {<<t, n>>} BY <1>1, <1>2 DEF Inventories
<1>5. \A q \in Assets : disk[q] = led.files[q]
  <2>1. \A q \in Assets : q \in Purposes /\ q # "journal" BY DEF Assets, Purposes
  <2> QED BY <1>1, <1>2, <2>1 DEF Inventories
<1>6. <<t, n>> \notin rest
  <2>1. <<t, n>>[1] = t OBVIOUS
  <2> QED BY <1>1, <2>1
<1>7. New(led, t, disk) = {<<t, n>>}
  <2>1. New(led, t, disk) = disk["journal"] \ rest BY DEF New
  <2> HIDE DEF rest
  <2> QED BY <1>4, <1>6, <2>1
<1>8. Cardinality({<<t, n>>}) = 1 BY FS_Singleton
<1>9. \A f \in {<<t, n>>} : f[1] = t /\ f[2] <= e.est
  <2>1. <<t, n>>[1] = t /\ <<t, n>>[2] = n OBVIOUS
  <2> QED BY <1>3, <2>1
<1>10. rest \subseteq disk["journal"] BY <1>4
<1> QED BY <1>5, <1>7, <1>8, <1>9, <1>10 DEF Replaces

(* A completion. *)
LEMMA CompleteStep ==
  ASSUME IInv, NEW t \in Threads, Complete(t)
  PROVE  IInv'
<1>1. Typed /\ LedgerOK(led) BY DEF IInv
<1>2. th[t].at = "commit" /\ Goto(t, "idle") /\ UNCHANGED <<disk, slot, tokens>>
  BY DEF Complete, At
<1>3. ThreadMoves(t) /\ th'[t].at = "idle"
  <2>1. "idle" \in Places BY DEF Places
  <2> QED BY <1>1, <1>2, <2>1, GotoLemma
<1>4. Writes(t) BY <1>2 DEF Writes
<1>5. CASE ~(OwnerLive /\ led.active = t)
  <2>1. UNCHANGED <<led, own>> BY <1>5 DEF Complete
  <2>2. ~Alone BY <1>4, <1>5 DEF IInv, AloneOK, AloneAt, Known
  <2>3. ~Alone' BY <2>1, <2>2 DEF Alone, Foreign, Faults
  <2>4. Shaped BY <1>1, <1>2, <2>1 DEF Shaped, Typed
  <2>5. ShutsMove BY <1>2, <2>1 DEF ShutsMove
  <2>6. LedgerOK(led') BY <1>1, <2>1
  <2> QED BY <1>2, <1>3, <2>1, <2>3, <2>4, <2>5, <2>6, RetainStep
<1>6. CASE OwnerLive /\ led.active = t
  <2> DEFINE seen == th[t].seen
  <2>1. /\ own' = own
        /\ led' = IF t \in Journals THEN CompleteJournal(led, t, seen)
                  ELSE CompleteWrite(led, t, seen)
    BY <1>6 DEF Complete
  <2>2. seen \in Inventories /\ Finite(seen) /\ LedgerLive(led) /\ led.entry[t].state = "writing"
    BY <1>1, <1>6 DEF Typed, ThreadType, OwnerLive, LedgerOK, EntryOK
  <2> HIDE DEF seen
  <2>3. /\ Completes(led, led', t, seen)
        /\ IF t \in Journals THEN Replaces(led, t, seen) => led'.entry[t].state = "completed"
           ELSE Takes(led, t, seen) => led'.entry[t].state = "completed"
    <3>1. CASE t \in Journals
      <4>1. led' = CompleteJournal(led, t, seen) BY <2>1, <3>1
      <4> QED BY <1>1, <1>6, <2>2, <3>1, <4>1, CompleteJournalLemma
    <3>2. CASE t \notin Journals
      <4>1. led' = CompleteWrite(led, t, seen) BY <2>1, <3>2
      <4> QED BY <1>1, <1>6, <2>2, <3>2, <4>1, CompleteWriteLemma
    <3> QED BY <3>1, <3>2
  <2>4. /\ LedgerOK(led') /\ led'.active = Nobody /\ led'.closed = led.closed
        /\ \A u \in Threads \ {t} : led'.entry[u] = led.entry[u]
        /\ \A p \in Purposes : \A f \in led.files[p] : f[1] = t \/ f \in led'.files[p]
    BY <2>3 DEF Completes
  <2>5. \/ led'.entry[t].state = "completed" /\ led'.files = seen /\ led'.invalid = led.invalid
        \/ led'.entry[t].state = "uncertain"
    BY <2>3 DEF Completes
  <2>6. FilesOf(t)'
    <3> SUFFICES ASSUME NEW p \in Purposes, NEW f \in disk'[p], f[1] = t, f # Stranger
                 PROVE  FileOf(t, p, f)'
      BY DEF FilesOf
    <3>1. FileOf(t, p, f) BY <1>2 DEF IInv, FilesOK, FilesOf
    <3>2. f \in seen[p] BY <1>2, <3>1 DEF FileOf, seen
    <3> QED BY <1>3, <2>5, <3>2 DEF FileOf
  <2>7. Alone =>
          /\ led'.invalid = led.invalid /\ led'.files = disk
          /\ \A p \in Purposes : \A f \in led'.files[p] : f \in led.files[p] \/ f[1] = t
          /\ \A p \in Purposes : led'.files[p] \subseteq Threads \X Nat
          /\ t \notin Journals /\ led'.entry[t].state # "completed" =>
               \A p \in Purposes : \A f \in led'.files[p] : f[1] # t
    <3> SUFFICES ASSUME Alone
                 PROVE  /\ led'.invalid = led.invalid /\ led'.files = disk
                        /\ \A p \in Purposes : \A f \in led'.files[p] : f \in led.files[p] \/ f[1] = t
                        /\ \A p \in Purposes : led'.files[p] \subseteq Threads \X Nat
                        /\ led'.entry[t].state = "completed"
      OBVIOUS
    <3>1. Known /\ AloneAt(t) BY DEF IInv, AloneOK
    <3>2. Wrote(t) /\ seen = disk BY <1>2, <3>1 DEF AloneAt, seen
    <3>3. led'.entry[t].state = "completed"
      <4>1. CASE t \in Journals
        <5>1. Replaces(led, t, disk) BY <1>1, <2>2, <3>2, <4>1, WroteReplaces
        <5> QED BY <2>3, <3>2, <4>1, <5>1
      <4>2. CASE t \notin Journals
        <5>1. Takes(led, t, disk) BY <1>1, <2>2, <3>1, <3>2, <4>2, WroteTaken
        <5> QED BY <2>3, <3>2, <4>2, <5>1
      <4> QED BY <4>1, <4>2
    <3>4. led'.files = disk /\ led'.invalid = led.invalid BY <2>5, <3>2, <3>3
    <3>5. PICK n \in 1 .. led.entry[t].est :
            disk = [led.files EXCEPT ![led.entry[t].purpose] =
                      (@ \ led.entry[t].old) \cup {<<t, n>>}]
      BY <3>2 DEF Wrote
    <3>6. led.files \in Inventories /\ led.entry[t].est \in Nat
      BY <1>1 DEF LedgerOK, LedgerType, EntryType
    <3>7. \A p \in Purposes : \A f \in disk[p] : f \in led.files[p] \/ f = <<t, n>>
      BY <3>5, <3>6 DEF Inventories
    <3>8. <<t, n>>[1] = t /\ <<t, n>> \in Threads \X Nat BY <3>5, <3>6
    <3>9. \A p \in Purposes : \A f \in led'.files[p] : f \in led.files[p] \/ f[1] = t
      BY <3>4, <3>7, <3>8
    <3>10. \A p \in Purposes : led'.files[p] \subseteq Threads \X Nat
      BY <3>1, <3>4, <3>7, <3>8 DEF Known
    <3> QED BY <3>3, <3>4, <3>9, <3>10
  <2>8. UNCHANGED <<own, disk, slot, tokens>> BY <1>2, <2>1
  <2> QED BY <1>3, <1>6, <2>4, <2>6, <2>7, <2>8, EndStep
<1> QED BY <1>5, <1>6

(* retain_completed_write_as_uncertain. *)
LEMMA RetainCompletedStep ==
  ASSUME IInv, NEW t \in Threads, RetainCompletedWrite(t)
  PROVE  IInv'
<1>1. Typed /\ LedgerOK(led) BY DEF IInv
<1>2. /\ Faults /\ th[t].at = "idle" /\ led.entry[t].state = "completed"
      /\ \E prior \in Priors(t) : led' = RetainCompleted(led, t, prior)
      /\ own' = [own EXCEPT !.invalid = TRUE]
      /\ UNCHANGED <<disk, slot, tokens, th>>
  BY DEF RetainCompletedWrite, At
<1>3. own' \in OwnType /\ own'.world = own.world /\ own'.closed = own.closed
      /\ own'.revoked = own.revoked
  BY <1>1, <1>2 DEF Typed, OwnType
<1>4. Leaves(led, led', t, "uncertain")
  <2>1. Priors(t) \subseteq Nat BY DEF Priors, Sizes
  <2>2. PICK prior \in Nat : led' = RetainCompleted(led, t, prior) BY <1>2, <2>1
  <2> QED BY <1>1, <1>2, <2>2, RetainCompletedLemma
<1>5. led.entry[t] \in EntryType BY <1>1 DEF LedgerOK, LedgerType
<1>6. /\ LedgerOK(led') /\ led'.files = led.files
      /\ led'.entry[t] = [led.entry[t] EXCEPT !.state = "uncertain"]
      /\ \A u \in Threads \ {t} : led'.entry[u] = led.entry[u]
  BY <1>4 DEF Leaves, Turns
<1>7. led'.entry[t].state = "uncertain" BY <1>5, <1>6 DEF EntryType
<1>8. Shaped BY <1>1, <1>2, <1>3 DEF Shaped, Typed
<1>9. ShutsMove BY <1>2, <1>3 DEF ShutsMove
<1>10. ~Alone' BY <1>2, <1>3 DEF Alone, Faults
<1>11. ThreadMoves(t) /\ th'[t].at = "idle" BY <1>1, <1>2 DEF ThreadMoves, Typed
<1> QED BY <1>2, <1>6, <1>7, <1>8, <1>9, <1>10, <1>11, RetainStep

-----------------------------------------------------------------------------
(* Tokens and the close. *)
LEMMA TokenStep ==
  ASSUME IInv, NEW t \in Threads, NEW k \in Boundaries, BeginToken(t, k) \/ FinishToken(t, k)
  PROVE  IInv'
<1>1. Typed BY DEF IInv
<1>2. th[t].at = "idle" /\ UNCHANGED <<led, own, disk, slot, th>>
  BY DEF BeginToken, FinishToken, At
<1>3. tokens \in [Boundaries -> SUBSET Threads] /\ own \in OwnType BY <1>1 DEF Typed
<1>4. /\ tokens' \in [Boundaries -> SUBSET Threads]
      /\ \A q \in own.revoked : tokens'[q] \subseteq tokens[q]
  <2>1. own.revoked \subseteq Boundaries BY <1>3 DEF OwnType
  <2>2. CASE BeginToken(t, k)
    <3>1. tokens' = [tokens EXCEPT ![k] = @ \cup {t}] /\ k \notin own.revoked
      BY <2>2 DEF BeginToken
    <3> QED BY <1>3, <2>1, <3>1
  <2>3. CASE FinishToken(t, k)
    <3>1. tokens' = [tokens EXCEPT ![k] = @ \ {t}] BY <2>3 DEF FinishToken
    <3> QED BY <1>3, <2>1, <3>1
  <2> QED BY <2>2, <2>3
<1>5. ThreadMoves(t) /\ th'[t].at \in Calm BY <1>1, <1>2 DEF ThreadMoves, Typed, Calm
<1>6. Closing(t)' /\ ~Writes(t)' /\ ~Refreshes(t)' BY <1>5, CalmLemma
<1>7. ~Writes(t) BY <1>2 DEF Writes
<1>8. ShutsMove BY <1>2, <1>4 DEF ShutsMove
<1> QED BY <1>2, <1>3, <1>4, <1>5, <1>6, <1>7, <1>8, OwnerStep

(* A close begins. *)
LEMMA CloseBeginStep ==
  ASSUME IInv, NEW t \in Threads, CloseBegin(t)
  PROVE  IInv'
<1>1. Typed BY DEF IInv
<1>2. /\ th[t].at = "idle" /\ own' = [own EXCEPT !.revoking = TRUE]
      /\ Goto(t, "close_publication") /\ UNCHANGED <<led, disk, slot, tokens>>
  BY DEF CloseBegin, At
<1>3. /\ own' \in OwnType /\ own'.world = own.world /\ own'.closed = own.closed
      /\ own'.invalid = own.invalid /\ own'.revoked = own.revoked
  BY <1>1, <1>2 DEF Typed, OwnType
<1>4. ThreadMoves(t) /\ th'[t].at \in Calm
  <2>1. "close_publication" \in Places /\ "close_publication" \in Calm BY DEF Places, Calm
  <2> QED BY <1>1, <1>2, <2>1, GotoLemma
<1>5. Closing(t)' /\ ~Writes(t)' /\ ~Refreshes(t)' BY <1>4, CalmLemma
<1>6. ~Writes(t) BY <1>2 DEF Writes
<1>7. ShutsMove BY <1>2, <1>3 DEF ShutsMove
<1>8. tokens' \in [Boundaries -> SUBSET Threads] BY <1>1, <1>2 DEF Typed
<1> QED BY <1>2, <1>3, <1>4, <1>5, <1>6, <1>7, <1>8, OwnerStep

(* A close gets past a boundary. *)
LEMMA CloseWaitStep ==
  ASSUME IInv, NEW t \in Threads, NEW k \in Boundaries, CloseWait(t, k)
  PROVE  IInv'
<1> DEFINE a == IF k = "publication" THEN "close_save" ELSE "close_ledger"
<1>1. Typed BY DEF IInv
<1>2. /\ th[t].at = CloseAt[k] /\ tokens[k] = {} /\ own' = [own EXCEPT !.revoked = @ \cup {k}]
      /\ Goto(t, a) /\ UNCHANGED <<led, disk, slot, tokens>>
  BY DEF CloseWait, At
<1>3. /\ own' \in OwnType /\ own'.world = own.world /\ own'.closed = own.closed
      /\ own'.invalid = own.invalid /\ own'.revoked = own.revoked \cup {k}
  BY <1>1, <1>2 DEF Typed, OwnType
<1>4. /\ k = "publication" => th[t].at = "close_publication"
      /\ k = "save" => th[t].at = "close_save"
  BY <1>2 DEF CloseAt
<1>5. ThreadMoves(t) /\ th'[t].at = a
  <2>1. a \in Places BY DEF Places
  <2> HIDE DEF a
  <2> QED BY <1>1, <1>2, <2>1, GotoLemma
<1>6. k = "publication" \/ k = "save" BY DEF Boundaries
<1>7. ~Writes(t) /\ ~Writes(t)' /\ ~Refreshes(t)' BY <1>4, <1>5, <1>6 DEF Writes, Refreshes
<1>8. Closing(t)'
  <2>1. Closing(t) BY DEF IInv, ClosingOK
  <2>2. CASE k = "publication"
    <3>1. th'[t].at = "close_save" BY <1>5, <2>2
    <3>2. ShutPublication' BY <1>2, <1>3, <2>2 DEF ShutPublication
    <3> QED BY <3>1, <3>2 DEF Closing
  <2>3. CASE k = "save"
    <3>1. th'[t].at = "close_ledger" BY <1>5, <2>3
    <3>2. ShutSave' BY <1>2, <1>3, <2>3 DEF ShutSave
    <3>3. ShutPublication BY <1>4, <2>1, <2>3 DEF Closing
    <3>4. ShutPublication' BY <1>2, <1>3, <3>3 DEF ShutPublication
    <3> QED BY <3>1, <3>2, <3>4 DEF Closing
  <2> QED BY <1>6, <2>2, <2>3
<1>9. ShutsMove BY <1>2, <1>3 DEF ShutsMove
<1>10. tokens' \in [Boundaries -> SUBSET Threads] BY <1>1, <1>2 DEF Typed
<1> QED BY <1>2, <1>3, <1>5, <1>7, <1>8, <1>9, <1>10, OwnerStep

(* A close closes the ledger. *)
LEMMA CloseLedgerLemma ==
  ASSUME IInv, NEW t \in Threads, CloseLedgerStep(t)
  PROVE  IInv'
<1>1. Typed /\ LedgerOK(led) BY DEF IInv
<1>2. th[t].at = "close_ledger" /\ Goto(t, "close_lease") /\ UNCHANGED <<disk, slot, tokens>>
  BY DEF CloseLedgerStep, At
<1>3. ThreadMoves(t) /\ th'[t].at = "close_lease"
  <2>1. "close_lease" \in Places BY DEF Places
  <2> QED BY <1>1, <1>2, <2>1, GotoLemma
<1>4. ~Writes(t) /\ ~Writes(t)' /\ ~Refreshes(t)' BY <1>2, <1>3 DEF Writes, Refreshes
<1>5. ShutPublication /\ ShutSave BY <1>2 DEF IInv, ClosingOK, Closing
<1>6. own \in OwnType BY <1>1 DEF Typed
<1>7. CASE own.closed
  <2>1. UNCHANGED <<led, own>> BY <1>7 DEF CloseLedgerStep
  <2>2. Closing(t)' BY <1>2, <1>5, <1>7, <2>1 DEF Closing, ShutPublication, ShutSave
  <2>3. ShutsMove BY <1>2, <2>1 DEF ShutsMove
  <2>4. tokens' \in [Boundaries -> SUBSET Threads] BY <1>1, <1>2 DEF Typed
  <2> QED BY <1>2, <1>3, <1>4, <1>6, <2>1, <2>2, <2>3, <2>4, OwnerStep
<1>8. CASE ~own.closed
  <2>1. led' = CloseLedger(led) /\ own' = [own EXCEPT !.closed = TRUE]
    BY <1>8 DEF CloseLedgerStep
  <2>2. /\ own' \in OwnType /\ own'.world = own.world /\ own'.closed
        /\ own'.revoked = own.revoked
    BY <1>6, <2>1 DEF OwnType
  <2>3. Closes(led, led') BY <1>1, <2>1, CloseLemma
  <2>4. Closing(t)' BY <1>2, <1>5, <2>2 DEF Closing, ShutPublication, ShutSave
  <2>5. ShutsMove /\ SlotMoves(t) BY <1>2, <2>2 DEF ShutsMove, SlotMoves
  <2>6. Shaped BY <1>1, <1>2, <2>2 DEF Shaped, Typed
  <2>7. ~Alone' BY <2>2 DEF Alone
  <2> QED BY <1>2, <1>3, <1>4, <2>3, <2>4, <2>5, <2>6, <2>7, LateStep
<1> QED BY <1>7, <1>8

(* A close ends with the lease. *)
LEMMA CloseLeaseStep ==
  ASSUME IInv, NEW t \in Threads, CloseLease(t)
  PROVE  IInv'
<1> DEFINE lease == IF own.lease # "held" THEN own.lease ELSE IF Settled THEN "released" ELSE "uncertain"
<1>1. Typed BY DEF IInv
<1>2. /\ th[t].at = "close_lease" /\ Goto(t, "idle") /\ own' = [own EXCEPT !.lease = lease]
      /\ UNCHANGED <<led, disk, slot, tokens>>
  BY DEF CloseLease, At
<1>3. own \in OwnType BY <1>1 DEF Typed
<1>4. lease \in {"held", "released", "uncertain"} BY <1>3 DEF OwnType
<1> HIDE DEF lease
<1>5. /\ own' \in OwnType /\ own'.world = own.world /\ own'.closed = own.closed
      /\ own'.invalid = own.invalid /\ own'.revoked = own.revoked
  BY <1>2, <1>3, <1>4 DEF OwnType
<1>6. ThreadMoves(t) /\ th'[t].at \in Calm
  <2>1. "idle" \in Places /\ "idle" \in Calm BY DEF Places, Calm
  <2> QED BY <1>1, <1>2, <2>1, GotoLemma
<1>7. Closing(t)' /\ ~Writes(t)' /\ ~Refreshes(t)' BY <1>6, CalmLemma
<1>8. ~Writes(t) BY <1>2 DEF Writes
<1>9. ShutsMove BY <1>2, <1>5 DEF ShutsMove
<1>10. tokens' \in [Boundaries -> SUBSET Threads] BY <1>1, <1>2 DEF Typed
<1> QED BY <1>2, <1>5, <1>6, <1>7, <1>8, <1>9, <1>10, OwnerStep

(* The world, which only adds the stranger's file, and a stutter.          *)
LEMMA WorldStep ==
  ASSUME IInv, UNCHANGED <<led, own, slot, tokens, th>>,
         disk' \in Inventories, Finite(disk'),
         \A p \in Purposes : \A f \in disk'[p] : f = Stranger \/ f \in disk[p],
         ~Alone \/ disk' = disk
  PROVE  IInv'
<1>1. Typed' BY DEF IInv, Typed, Finite, Inventories, OwnType, ThreadType, Files
<1>2. LedgerOK(led)' BY LedgerPrimed DEF IInv
<1>3. Journals' = Journals BY DEF Journals
<1>4. PlacesOK' BY <1>3 DEF IInv, PlacesOK, Place, Refreshes, Writes, Finds
<1>5. SlotOK' BY DEF IInv, SlotOK, Slotted
<1>6. FilesOK' BY DEF IInv, FilesOK, FilesOf, FileOf
<1>7. ClosingOK' BY DEF IInv, ClosingOK, Closing, ShutPublication, ShutSave
<1>8. AloneOK'
  <2>1. Alone' <=> Alone BY DEF Alone, Foreign, Faults
  <2>2. CASE ~Alone BY <2>1, <2>2 DEF AloneOK
  <2>3. CASE disk' = disk
    <3>1. Known => Known' BY <2>3 DEF Known, OwnerLive, Live, LedgerLive
    <3>2. ASSUME NEW t \in Threads PROVE AloneAt(t) => AloneAt(t)'
      <4>1. Wrote(t) => Wrote(t)' BY <2>3 DEF Wrote
      <4> QED BY <1>3, <2>3, <4>1 DEF AloneAt, Writes, Slotted
    <3> QED BY <2>1, <3>1, <3>2 DEF IInv, AloneOK
  <2> QED BY <2>2, <2>3
<1> QED BY <1>1, <1>2, <1>4, <1>5, <1>6, <1>7, <1>8 DEF IInv

(* A foreign file. *)
LEMMA StrangerStep == ASSUME IInv, StrangerWrites PROVE IInv'
<1>1. Foreign /\ UNCHANGED <<led, own, slot, tokens, th>> BY DEF StrangerWrites
<1>2. PICK p \in Purposes : disk' = [disk EXCEPT ![p] = @ \cup {Stranger}] BY DEF StrangerWrites
<1>3. disk \in Inventories /\ Finite(disk) BY DEF IInv, Typed
<1>4. Stranger \in Files BY DEF Files
<1>5. \A q \in Purposes : disk'[q] = IF q = p THEN disk[p] \cup {Stranger} ELSE disk[q]
  BY <1>2, <1>3 DEF Inventories
<1>6. disk' \in Inventories BY <1>2, <1>3, <1>4 DEF Inventories
<1>7. Finite(disk')
  <2> SUFFICES ASSUME NEW q \in Purposes PROVE IsFiniteSet(disk'[q]) BY DEF Finite
  <2>1. IsFiniteSet(disk[q]) BY <1>3 DEF Finite
  <2>2. IsFiniteSet(disk[q] \cup {Stranger}) BY <2>1, FS_AddElement
  <2> QED BY <1>5, <2>1, <2>2
<1>8. \A q \in Purposes : \A f \in disk'[q] : f = Stranger \/ f \in disk[q] BY <1>5
<1>9. ~Alone BY <1>1 DEF Alone
<1> QED BY <1>1, <1>6, <1>7, <1>8, <1>9, WorldStep

(* A step of nobody. *)
LEMMA StutterStep == ASSUME IInv, UNCHANGED vars PROVE IInv'
<1>1. UNCHANGED <<led, own, slot, tokens, th>> /\ disk' = disk BY DEF vars
<1>2. disk' \in Inventories /\ Finite(disk') BY <1>1 DEF IInv, Typed
<1>3. \A p \in Purposes : \A f \in disk'[p] : f = Stranger \/ f \in disk[p] BY <1>1
<1> QED BY <1>1, <1>2, <1>3, WorldStep

-----------------------------------------------------------------------------
(* The invariant. *)

(* No entries have no estimates. *)
LEMMA NoneEstimated == ASSUME NEW l PROVE Estimated(l, {}) = 0
<1> DEFINE f == [t \in Threads |-> l.entry[t].est]
<1>1. Estimated(l, {}) = SumOf(f, {}) BY DEF Estimated, SumOf
<1>2. IsFiniteSet({}) BY FS_EmptySet
<1> HIDE DEF f
<1> QED BY <1>1, <1>2, SumUnfolds

(* No files have no size. *)
LEMMA NothingSized == Size({}) = 0
<1> DEFINE f == [x \in {} |-> x[2]]
<1>1. Size({}) = SumOf(f, {}) BY DEF Size, SumFunction, SumOf
<1>2. IsFiniteSet({}) BY FS_EmptySet
<1> HIDE DEF f
<1> QED BY <1>1, <1>2, SumUnfolds

(* The ledger of a new owner. *)
LEMMA FirstLedger == ASSUME Init PROVE LedgerOK(led)
<1>1. led = [closed |-> FALSE, invalid |-> FALSE, active |-> Nobody,
             entry |-> [t \in Threads |-> NewEntry], files |-> [p \in Purposes |-> {}],
             reserved |-> [p \in Purposes |-> 0], observed |-> [p \in Purposes |-> 0],
             uncertain |-> [p \in Purposes |-> IF p = "journal" THEN 0 ELSE Retained]]
  BY DEF Init
<1>2. NewEntry \in EntryType /\ NewEntry.state = "none" /\ NewEntry.old = {}
  BY DEF NewEntry, EntryType, States, Purposes, Assets
<1>3. led \in LedgerType
  <2>1. [t \in Threads |-> NewEntry] \in [Threads -> EntryType] BY <1>2
  <2>2. [p \in Purposes |-> {}] \in Inventories BY DEF Inventories
  <2>3. [p \in Purposes |-> IF p = "journal" THEN 0 ELSE Retained] \in [Purposes -> Nat]
    BY Constants
  <2>4. [p \in Purposes |-> 0] \in [Purposes -> Int] OBVIOUS
  <2> QED BY <1>1, <2>1, <2>2, <2>3, <2>4 DEF LedgerType
<1>4. /\ \A t \in Threads : led.entry[t] = NewEntry
      /\ led.active = Nobody /\ ~led.closed /\ ~led.invalid
      /\ \A p \in Purposes : /\ led.files[p] = {} /\ led.reserved[p] = 0 /\ led.observed[p] = 0
                             /\ led.uncertain[p] = IF p = "journal" THEN 0 ELSE Retained
  BY <1>1
<1>5. Finite(led.files) BY <1>4, FS_EmptySet DEF Finite
<1>6. Balanced(led)
  <2> SUFFICES ASSUME NEW p \in Purposes
               PROVE  /\ led.reserved[p] = Estimated(led, Holding(led, p, Open))
                      /\ p \in Assets =>
                           led.uncertain[p] = Retained + Estimated(led, Holding(led, p, {"uncertain"}))
    BY DEF Balanced
  <2>1. Holding(led, p, Open) = {} /\ Holding(led, p, {"uncertain"}) = {}
    BY <1>2, <1>4 DEF Holding, Open
  <2>2. p \in Assets => p # "journal" BY DEF Assets
  <2>3. led.reserved[p] = 0 /\ (p \in Assets => led.uncertain[p] = Retained) BY <1>4, <2>2
  <2>4. Estimated(led, Holding(led, p, Open)) = 0
        /\ Estimated(led, Holding(led, p, {"uncertain"})) = 0
    BY <2>1, NoneEstimated
  <2> QED BY <2>3, <2>4, Constants
<1>7. \A t \in Threads : EntryOK(led, t) BY <1>2, <1>4, Constants DEF EntryOK
<1>8. Observed(led) BY <1>4, NothingSized DEF Observed
<1>9. Limits(led)
  <2>1. \A p \in Purposes : Total(led, p) = IF p = "journal" THEN 0 ELSE Retained
    BY <1>4, Constants DEF Total
  <2>2. {"temporary", "promoted"} \subseteq Purposes BY DEF Purposes, Assets
  <2> QED BY <2>1, <2>2, Constants DEF Limits
<1> QED BY <1>3, <1>5, <1>6, <1>7, <1>8, <1>9 DEF LedgerOK

(* A new owner satisfies the invariant. *)
LEMMA InitIInv == ASSUME Init PROVE IInv
<1>1. /\ own \in [invalid : {FALSE}, closed : {FALSE}, revoking : {FALSE},
                  revoked : {{}}, lease : {"held"}, world : Worlds]
      /\ disk = [p \in Purposes |-> {}] /\ slot = Nobody
      /\ tokens = [k \in {"publication", "save"} |-> {}]
      /\ th = [t \in Threads |-> [at |-> "idle", why |-> "none", seen |-> Nothing, revisions |-> 0]]
  BY DEF Init
<1>2. /\ \A t \in Threads : led.entry[t].state = "none"
      /\ led.files = [p \in Purposes |-> {}] /\ led.active = Nobody /\ ~led.closed /\ ~led.invalid
  BY DEF Init, NewEntry
<1>3. LedgerOK(led) BY FirstLedger
<1>4. \A t \in Threads : th[t].at = "idle" /\ th[t].seen = Nothing BY <1>1
<1>5. Typed
  <2>1. own \in OwnType BY <1>1 DEF OwnType
  <2>2. disk \in Inventories /\ Nothing \in Inventories BY <1>1 DEF Inventories, Nothing
  <2>3. Finite(disk) /\ Finite(Nothing) BY <1>1, FS_EmptySet DEF Finite, Nothing
  <2>4. tokens \in [Boundaries -> SUBSET Threads] BY <1>1 DEF Boundaries
  <2>5. th \in [Threads -> ThreadType] BY <1>1, <2>2 DEF ThreadType, Places
  <2> QED BY <1>1, <1>4, <2>1, <2>2, <2>3, <2>4, <2>5 DEF Typed
<1>6. \A t \in Threads : ~Refreshes(t) /\ ~Writes(t) /\ ~Slotted(t)
  BY <1>4 DEF Refreshes, Writes, Slotted
<1>7. PlacesOK /\ SlotOK BY <1>6 DEF PlacesOK, Place, SlotOK
<1>8. FilesOK BY <1>1 DEF FilesOK, FilesOf
<1>9. ClosingOK BY <1>4 DEF ClosingOK, Closing
<1>10. AloneOK
  <2>1. Known BY <1>1, <1>2 DEF Known, OwnerLive, Live, LedgerLive
  <2>2. ASSUME NEW t \in Threads PROVE AloneAt(t)
    BY <1>2, <1>4, <1>6, Constants DEF AloneAt
  <2> QED BY <2>1, <2>2 DEF AloneOK
<1> QED BY <1>3, <1>5, <1>7, <1>8, <1>9, <1>10 DEF IInv

(* Every step of a thread that is fair keeps the invariant. *)
LEMMA StepKeeps == ASSUME IInv, NEW t \in Threads, Step(t) PROVE IInv'
<1>1. DOMAIN tokens = Boundaries BY DEF IInv, Typed
<1>2. CASE Scan(t) BY <1>2, ScanStep
<1>3. CASE Observe(t) BY <1>3, ObserveStep
<1>4. CASE Drain(t) BY <1>4, DrainStep
<1>5. CASE Begin(t) BY <1>5, BeginStep
<1>6. CASE Reserve(t) BY <1>6, ReserveStep
<1>7. CASE Admit(t) BY <1>7, AdmitStep
<1>8. CASE Create(t) BY <1>8, CreateStep
<1>9. CASE CompleteScan(t) BY <1>9, CompleteScanStep
<1>10. CASE Complete(t) BY <1>10, CompleteStep
<1>11. CASE CloseLedgerStep(t) BY <1>11, CloseLedgerLemma
<1>12. CASE CloseLease(t) BY <1>12, CloseLeaseStep
<1>13. ASSUME NEW k \in Boundaries, FinishToken(t, k) PROVE IInv' BY <1>13, TokenStep
<1>14. ASSUME NEW k \in Boundaries, CloseWait(t, k) PROVE IInv' BY <1>14, CloseWaitStep
<1> QED BY <1>1, <1>2, <1>3, <1>4, <1>5, <1>6, <1>7, <1>8, <1>9, <1>10, <1>11, <1>12, <1>13, <1>14
        DEF Step

(* Every step keeps the invariant. *)
LEMMA NextKeeps == ASSUME IInv, [Next]_vars PROVE IInv'
<1>1. DOMAIN tokens = Boundaries BY DEF IInv, Typed
<1>2. ASSUME NEW t \in Threads, Step(t) PROVE IInv' BY <1>2, StepKeeps
<1>3. ASSUME NEW t \in Threads, CancelBeforeWrite(t) PROVE IInv' BY <1>3, CancelBeforeStep
<1>4. ASSUME NEW t \in Threads, CancelWrite(t) PROVE IInv' BY <1>4, CancelWriteStep
<1>5. ASSUME NEW t \in Threads, RetainWrite(t) PROVE IInv' BY <1>5, RetainWriteStep
<1>6. ASSUME NEW t \in Threads, RetainCompletedWrite(t) PROVE IInv' BY <1>6, RetainCompletedStep
<1>7. ASSUME NEW t \in Threads, CloseBegin(t) PROVE IInv' BY <1>7, CloseBeginStep
<1>8. ASSUME NEW t \in Threads, NEW why \in Refreshing, Claim(t, why) PROVE IInv'
  BY <1>8, ClaimStep
<1>9. ASSUME NEW t \in Threads, NEW k \in Boundaries, BeginToken(t, k) PROVE IInv'
  BY <1>9, TokenStep
<1>10. CASE StrangerWrites BY <1>10, StrangerStep
<1>11. CASE UNCHANGED vars BY <1>11, StutterStep
<1> QED BY <1>1, <1>2, <1>3, <1>4, <1>5, <1>6, <1>7, <1>8, <1>9, <1>10, <1>11 DEF Next

(* Every reachable state satisfies IInv, whatever the threads, the limits, *)
(* the sizes and the surroundings.                                         *)
THEOREM Invariance == Spec => []IInv
<1>1. Init => IInv BY InitIInv
<1>2. IInv /\ [Next]_vars => IInv' BY NextKeeps
<1> QED BY <1>1, <1>2, PTL DEF Spec

-----------------------------------------------------------------------------
(* The properties. *)

(* The books are part of the invariant. *)
LEMMA BooksOf == ASSUME IInv PROVE BooksHold
<1>1. LedgerOK(led) /\ led \in LedgerType /\ Balanced(led) BY DEF IInv, LedgerOK
<1>2. LedgerLive(led) => Observed(led) /\ Limits(led) BY <1>1 DEF LedgerOK
<1>3. CountersMatch
  <2> SUFFICES ASSUME NEW p \in Purposes
               PROVE  /\ led.reserved[p] = Estimates(p, {"reserved", "writing"})
                      /\ p \in Assets => led.uncertain[p] = Retained + Estimates(p, {"uncertain"})
                      /\ LedgerLive(led) => led.observed[p] = Size(led.files[p])
    BY DEF CountersMatch
  <2>1. Estimates(p, {"reserved", "writing"}) = Estimated(led, Holding(led, p, Open))
    BY DEF Estimates, Holding, Open
  <2>2. Estimates(p, {"uncertain"}) = Estimated(led, Holding(led, p, {"uncertain"}))
    BY DEF Estimates, Holding
  <2>3. LedgerLive(led) => led.observed[p] = Size(led.files[p]) BY <1>2 DEF Observed
  <2> QED BY <1>1, <2>1, <2>2, <2>3 DEF Balanced
<1>4. WithinLimits
  <2> SUFFICES ASSUME LedgerLive(led)
               PROVE  /\ \A p \in Purposes : Total(led, p) <= Limit
                      /\ SumFunction([p \in Assets |-> Total(led, p)]) <= Shared
    BY DEF WithinLimits
  <2> DEFINE f == [p \in Assets |-> Total(led, p)]
  <2>1. /\ \A p \in Purposes : Total(led, p) <= Limit
        /\ Total(led, "temporary") + Total(led, "promoted") <= Shared
    BY <1>2 DEF Limits
  <2>2. \A p \in Assets : f[p] \in Nat
    <3>1. \A p \in Assets : p \in Purposes BY DEF Purposes
    <3>2. \A p \in Assets : Total(led, p) \in Nat BY <1>1, <1>2, <3>1, Totals
    <3> QED BY <3>2
  <2>3. f["temporary"] = Total(led, "temporary") /\ f["promoted"] = Total(led, "promoted")
    BY DEF Assets
  <2>4. DOMAIN f = Assets OBVIOUS
  <2> HIDE DEF f
  <2>5. SumFunction(f) = f["temporary"] + f["promoted"] BY <2>2, <2>4, AssetSum
  <2>6. SumFunction(f) <= Shared BY <2>1, <2>3, <2>5
  <2> QED BY <2>1, <2>6 DEF f
<1> QED BY <1>3, <1>4 DEF BooksHold

(* The running totals are what the entries and the files say, and a live   *)
(* ledger keeps to its limits: reserve, admit, complete, retain, cancel    *)
(* and close neither lose nor count twice a reservation.                   *)
THEOREM BooksAlwaysHold == Spec => []BooksHold
<1>1. IInv => BooksHold BY BooksOf
<1> QED BY <1>1, Invariance, PTL

(* Without strangers and broken promises nothing but a close ends the      *)
(* owner: a refresh waits for the slot and finds no write in progress, so  *)
(* that what it scanned is what the ledger knows.                          *)
THEOREM OwnWritesPass == Spec => []OwnWritesAreNotForeign
<1>1. IInv => OwnWritesAreNotForeign
  BY DEF IInv, AloneOK, Alone, Known, OwnerLive, Live, OwnWritesAreNotForeign
<1> QED BY <1>1, Invariance, PTL

(* What a step may change of the owner, but for the end of a close. *)
Touches ==
  \/ own' = own
  \/ own' = [own EXCEPT !.invalid = TRUE]
  \/ own' = [own EXCEPT !.closed = TRUE]
  \/ own' = [own EXCEPT !.revoking = TRUE]
  \/ own' = [own EXCEPT !.invalid = TRUE, !.revoking = TRUE]
  \/ \E k \in Boundaries : own' = [own EXCEPT !.revoked = @ \cup {k}]

(* Such a step leaves the lease. *)
LEMMA TouchesLemma == ASSUME own \in OwnType, Touches PROVE own'.lease = own.lease
BY DEF Touches, OwnType

(* Nothing but the end of a close touches the lease. *)
LEMMA LeaseKept ==
  ASSUME Typed, [Next]_vars, own'.lease # own.lease
  PROVE  \E t \in Threads : CloseLease(t)
<1>1. ~Touches BY TouchesLemma DEF Typed
<1>2. DOMAIN tokens = Boundaries BY DEF Typed
<1>3. own' # own /\ ~MarkInvalid BY <1>1 DEF Touches, MarkInvalid
<1>4. ASSUME NEW t \in Threads, Step(t) PROVE CloseLease(t)
  <2>1. ~Scan(t) BY <1>3 DEF Scan
  <2>2. ~Observe(t) BY <1>3 DEF Observe
  <2>3. ~Drain(t) BY <1>1 DEF Drain, Touches, Boundaries
  <2>4. ~Begin(t) /\ ~Reserve(t) BY <1>3 DEF Begin, Reserve
  <2>5. ~Admit(t) BY <1>3 DEF Admit
  <2>6. ~Create(t) BY <1>3 DEF Create
  <2>7. ~CompleteScan(t) BY <1>1, <1>3 DEF CompleteScan, Touches
  <2>8. ~Complete(t) BY <1>3 DEF Complete
  <2>9. ~CloseLedgerStep(t) BY <1>1, <1>3 DEF CloseLedgerStep, Touches
  <2>10. \A k \in Boundaries : ~FinishToken(t, k) BY <1>3 DEF FinishToken
  <2>11. \A k \in Boundaries : ~CloseWait(t, k) BY <1>1 DEF CloseWait, Touches
  <2> QED BY <1>2, <1>4, <2>1, <2>2, <2>3, <2>4, <2>5, <2>6, <2>7, <2>8, <2>9, <2>10, <2>11
          DEF Step
<1>5. ASSUME NEW t \in Threads
      PROVE  /\ ~CancelBeforeWrite(t) /\ ~CancelWrite(t) /\ ~RetainWrite(t)
             /\ ~RetainCompletedWrite(t) /\ ~CloseBegin(t)
             /\ \A why \in Refreshing : ~Claim(t, why)
             /\ \A k \in Boundaries : ~BeginToken(t, k)
  <2>1. ~CancelBeforeWrite(t) /\ ~CancelWrite(t) BY <1>3 DEF CancelBeforeWrite, CancelWrite
  <2>2. ~RetainWrite(t) BY <1>1, <1>3 DEF RetainWrite, Touches
  <2>3. ~RetainCompletedWrite(t) /\ ~CloseBegin(t)
    BY <1>1 DEF RetainCompletedWrite, CloseBegin, Touches
  <2>4. \A why \in Refreshing : ~Claim(t, why) BY <1>3 DEF Claim
  <2>5. \A k \in Boundaries : ~BeginToken(t, k) BY <1>3 DEF BeginToken
  <2> QED BY <2>1, <2>2, <2>3, <2>4, <2>5
<1>6. ~StrangerWrites /\ ~UNCHANGED vars BY <1>3 DEF StrangerWrites, vars
<1> QED BY <1>2, <1>4, <1>5, <1>6 DEF Next

(* The lease is given up only when the owner is closed and its boundaries  *)
(* are empty: every write is settled then, and every file of a thread is   *)
(* one the ledger knows.                                                   *)
THEOREM LeaseIsReleasedSettled == Spec => LeaseReleasedSettled
<1> DEFINE P == own.lease = "held" /\ own'.lease = "released" =>
                  /\ own.closed /\ tokens = [k \in DOMAIN tokens |-> {}]
                  /\ \A p \in Purposes : \A f \in disk[p] \ {Stranger} : f \in led.files[p]
<1>1. IInv /\ [Next]_vars => P
  <2> SUFFICES ASSUME IInv, [Next]_vars, own.lease = "held", own'.lease = "released"
               PROVE  /\ own.closed /\ tokens = [k \in DOMAIN tokens |-> {}]
                      /\ \A p \in Purposes : \A f \in disk[p] \ {Stranger} : f \in led.files[p]
    OBVIOUS
  <2>1. Typed BY DEF IInv
  <2>2. PICK t \in Threads : CloseLease(t) BY <2>1, LeaseKept
  <2>3. th[t].at = "close_lease" BY <2>2 DEF CloseLease, At
  <2>4. Settled BY <2>1, <2>2 DEF CloseLease, Typed, OwnType
  <2>5. own.closed /\ ShutPublication /\ ShutSave BY <2>3 DEF IInv, ClosingOK, Closing
  <2>6. tokens = [k \in DOMAIN tokens |-> {}]
    BY <2>1, <2>5 DEF Typed, Boundaries, ShutPublication, ShutSave
  <2>7. ASSUME NEW p \in Purposes, NEW f \in disk[p] \ {Stranger} PROVE f \in led.files[p]
    <3>1. f \in Files BY <2>1 DEF Typed, Inventories
    <3>2. PICK u \in Threads : f[1] = u BY <3>1 DEF Files
    <3>3. FileOf(u, p, f) BY <3>2 DEF IInv, FilesOK, FilesOf
    <3>4. led.entry[u].state \notin {"writing", "uncertain"} BY <2>4 DEF Settled
    <3> QED BY <3>3, <3>4 DEF FileOf
  <2> QED BY <2>5, <2>6, <2>7
<1> HIDE DEF P
<1>2. [][P]_vars => LeaseReleasedSettled BY DEF LeaseReleasedSettled, P
<1> QED BY <1>1, <1>2, Invariance, PTL DEF Spec
=============================================================================
