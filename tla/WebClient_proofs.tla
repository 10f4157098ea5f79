-------------------------- MODULE WebClient_proofs --------------------------
(***************************************************************************)
(* Theorems about WebClient, for any parameters, PVs, calls and users.       *)
(***************************************************************************)
EXTENDS WebClient, FiniteSetTheorems, WellFoundedInduction, TLAPS

-----------------------------------------------------------------------------
(* The loops over arrays: what Nth() returns.                              *)

(* The well-founded order of the naturals, used where a proof needs induction. *)
LEMMA Least ==
  ASSUME NEW T, T \subseteq Nat, T # {}
  PROVE  \E x \in T : \A y \in T : x <= y
<1> DEFINE R == OpToRel(<, Nat)
<1>1. IsWellFoundedOn(R, Nat)
  BY NatLessThanWellFounded
<1>2. \A x, y \in Nat : <<y, x>> \in R <=> y < x
  BY DEF OpToRel
<1> HIDE DEF R
<1>3. PICK x \in T : \A y \in T : ~ (<<y, x>> \in R)
  BY <1>1, WFMin
<1>4. \A y \in T : ~ (y < x)
  BY <1>2, <1>3
<1>5. \A y \in T : x <= y
  BY <1>4
<1> QED
  BY <1>5

(* What is below n in a finite set of numbers. *)
Below(K, n) == {other \in K : other < n}

LEMMA BelowStep ==
  ASSUME NEW K, K \subseteq Nat, IsFiniteSet(K), NEW n \in Nat
  PROVE  /\ IsFiniteSet(Below(K, n)) /\ Cardinality(Below(K, n)) \in Nat
         /\ Cardinality(Below(K, n + 1)) = Cardinality(Below(K, n)) + IF n \in K THEN 1 ELSE 0
<1>1. IsFiniteSet(Below(K, n)) /\ Cardinality(Below(K, n)) \in Nat
  BY FS_Subset, FS_CardinalityType DEF Below
<1>0. /\ \A x \in K : x < n + 1 <=> x < n \/ x = n
      /\ \A x \in K : x < n => x # n
  OBVIOUS
<1>2. CASE n \in K
  <2>1. Below(K, n + 1) = Below(K, n) \cup {n} /\ n \notin Below(K, n)
    BY <1>0, <1>2, Zenon DEF Below
  <2> QED
    BY <1>1, <1>2, <2>1, FS_AddElement
<1>3. CASE n \notin K
  <2>1. Below(K, n + 1) = Below(K, n)
    BY <1>0, <1>3, Zenon DEF Below
  <2> QED
    BY <1>1, <1>3, <2>1
<1> QED
  BY <1>1, <1>2, <1>3

(* The k-th key of a loop is an element with k - 1 smaller ones. *)
LEMMA NthIsElement ==
  ASSUME NEW K, K \subseteq Nat, IsFiniteSet(K), NEW N \in Nat, \A x \in K : x < N,
         NEW k \in 1..Cardinality(K)
  PROVE  Nth(K, k) \in K /\ Cardinality(Below(K, Nth(K, k))) = k - 1
<1> DEFINE T == {n \in Nat : Cardinality(Below(K, n)) >= k}
<1>1. Cardinality(K) \in Nat
  BY FS_CardinalityType
<1>2. N \in T
  <2>1. Below(K, N) = K
    BY DEF Below
  <2> QED
    BY <1>1, <2>1
<1>3. PICK n \in T : \A m \in T : n <= m
  BY <1>2, Least
<1>4. n # 0
  <2>1. \A x \in K : ~(x < 0)
    OBVIOUS
  <2>2. Below(K, 0) = {}
    BY <2>1, Zenon DEF Below
  <2> QED
    BY <1>1, <2>2, FS_EmptySet
<1>5. PICK m \in Nat : n = m + 1
  <2>1. n - 1 \in Nat /\ n = (n - 1) + 1
    BY <1>3, <1>4
  <2> QED
    BY <2>1
<1>6. m \notin T /\ n \in T
  BY <1>3, <1>5
<1>7. /\ Cardinality(Below(K, m)) \in Nat
      /\ Cardinality(Below(K, m + 1)) = Cardinality(Below(K, m)) + IF m \in K THEN 1 ELSE 0
  BY BelowStep
<1>8. m \in K /\ Cardinality(Below(K, m)) = k - 1
  BY <1>1, <1>5, <1>6, <1>7
<1> QED
  BY <1>8 DEF Nth, Below

(* Every element is some k-th key, and Nth(S, k) is one element only. *)
LEMMA NthCovers ==
  ASSUME NEW K, K \subseteq Nat, IsFiniteSet(K), NEW N \in Nat, \A x \in K : x < N,
         NEW p \in K
  PROVE  /\ Cardinality(Below(K, p)) + 1 \in 1..Cardinality(K)
         /\ Nth(K, Cardinality(Below(K, p)) + 1) = p
<1> DEFINE k == Cardinality(Below(K, p)) + 1
<1>1. Cardinality(K) \in Nat /\ Cardinality(Below(K, p)) \in Nat
  BY FS_CardinalityType, BelowStep
<1>2. k \in 1..Cardinality(K)
  <2>1. Below(K, p) \cup {p} \in SUBSET K /\ p \notin Below(K, p)
    BY DEF Below
  <2>2. Cardinality(Below(K, p) \cup {p}) = k
    BY <1>1, <2>1, BelowStep, FS_AddElement
  <2>3. Cardinality(Below(K, p) \cup {p}) <= Cardinality(K)
    BY <2>1, FS_Subset
  <2> QED
    BY <1>1, <2>2, <2>3
<1>3. Nth(K, k) \in K /\ Cardinality(Below(K, Nth(K, k))) = k - 1
  BY <1>2, NthIsElement
<1>4. \A x, y \in K : x < y => Cardinality(Below(K, x)) < Cardinality(Below(K, y))
  <2> SUFFICES ASSUME NEW x \in K, NEW y \in K, x < y
               PROVE  Cardinality(Below(K, x)) < Cardinality(Below(K, y))
    OBVIOUS
  <2>1. /\ IsFiniteSet(Below(K, y)) /\ Cardinality(Below(K, y)) \in Nat
        /\ IsFiniteSet(Below(K, x)) /\ Cardinality(Below(K, x)) \in Nat
    BY BelowStep
  <2>4. ~(x < x) /\ \A z \in K : z < x => z < y
    OBVIOUS
  <2>2. Below(K, x) \in SUBSET Below(K, y) /\ x \in Below(K, y) /\ x \notin Below(K, x)
    BY <2>4, Zenon DEF Below
  <2>3. Cardinality(Below(K, x)) <= Cardinality(Below(K, y)) /\ Cardinality(Below(K, x)) # Cardinality(Below(K, y))
    BY <2>1, <2>2, FS_Subset
  <2> QED
    BY <2>1, <2>3
<1>5. \A x, y \in K : Cardinality(Below(K, x)) = Cardinality(Below(K, y)) => x = y
  <2>1. \A x \in K : Cardinality(Below(K, x)) \in Nat
    BY BelowStep
  <2>2. \A x, y \in K : x < y \/ y < x \/ x = y
    OBVIOUS
  <2> QED
    BY <1>4, <2>1, <2>2
<1>6. Cardinality(Below(K, Nth(K, k))) = Cardinality(Below(K, p))
  BY <1>1, <1>3
<1> QED
  BY <1>2, <1>3, <1>5, <1>6

-----------------------------------------------------------------------------
(* Types.                                                                  *)

PVRecord       == [internal: Ids, paused: BOOLEAN]
InternalRecord == [param: Params, myPVs: SUBSET Ids, isPaused: BOOLEAN, shown: Nat]
Event          == [id: Ids, number: Nat]

SocketType ==
  /\ readyState \in {"connecting", "open", "closing", "closed"}
  /\ websocket \in BOOLEAN /\ isLive \in BOOLEAN

(* Every PV belongs to an internal PV. *)
ClientType ==
  /\ pvs \in Seq(PVRecord) /\ Len(pvs) <= MaxPVs
  /\ internals \in Seq(InternalRecord) /\ Len(internals) <= MaxPVs
  /\ internalPVID \in 0..Len(internals)
  /\ \A p \in 1..Len(pvs) : pvs[p].internal \in 1..Len(internals)
  /\ pvArray \subseteq 1..Len(pvs) /\ internalPVArray \subseteq 1..Len(internals)
  /\ joined \subseteq Ids /\ told \in [Ids -> Nat]

(* The turns that loops take: keys of arrays start at 1 (here).                  *)
TurnOf(n) ==
  {item \in Item :
     /\ item.kind \in {"open", "slot"} => item.key > 0
     /\ item.kind = "slot" => item.id \in 1..n}
Turn == TurnOf(Len(internals))

LEMMA TurnFacts ==
  \A item \in Turn : /\ item.kind \in {"open", "pv", "internals", "internal", "slot"}
                     /\ item.id \in {0} \cup Ids /\ item.key \in Nat
                     /\ item.kind \in {"open", "slot"} => item.key > 0
                     /\ item.kind = "slot" => item.id \in 1..Len(internals)
<1> SUFFICES ASSUME NEW item \in Turn
             PROVE  /\ item.kind \in {"open", "pv", "internals", "internal", "slot"}
                    /\ item.id \in {0} \cup Ids /\ item.key \in Nat
                    /\ item.kind \in {"open", "slot"} => item.key > 0
                    /\ item.kind = "slot" => item.id \in 1..Len(internals)
  BY Zenon
<1>1. /\ item \in Item
      /\ item.kind \in {"open", "slot"} => item.key > 0
      /\ item.kind = "slot" => item.id \in 1..Len(internals)
  BY Zenon DEF Turn, TurnOf
<1>2. /\ item.kind \in {"open", "pv", "internals", "internal", "slot"}
      /\ item.id \in {0} \cup Ids /\ item.key \in Nat
  BY <1>1 DEF Item
<1> QED
  BY <1>1, <1>2, Zenon

LoopType ==
  /\ onOpen \in Seq({Page} \cup Ids) /\ timers \subseteq Ids /\ sent \subseteq Ids
  /\ todo \in Seq(Turn) /\ inPage \in BOOLEAN

(* Only login and logout are about no PV. *)
Addressed ==
  \A k \in 1..Len(toServer) : toServer[k].name \notin {"Login", "Logout"} => toServer[k].id \in Ids

ServerType ==
  /\ toServer \in Seq(Command) /\ Addressed
  /\ toClient \in Seq(Event)
  /\ granted \subseteq Authorizations /\ server \in [Ids -> {"none", "running", "paused"}]
  /\ updates \in [Ids -> 0..MaxUpdates] /\ calls \in 0..MaxCalls
  /\ refused \subseteq Ids /\ stray \subseteq Ids

Types == SocketType /\ ClientType /\ LoopType /\ ServerType

LEMMA TypesImply == Types => TypeOK
<1> SUFFICES ASSUME Types PROVE TypeOK
  OBVIOUS
<1>0. todo \in Seq(Item)
  BY DEF Types, LoopType, Turn, TurnOf
<1> QED
  BY <1>0 DEF Types, SocketType, ClientType, LoopType, ServerType, TypeOK, PVRecord, InternalRecord, Event

(* Sequences that are extended, changed in one place, shortened. *)
LEMMA AppendOne ==
  ASSUME NEW K, NEW s \in Seq(K), NEW e \in K
  PROVE  /\ Append(s, e) \in Seq(K) /\ Len(Append(s, e)) = Len(s) + 1
         /\ \A k \in 1..Len(s) : Append(s, e)[k] = s[k]
         /\ Append(s, e)[Len(s) + 1] = e
OBVIOUS

LEMMA SetOne ==
  ASSUME NEW K, NEW s \in Seq(K), NEW i \in 1..Len(s), NEW e \in K
  PROVE  /\ [s EXCEPT ![i] = e] \in Seq(K) /\ Len([s EXCEPT ![i] = e]) = Len(s)
         /\ [s EXCEPT ![i] = e][i] = e
         /\ \A k \in 1..Len(s) : k # i => [s EXCEPT ![i] = e][k] = s[k]
OBVIOUS

LEMMA TailOne ==
  ASSUME NEW K, NEW s \in Seq(K), s # <<>>
  PROVE  /\ Tail(s) \in Seq(K) /\ Len(Tail(s)) = Len(s) - 1 /\ Len(s) > 0
         /\ Head(s) \in K /\ Head(s) = s[1]
         /\ \A k \in 1..(Len(s) - 1) : Tail(s)[k] = s[k + 1]
OBVIOUS

(* What NewPV() and a change of an internal PV do, element by element. *)
LEMMA NewPVEffect ==
  ASSUME ClientType, NEW i \in Ids, NewPV(i)
  PROVE  /\ pvs' \in Seq(PVRecord) /\ Len(pvs') = Len(pvs) + 1 /\ Len(pvs) \in Nat
         /\ \A p \in 1..Len(pvs) : pvs'[p] = pvs[p]
         /\ pvs'[Len(pvs) + 1] = [internal |-> i, paused |-> FALSE]
         /\ pvArray' = pvArray \cup {Len(pvs) + 1}
<1> DEFINE e == [internal |-> i, paused |-> FALSE]
<1>1. e \in PVRecord /\ pvs \in Seq(PVRecord)
  BY DEF ClientType, PVRecord
<1>2. pvs' = Append(pvs, e) /\ pvArray' = pvArray \cup {Len(pvs) + 1}
  BY DEF NewPV
<1> HIDE DEF e
<1>3. Len(pvs) \in Nat
  BY <1>1
<1> QED
  BY <1>1, <1>2, <1>3, AppendOne DEF e

LEMMA InternalEffect ==
  ASSUME ClientType, NEW i \in 1..Len(internals), NEW e \in InternalRecord,
         internals' = [internals EXCEPT ![i] = e]
  PROVE  /\ internals' \in Seq(InternalRecord) /\ Len(internals') = Len(internals)
         /\ internals'[i] = e
         /\ \A j \in 1..Len(internals) : j # i => internals'[j] = internals[j]
BY SetOne DEF ClientType

(* A command on its way, if the socket is open. *)
LEMMA SendsEffect ==
  ASSUME toServer \in Seq(Command), Addressed, NEW i \in {0} \cup Ids,
         NEW name \in {"Login", "Logout", "CreatePV", "ClosePV", "PausePV", "ResumePV", "SetPVValue"},
         name \notin {"Login", "Logout"} => i \in Ids, Sends(name, i)
  PROVE  /\ toServer' \in Seq(Command) /\ Addressed'
<1>1. NewCommand(name, i) \in Command
  BY DEF NewCommand, Command
<1>2. CASE readyState = "open"
  <2>1. toServer' = Append(toServer, NewCommand(name, i))
    BY <1>2 DEF Sends
  <2>2. /\ toServer' \in Seq(Command) /\ Len(toServer') = Len(toServer) + 1 /\ Len(toServer) \in Nat
        /\ \A k \in 1..Len(toServer) : toServer'[k] = toServer[k]
        /\ toServer'[Len(toServer) + 1] = NewCommand(name, i)
    BY <1>1, <2>1, AppendOne
  <2>3. NewCommand(name, i).name = name /\ NewCommand(name, i).id = i
    BY DEF NewCommand
  <2>4. ASSUME NEW k \in 1..Len(toServer'), toServer'[k].name \notin {"Login", "Logout"}
        PROVE  toServer'[k].id \in Ids
    <3>1. CASE k \in 1..Len(toServer)
      BY <2>2, <2>4, <3>1 DEF Addressed
    <3>2. CASE k = Len(toServer) + 1
      BY <2>2, <2>3, <2>4, <3>2
    <3> QED
      BY <2>2, <3>1, <3>2
  <2> QED
    BY <2>2, <2>4 DEF Addressed
<1>3. CASE readyState # "open"
  BY <1>3 DEF Sends, Addressed
<1> QED
  BY <1>2, <1>3

(* What the client's actions do to its own data, and that its types stay.        *)
LEMMA JoinEffect ==
  ASSUME ClientType, NEW param \in Params, Join(param), Len(pvs) < MaxPVs
  PROVE  /\ ClientType'
         /\ \E i \in internalPVArray :
              LET p == Len(pvs) + 1
              IN  /\ internals[i].param = param
                  /\ Len(pvs') = p /\ \A q \in 1..Len(pvs) : pvs'[q] = pvs[q]
                  /\ pvs'[p] = [internal |-> i, paused |-> FALSE] /\ pvArray' = pvArray \cup {p}
                  /\ Len(internals') = Len(internals)
                  /\ internals'[i] = [internals[i] EXCEPT !.myPVs = @ \cup {p}]
                  /\ \A j \in 1..Len(internals) : j # i => internals'[j] = internals[j]
                  /\ joined' = IF internals[i].isPaused THEN joined \cup {p} ELSE joined
                  /\ told' = [told EXCEPT ![p] = internals[i].shown]
<1> DEFINE p == Len(pvs) + 1
<1>1. PICK i \in internalPVArray :
        /\ internals[i].param = param
        /\ NewPV(i)
        /\ internals' = [internals EXCEPT ![i].myPVs = @ \cup {p}]
        /\ joined' = IF internals[i].isPaused THEN joined \cup {p} ELSE joined
        /\ told' = [told EXCEPT ![p] = internals[i].shown]
        /\ UNCHANGED <<internalPVArray, internalPVID>>
  BY DEF Join
<1>2. i \in 1..Len(internals) /\ i \in Ids /\ p \in Ids /\ internals \in Seq(InternalRecord)
  <2>1. Len(pvs) \in Nat /\ Len(internals) \in Nat
    BY DEF ClientType
  <2> QED
    BY <2>1, ParamsAssumption DEF ClientType, Ids
<1>3. internals[i] \in InternalRecord
  BY <1>2
<1> DEFINE e == [internals[i] EXCEPT !.myPVs = @ \cup {p}]
<1>4. e \in InternalRecord
  BY <1>2, <1>3 DEF InternalRecord
<1>5. internals' = [internals EXCEPT ![i] = e]
  BY <1>1, <1>2
<1>6. /\ internals' \in Seq(InternalRecord) /\ Len(internals') = Len(internals)
      /\ internals'[i] = e
      /\ \A j \in 1..Len(internals) : j # i => internals'[j] = internals[j]
  <2> HIDE DEF e
  <2> QED
    BY <1>2, <1>4, <1>5, InternalEffect
<1>7. /\ pvs' \in Seq(PVRecord) /\ Len(pvs') = Len(pvs) + 1 /\ Len(pvs) \in Nat
      /\ \A q \in 1..Len(pvs) : pvs'[q] = pvs[q]
      /\ pvs'[p] = [internal |-> i, paused |-> FALSE]
      /\ pvArray' = pvArray \cup {p}
  BY <1>1, <1>2, NewPVEffect
<1>8. ClientType'
  <2>1. told' \in [Ids -> Nat] /\ joined' \subseteq Ids
    BY <1>1, <1>2, <1>3 DEF ClientType, InternalRecord
  <2>2. \A q \in 1..Len(pvs') : pvs'[q].internal \in 1..Len(internals')
    <3>1. \A q \in 1..Len(pvs) : pvs'[q].internal \in 1..Len(internals')
      BY <1>6, <1>7 DEF ClientType
    <3>2. pvs'[p].internal \in 1..Len(internals')
      BY <1>2, <1>6, <1>7
    <3> QED
      BY <1>7, <3>1, <3>2
  <2>3. Len(internals') <= MaxPVs /\ Len(pvs') <= MaxPVs /\ internalPVID' \in 0..Len(internals')
    <3>1. Len(internals) \in Nat
      BY <1>2
    <3> QED
      BY <1>1, <1>6, <1>7, <3>1, ParamsAssumption DEF ClientType
  <2>4. pvArray' \subseteq 1..Len(pvs') /\ internalPVArray' \subseteq 1..Len(internals')
    BY <1>1, <1>6, <1>7 DEF ClientType
  <2> QED
    BY <1>6, <1>7, <2>1, <2>2, <2>3, <2>4 DEF ClientType
<1> QED
  BY <1>1, <1>6, <1>7, <1>8

LEMMA CreateNewEffect ==
  ASSUME ClientType, NEW param \in Params, CreateNew(param), Len(pvs) < MaxPVs
  PROVE  LET p == Len(pvs) + 1
             i == Len(internals) + 1
         IN  /\ ClientType' /\ p \in Ids /\ i \in Ids
             /\ Len(pvs') = p /\ \A q \in 1..Len(pvs) : pvs'[q] = pvs[q]
             /\ pvs'[p] = [internal |-> i, paused |-> FALSE] /\ pvArray' = pvArray \cup {p}
             /\ Len(internals') = i
             /\ internals'[i] = [param |-> param, myPVs |-> {p}, isPaused |-> FALSE, shown |-> 0]
             /\ \A j \in 1..Len(internals) : internals'[j] = internals[j]
             /\ internalPVArray' = internalPVArray \cup {i}
             /\ internalPVID' = internalPVID + 1
<1> DEFINE p == Len(pvs) + 1
           i == Len(internals) + 1
           e == [param |-> param, myPVs |-> {p}, isPaused |-> FALSE, shown |-> 0]
<1>1. Len(pvs) \in Nat /\ Len(internals) \in Nat /\ Len(internals) < MaxPVs /\ internals \in Seq(InternalRecord)
  BY DEF ClientType, CreateNew
<1>2. i \in Ids /\ p \in Ids
  BY <1>1, ParamsAssumption DEF Ids
<1>3. /\ NewPV(i) /\ internals' = Append(internals, e) /\ internalPVArray' = internalPVArray \cup {i}
      /\ joined' = joined /\ told' = told /\ internalPVID' = internalPVID + 1
  BY DEF CreateNew
<1>4. e \in InternalRecord
  BY <1>2 DEF InternalRecord
<1>5. /\ internals' \in Seq(InternalRecord) /\ Len(internals') = i /\ internals'[i] = e
      /\ \A j \in 1..Len(internals) : internals'[j] = internals[j]
  <2> HIDE DEF e
  <2> QED
    BY <1>1, <1>3, <1>4, AppendOne
<1>6. /\ pvs' \in Seq(PVRecord) /\ Len(pvs') = Len(pvs) + 1
      /\ \A q \in 1..Len(pvs) : pvs'[q] = pvs[q]
      /\ pvs'[p] = [internal |-> i, paused |-> FALSE]
      /\ pvArray' = pvArray \cup {p}
  <2> HIDE DEF i
  <2> QED
    BY <1>2, <1>3, NewPVEffect
<1>7. ClientType'
  <2>2. \A q \in 1..Len(pvs') : pvs'[q].internal \in 1..Len(internals')
    <3>0. \A k \in 1..Len(internals) : k \in 1..Len(internals')
      BY <1>1, <1>5
    <3>1. \A q \in 1..Len(pvs) : pvs'[q].internal \in 1..Len(internals')
      BY <1>1, <1>6, <3>0 DEF ClientType
    <3>2. pvs'[p].internal \in 1..Len(internals')
      BY <1>1, <1>5, <1>6
    <3> QED
      BY <1>1, <1>6, <3>1, <3>2
  <2>3. Len(internals') <= MaxPVs /\ Len(pvs') <= MaxPVs /\ internalPVID' \in 0..Len(internals')
    BY <1>1, <1>3, <1>5, <1>6, ParamsAssumption DEF ClientType
  <2>4. pvArray' \subseteq 1..Len(pvs') /\ internalPVArray' \subseteq 1..Len(internals')
    <3>1. 1..Len(internals) \subseteq 1..i /\ i \in 1..i /\ 1..Len(pvs) \subseteq 1..p /\ p \in 1..p
      BY <1>1
    <3>2. pvArray \subseteq 1..Len(pvs) /\ internalPVArray \subseteq 1..Len(internals)
      BY DEF ClientType
    <3>3. Len(pvs') = p /\ Len(internals') = i
      BY <1>5, <1>6
    <3>4. pvArray' = pvArray \cup {p} /\ internalPVArray' = internalPVArray \cup {i}
      BY <1>3, <1>6
    <3> HIDE DEF p, i
    <3> QED
      BY <3>1, <3>2, <3>3, <3>4
  <2> QED
    BY <1>3, <1>5, <1>6, <2>2, <2>3, <2>4 DEF ClientType
<1> QED
  BY <1>1, <1>2, <1>3, <1>5, <1>6, <1>7

LEMMA CreateThrowsEffect ==
  ASSUME ClientType, NEW param \in Params, CreateThrows(param)
  PROVE  LET i == Len(internals) + 1
         IN  /\ ClientType' /\ i \in Ids /\ UNCHANGED <<pvs, pvArray, joined>>
             /\ Len(internals') = i
             /\ internals'[i] = [param |-> param, myPVs |-> {}, isPaused |-> FALSE, shown |-> 0]
             /\ \A j \in 1..Len(internals) : internals'[j] = internals[j]
             /\ internalPVArray' = (internalPVArray \ Slot(i)) \cup {i}
<1> DEFINE i == Len(internals) + 1
           e == [param |-> param, myPVs |-> {}, isPaused |-> FALSE, shown |-> 0]
<1>1. Len(internals) \in Nat /\ Len(internals) < MaxPVs /\ internals \in Seq(InternalRecord)
  BY DEF ClientType, CreateThrows
<1>2. i \in Ids
  BY <1>1, ParamsAssumption DEF Ids
<1>3. /\ internals' = Append(internals, e) /\ internalPVArray' = (internalPVArray \ Slot(i)) \cup {i}
      /\ UNCHANGED <<pvs, pvArray, joined, told, internalPVID>>
  BY DEF CreateThrows
<1>4. e \in InternalRecord
  BY DEF InternalRecord
<1>5. /\ internals' \in Seq(InternalRecord) /\ Len(internals') = i /\ internals'[i] = e
      /\ \A j \in 1..Len(internals) : internals'[j] = internals[j]
  <2> HIDE DEF e
  <2> QED
    BY <1>1, <1>3, <1>4, AppendOne
<1>6. 1..Len(internals) \subseteq 1..i /\ i \in 1..i /\ i <= MaxPVs /\ internalPVID \in 0..i
  BY <1>1, ParamsAssumption DEF ClientType
<1> HIDE DEF i
<1>7. ClientType'
  BY <1>3, <1>5, <1>6 DEF ClientType
<1> QED
  BY <1>2, <1>3, <1>5, <1>7 DEF i

LEMMA ClosePVEffect ==
  ASSUME ClientType, NEW p \in 1..Len(pvs), ClosePV(p)
  PROVE  LET i == pvs[p].internal
         IN  /\ ClientType' /\ i \in 1..Len(internals) /\ i \in Ids
             /\ pvs' = pvs /\ pvArray' = pvArray \ {p}
             /\ Len(internals') = Len(internals)
             /\ internals'[i] = [internals[i] EXCEPT !.myPVs = @ \ {p}]
             /\ \A j \in 1..Len(internals) : j # i => internals'[j] = internals[j]
<1> DEFINE i == pvs[p].internal
           e == [internals[i] EXCEPT !.myPVs = @ \ {p}]
<1>1. i \in 1..Len(internals) /\ internals \in Seq(InternalRecord) /\ pvs \in Seq(PVRecord)
  BY DEF ClientType
<1>2. pvs[p] \in PVRecord /\ internals[i] \in InternalRecord
  BY <1>1
<1>3. i \in Ids /\ e \in InternalRecord
  BY <1>2 DEF PVRecord, InternalRecord
<1>4. /\ internals' = [internals EXCEPT ![i] = e] /\ pvs' = pvs /\ pvArray' = pvArray \ {p}
      /\ internalPVArray' \subseteq internalPVArray /\ joined' = joined /\ told' = told
      /\ internalPVID' = internalPVID
  BY <1>1 DEF ClosePV, CloseInternalPV
<1>5. /\ internals' \in Seq(InternalRecord) /\ Len(internals') = Len(internals)
      /\ internals'[i] = e
      /\ \A j \in 1..Len(internals) : j # i => internals'[j] = internals[j]
  <2> HIDE DEF e
  <2> QED
    BY <1>1, <1>3, <1>4, InternalEffect
<1>6. ClientType'
  BY <1>4, <1>5 DEF ClientType
<1> QED
  BY <1>1, <1>3, <1>4, <1>5, <1>6

LEMMA SetPausedEffect ==
  ASSUME ClientType, NEW p \in 1..Len(pvs), NEW paused \in BOOLEAN, SetPaused(p, paused)
  PROVE  LET i   == pvs[p].internal
             all == AllPaused(i, p, paused)
         IN  /\ ClientType' /\ i \in 1..Len(internals) /\ i \in Ids
             /\ Len(pvs') = Len(pvs) /\ pvs'[p] = [internal |-> i, paused |-> paused]
             /\ \A q \in 1..Len(pvs) : q # p => pvs'[q] = pvs[q]
             /\ pvArray' = pvArray /\ internalPVArray' = internalPVArray /\ joined' = joined \ {p}
             /\ Len(internals') = Len(internals)
             /\ \/ internals' = internals
                \/ internals'[i] = [internals[i] EXCEPT !.isPaused = all]
             /\ \A j \in 1..Len(internals) : j # i => internals'[j] = internals[j]
<1> DEFINE i == pvs[p].internal
           all == AllPaused(i, p, paused)
           e == [internals[i] EXCEPT !.isPaused = all]
           pv == [pvs[p] EXCEPT !.paused = paused]
<1>1. i \in 1..Len(internals) /\ internals \in Seq(InternalRecord) /\ pvs \in Seq(PVRecord)
  BY DEF ClientType
<1>2. pvs[p] \in PVRecord /\ internals[i] \in InternalRecord
  BY <1>1
<1>3. i \in Ids /\ pv \in PVRecord /\ pv = [internal |-> i, paused |-> paused]
  BY <1>2 DEF PVRecord
<1>4. all \in BOOLEAN /\ e \in InternalRecord
  BY <1>2 DEF InternalRecord, AllPaused
<1>5. /\ pvs' = [pvs EXCEPT ![p] = pv] /\ pvArray' = pvArray /\ joined' = joined \ {p}
      /\ internalPVArray' = internalPVArray /\ internalPVID' = internalPVID
      /\ told' = IF pvs[p].paused /\ ~paused THEN [told EXCEPT ![p] = internals[i].shown] ELSE told
      /\ internals' = internals \/ internals' = [internals EXCEPT ![i] = e]
  BY <1>1 DEF SetPaused, PauseInternalPV
<1>6. /\ pvs' \in Seq(PVRecord) /\ Len(pvs') = Len(pvs) /\ pvs'[p] = pv
      /\ \A q \in 1..Len(pvs) : q # p => pvs'[q] = pvs[q]
  <2> HIDE DEF pv
  <2> QED
    BY <1>1, <1>3, <1>5, SetOne
<1>7. /\ internals' \in Seq(InternalRecord) /\ Len(internals') = Len(internals)
      /\ internals' = internals \/ internals'[i] = e
      /\ \A j \in 1..Len(internals) : j # i => internals'[j] = internals[j]
  <2>1. CASE internals' = internals
    BY <1>1, <2>1
  <2>2. CASE internals' = [internals EXCEPT ![i] = e]
    <3> HIDE DEF e
    <3> QED
      BY <1>1, <1>4, <2>2, InternalEffect
  <2> QED
    BY <1>5, <2>1, <2>2
<1>8. ClientType'
  <2>1. told' \in [Ids -> Nat]
    BY <1>2, <1>5 DEF ClientType, InternalRecord
  <2>2. \A q \in 1..Len(pvs') : pvs'[q].internal \in 1..Len(internals')
    BY <1>1, <1>3, <1>6, <1>7 DEF ClientType
  <2> QED
    BY <1>5, <1>6, <1>7, <2>1, <2>2 DEF ClientType
<1> QED
  BY <1>1, <1>3, <1>5, <1>6, <1>7, <1>8

(* An event or the end of the connection is shown by an internal PV.             *)
LEMMA ShownEffect ==
  ASSUME ClientType, NEW i \in 1..Len(internals), NEW n \in Nat,
         internals' = [internals EXCEPT ![i].shown = n]
  PROVE  /\ internals' \in Seq(InternalRecord) /\ Len(internals') = Len(internals)
         /\ internals'[i] = [internals[i] EXCEPT !.shown = n]
         /\ \A j \in 1..Len(internals) : j # i => internals'[j] = internals[j]
<1> DEFINE e == [internals[i] EXCEPT !.shown = n]
<1>1. internals \in Seq(InternalRecord)
  BY DEF ClientType
<1>2. internals[i] \in InternalRecord
  BY <1>1
<1>3. e \in InternalRecord
  BY <1>2 DEF InternalRecord
<1>4. internals' = [internals EXCEPT ![i] = e]
  BY <1>1
<1> HIDE DEF e
<1>5. /\ internals' \in Seq(InternalRecord) /\ Len(internals') = Len(internals)
      /\ internals'[i] = e
      /\ \A j \in 1..Len(internals) : j # i => internals'[j] = internals[j]
  BY <1>3, <1>4, InternalEffect
<1> QED
  BY <1>5 DEF e

(* Loops are over known ids, and a turn of one leaves a list of turns.            *)
LEMMA ItemsType ==
  ASSUME NEW kind \in {"pv", "internal"}, NEW K, K \subseteq Ids
  PROVE  Items(kind, K) \in Seq(Turn) /\ Len(Items(kind, K)) = Cardinality(K) /\ Cardinality(K) \in Nat
         /\ IsFiniteSet(K)
<1>1. IsFiniteSet(K) /\ Cardinality(K) \in Nat
  <2>1. IsFiniteSet(Ids)
    BY ParamsAssumption, FS_Interval DEF Ids
  <2>2. IsFiniteSet(K)
    BY <2>1, FS_Subset
  <2> QED
    BY <2>2, FS_CardinalityType
<1>2. \A k \in 1..Cardinality(K) : Nth(K, k) \in K
  <2>1. K \subseteq Nat /\ MaxPVs + 1 \in Nat /\ \A x \in K : x < MaxPVs + 1
    BY ParamsAssumption DEF Ids
  <2> QED
    BY <1>1, <2>1, NthIsElement
<1>3. \A k \in 1..Cardinality(K) : NewItem(kind, Nth(K, k), 0) \in Turn
  BY <1>2 DEF NewItem, Item, Turn, TurnOf
<1> QED
  BY <1>1, <1>3 DEF Items

LEMMA SlotsType ==
  ASSUME ClientType, NEW i \in 1..Len(internals)
  PROVE  /\ i \in Ids /\ internals[i].myPVs \subseteq Ids /\ Slots(i) \in Seq(Turn)
         /\ Len(Slots(i)) = Cardinality(internals[i].myPVs) /\ Cardinality(internals[i].myPVs) \in Nat
<1>1. i \in Ids /\ internals[i] \in InternalRecord
  BY ParamsAssumption DEF ClientType, Ids
<1>2. internals[i].myPVs \subseteq Ids
  BY <1>1 DEF InternalRecord
<1>3. Cardinality(internals[i].myPVs) \in Nat
  BY <1>2, ItemsType
<1>4. \A k \in 1..Cardinality(internals[i].myPVs) : NewItem("slot", i, k) \in Turn
  BY <1>1, <1>3 DEF NewItem, Item, Turn, TurnOf
<1> QED
  BY <1>1, <1>2, <1>3, <1>4 DEF Slots

LEMMA GoesType ==
  ASSUME LoopType, todo # <<>>, NEW items \in Seq(Turn), Goes(items)
  PROVE  todo' \in Seq(Turn)
BY TailOne DEF LoopType, Goes

LEMMA RemoveOne ==
  ASSUME NEW K, NEW s \in Seq(K), NEW c \in 1..Len(s)
  PROVE  /\ RemoveAt(s, c) \in Seq(K) /\ Len(RemoveAt(s, c)) = Len(s) - 1
         /\ \A k \in 1..(Len(s) - 1) : RemoveAt(s, c)[k] = IF k < c THEN s[k] ELSE s[k + 1]
<1> DEFINE a == SubSeq(s, 1, c - 1)
           b == SubSeq(s, c + 1, Len(s))
<1>1. Len(s) \in Nat
  OBVIOUS
<1>2. a \in Seq(K) /\ Len(a) = c - 1 /\ \A k \in 1..(c - 1) : a[k] = s[k]
  BY <1>1
<1>3. b \in Seq(K) /\ Len(b) = Len(s) - c
  BY <1>1
<1>4. ASSUME NEW k \in 1..(Len(s) - c) PROVE b[k] = s[k + c]
  <2>1. k + (c + 1) - 1 = k + c
    BY <1>1
  <2> QED
    BY <1>1, <2>1
<1>5. RemoveAt(s, c) = a \o b
  BY DEF RemoveAt
<1> HIDE DEF a, b
<1>6. a \o b \in Seq(K) /\ Len(a \o b) = Len(s) - 1
  <2>1. a \o b \in Seq(K) /\ Len(a \o b) = Len(a) + Len(b)
    BY <1>2, <1>3
  <2>2. (c - 1) + (Len(s) - c) = Len(s) - 1
    BY <1>1
  <2> QED
    BY <1>2, <1>3, <2>1, <2>2
<1>7. ASSUME NEW k \in 1..(Len(s) - 1) PROVE (a \o b)[k] = IF k < c THEN s[k] ELSE s[k + 1]
  <2>1. CASE k < c
    BY <1>1, <1>2, <1>3, <2>1
  <2>2. CASE k >= c
    <3>1. k - (c - 1) \in 1..(Len(s) - c) /\ (k - (c - 1)) + c = k + 1
      BY <1>1, <2>2
    <3>2. b[k - (c - 1)] = s[k + 1]
      BY <1>4, <3>1
    <3>3. (a \o b)[k] = b[k - (c - 1)]
      BY <1>1, <1>2, <1>3, <2>2
    <3> QED
      BY <1>1, <2>2, <3>2, <3>3
  <2>3. k < c \/ k >= c
    BY <1>1
  <2> QED
    BY <2>1, <2>2, <2>3, Zenon
<1> QED
  BY <1>5, <1>6, <1>7

LEMMA LastOff ==
  ASSUME NEW K, NEW s \in Seq(K), Len(s) # 0
  PROVE  /\ SubSeq(s, 1, Len(s) - 1) \in Seq(K) /\ Len(SubSeq(s, 1, Len(s) - 1)) = Len(s) - 1
         /\ \A k \in 1..(Len(s) - 1) : SubSeq(s, 1, Len(s) - 1)[k] = s[k]
<1>1. PICK n \in Nat : n = Len(s) - 1 /\ Len(s) = n + 1
  <2>1. Len(s) \in Nat \ {0}
    OBVIOUS
  <2> QED
    BY <2>1
<1>2. \A k \in 1..n : s[k] \in K
  BY <1>1
<1>3. SubSeq(s, 1, n) = [k \in 1..n |-> s[k]]
  BY <1>1
<1> QED
  BY <1>1, <1>2, <1>3

(* Removing a callback shifts those after it, and keeps their order.             *)
LEMMA WithoutType ==
  ASSUME onOpen \in Seq({Page} \cup Ids), NEW callback, onOpen' = Without(callback)
  PROVE  /\ onOpen' \in Seq({Page} \cup Ids)
         /\ \E c \in Nat : \A k \in 1..Len(onOpen') :
              LET l == IF k < c THEN k ELSE k + 1
              IN  l \in 1..Len(onOpen) /\ onOpen'[k] = onOpen[l]
<1>1. onOpen \in Seq({Page} \cup Ids) /\ Len(onOpen) \in Nat
  OBVIOUS
<1>2. CASE onOpen = <<>>
  BY <1>1, <1>2 DEF Without
<1>3. CASE onOpen # <<>> /\ ~Contains(onOpen, callback)
  <2>1. onOpen' = SubSeq(onOpen, 1, Len(onOpen) - 1) /\ Len(onOpen) # 0
    BY <1>1, <1>3 DEF Without, Front
  <2>2. /\ onOpen' \in Seq({Page} \cup Ids) /\ Len(onOpen') = Len(onOpen) - 1
        /\ \A k \in 1..(Len(onOpen) - 1) : onOpen'[k] = onOpen[k]
    BY <1>1, <2>1, LastOff
  <2>3. \A k \in 1..Len(onOpen') : k < Len(onOpen) /\ k \in 1..Len(onOpen) /\ onOpen'[k] = onOpen[k]
    BY <1>1, <2>2
  <2> QED
    BY <1>1, <2>2, <2>3
<1>4. CASE onOpen # <<>> /\ Contains(onOpen, callback)
  <2> DEFINE First(k) == onOpen[k] = callback /\ \A j \in 1..(k-1) : onOpen[j] # callback
             T == {k \in 1..Len(onOpen) : onOpen[k] = callback}
             c == CHOOSE k \in DOMAIN onOpen : First(k)
  <2>1. T \subseteq Nat /\ T # {}
    BY <1>4 DEF Contains
  <2>2. PICK f \in T : \A k \in T : f <= k
    BY <2>1, Least
  <2>3. DOMAIN onOpen = 1..Len(onOpen) /\ Len(onOpen) \in Nat
    BY <1>1
  <2>4. f \in DOMAIN onOpen /\ First(f)
    <3>1. ASSUME NEW j \in 1..(f-1) PROVE onOpen[j] # callback
      BY <2>2, <2>3, <3>1
    <3> QED
      BY <2>2, <2>3, <3>1
  <2>5. c \in 1..Len(onOpen)
    BY <2>3, <2>4
  <2>6. onOpen' = RemoveAt(onOpen, c)
    BY <1>4 DEF Without
  <2> HIDE DEF c
  <2>10. /\ onOpen' \in Seq({Page} \cup Ids) /\ Len(onOpen') = Len(onOpen) - 1
         /\ \A k \in 1..(Len(onOpen) - 1) : onOpen'[k] = IF k < c THEN onOpen[k] ELSE onOpen[k + 1]
    BY <1>1, <2>5, <2>6, RemoveOne
  <2>11. ASSUME NEW k \in 1..Len(onOpen')
         PROVE  LET l == IF k < c THEN k ELSE k + 1
                IN  l \in 1..Len(onOpen) /\ onOpen'[k] = onOpen[l]
    BY <2>3, <2>10, <2>11
  <2>12. c \in Nat
    BY <2>3, <2>5
  <2> QED
    BY <2>10, <2>11, <2>12
<1> QED
  BY <1>2, <1>3, <1>4

(* Each action keeps the types: first what the page calls ...                    *)
LEMMA TurnsGrow ==
  ASSUME Len(internals) \in Nat, Len(internals') \in Nat, Len(internals') >= Len(internals)
  PROVE  Seq(Turn) \subseteq Seq(Turn')
<1>1. 1..Len(internals) \subseteq 1..Len(internals')
  OBVIOUS
<1>2. Turn \subseteq Turn'
  BY <1>1 DEF Turn, TurnOf
<1> QED
  BY <1>2

LEMMA LoopTypeStays ==
  ASSUME ClientType, ClientType', Len(internals') >= Len(internals),
         onOpen' \in Seq({Page} \cup Ids), timers' \subseteq Ids, sent' \subseteq Ids,
         todo' \in Seq(Turn), inPage' \in BOOLEAN
  PROVE  LoopType'
<1>1. Len(internals) \in Nat /\ Len(internals') \in Nat
  BY DEF ClientType
<1>2. todo' \in Seq(Turn')
  BY <1>1, TurnsGrow
<1> QED
  BY <1>2 DEF LoopType

LEMMA PageTypes ==
  ASSUME Types, PageActs
  PROVE  Types'
<1> USE DEF Types
<1>a. pvs \in Seq(PVRecord) /\ Len(pvs) \in Nat /\ Len(internals) \in Nat
  BY DEF ClientType
<1>3. ASSUME Returns \/ Fails PROVE todo' \in Seq(Turn) /\ inPage' \in BOOLEAN
  <2>1. (todo' = todo /\ inPage' = inPage) \/ (todo' = <<>> /\ inPage' = FALSE)
    BY <1>3 DEF Returns, Fails, loopVars
  <2>2. todo \in Seq(Turn) /\ <<>> \in Seq(Turn) /\ inPage \in BOOLEAN
    BY DEF LoopType
  <2> QED
    BY <2>1, <2>2
<1>1. ASSUME NEW param \in Params, CreatePV(param) PROVE Types'
  <2>1. SocketType' /\ timers' = timers /\ UNCHANGED serverVars /\ calls' = calls /\ Len(pvs) < MaxPVs
    BY <1>1 DEF CreatePV, SocketType, socketVars
  <2>2. CASE Join(param)
    <3>1. ClientType'
      BY <2>1, <2>2, JoinEffect
    <3>2. UNCHANGED loopVars /\ UNCHANGED <<onOpen, sent, toServer>>
      BY <2>2 DEF Join, Returns
    <3>5. Len(internals') >= Len(internals)
      <4>1. Len(internals') = Len(internals)
        BY <2>1, <2>2, JoinEffect
      <4> QED
        BY <1>a, <4>1
    <3>3. LoopType'
      BY <2>1, <3>1, <3>2, <3>5, LoopTypeStays DEF LoopType, loopVars
    <3>4. ServerType'
      BY <2>1, <3>2 DEF ServerType, Addressed, serverVars
    <3> QED
      BY <2>1, <3>1, <3>3, <3>4
  <2>3. CASE CreateNew(param)
    <3> DEFINE i == Len(internals) + 1
    <3>1. ClientType' /\ i \in Ids
      BY <2>1, <2>3, CreateNewEffect
    <3>0. todo' = todo /\ inPage' = inPage
      BY <2>3 DEF CreateNew, Returns, loopVars
    <3>2. \/ Sends("CreatePV", i) /\ sent' = sent \cup {i} /\ onOpen' = onOpen
          \/ onOpen' = Append(onOpen, i) /\ toServer' = toServer /\ sent' = sent
      BY <2>3, Zenon DEF CreateNew
    <3> HIDE DEF i
    <3>3. LoopType'
      <4>1. onOpen' \in Seq({Page} \cup Ids)
        BY <3>1, <3>2, AppendOne DEF LoopType
      <4>2. Len(internals') >= Len(internals)
        <5>1. Len(internals') = Len(internals) + 1
          BY <2>1, <2>3, CreateNewEffect
        <5> QED
          BY <1>a, <5>1
      <4> QED
        BY <2>1, <3>0, <3>1, <3>2, <4>1, <4>2, LoopTypeStays DEF LoopType
    <3>4. toServer' \in Seq(Command) /\ Addressed'
      <4>1. CASE toServer' = toServer
        BY <4>1 DEF ServerType, Addressed
      <4>2. CASE Sends("CreatePV", i)
        BY <3>1, <4>2, SendsEffect DEF ServerType
      <4> QED
        BY <3>2, <4>1, <4>2
    <3> QED
      BY <2>1, <3>1, <3>3, <3>4 DEF ServerType, serverVars
  <2>4. CASE CreateThrows(param)
    <3>1. ClientType' /\ Len(internals') = Len(internals) + 1
      BY <2>4, CreateThrowsEffect
    <3>2. Len(internals') >= Len(internals)
      BY <1>a, <3>1
    <3>3. todo' \in Seq(Turn) /\ inPage' \in BOOLEAN /\ UNCHANGED <<onOpen, sent, toServer>>
      BY <1>3, <2>4 DEF CreateThrows
    <3>4. LoopType'
      BY <2>1, <3>1, <3>2, <3>3, LoopTypeStays DEF LoopType
    <3>5. ServerType'
      BY <2>1, <3>3 DEF ServerType, Addressed, serverVars
    <3> QED
      BY <2>1, <3>1, <3>4, <3>5
  <2> QED
    BY <1>1, <2>2, <2>3, <2>4 DEF CreatePV
<1>2. ASSUME NEW p \in 1..Len(pvs), NEW name \in {"ClosePV", "PausePV", "ResumePV", "SetPVValue"},
             toServer' = toServer \/ Sends(name, pvs[p].internal)
      PROVE  toServer' \in Seq(Command) /\ Addressed'
  <2>0. pvs[p] \in PVRecord
    BY <1>a
  <2>1. pvs[p].internal \in Ids
    BY <2>0 DEF PVRecord
  <2>2. CASE toServer' = toServer
    BY <2>2 DEF ServerType, Addressed
  <2>3. CASE Sends(name, pvs[p].internal)
    BY <2>1, <2>3, SendsEffect DEF ServerType
  <2> QED
    BY <1>2, <2>2, <2>3
<1>4. ASSUME Called, calls < MaxCalls PROVE calls' \in 0..MaxCalls
  BY <1>4, ParamsAssumption DEF Called, ServerType
<1>5. ASSUME NEW p \in 1..Len(pvs), ClosePV(p) PROVE Types'
  <2>1. ClientType'
    BY <1>5, ClosePVEffect
  <2>2. Returns \/ Fails
    BY <1>5 DEF ClosePV
  <2>3. toServer' = toServer \/ Sends("ClosePV", pvs[p].internal)
    BY <1>5 DEF ClosePV, CloseInternalPV
  <2>4. Called /\ calls < MaxCalls /\ UNCHANGED <<socketVars, openVars, serverVars>>
    BY <1>5 DEF ClosePV, MayUse
  <2>7. Len(internals') >= Len(internals)
    <3>1. Len(internals') = Len(internals)
      BY <1>5, ClosePVEffect
    <3> QED
      BY <1>a, <3>1
  <2>5. LoopType'
    BY <1>3, <2>1, <2>2, <2>4, <2>7, LoopTypeStays DEF LoopType, openVars
  <2>6. ServerType'
    BY <1>2, <1>4, <2>3, <2>4 DEF ServerType, serverVars
  <2> QED
    BY <2>1, <2>4, <2>5, <2>6 DEF SocketType, socketVars
<1>6. ASSUME NEW p \in 1..Len(pvs), NEW paused \in BOOLEAN, SetPaused(p, paused) PROVE Types'
  <2>1. ClientType'
    BY <1>6, SetPausedEffect
  <2>2. Returns \/ Fails
    BY <1>6 DEF SetPaused
  <2>3. toServer' = toServer \/ Sends("PausePV", pvs[p].internal) \/ Sends("ResumePV", pvs[p].internal)
    BY <1>6 DEF SetPaused, PauseInternalPV
  <2>4. Called /\ calls < MaxCalls /\ UNCHANGED <<socketVars, openVars, serverVars>>
    BY <1>6 DEF SetPaused, MayUse
  <2>7. Len(internals') >= Len(internals)
    <3>1. Len(internals') = Len(internals)
      BY <1>6, SetPausedEffect
    <3> QED
      BY <1>a, <3>1
  <2>5. LoopType'
    BY <1>3, <2>1, <2>2, <2>4, <2>7, LoopTypeStays DEF LoopType, openVars
  <2>6. ServerType'
    BY <1>2, <1>4, <2>3, <2>4 DEF ServerType, serverVars
  <2> QED
    BY <2>1, <2>4, <2>5, <2>6 DEF SocketType, socketVars
<1>7. ASSUME UNCHANGED clientVars PROVE ClientType' /\ Len(internals') >= Len(internals)
  BY <1>a, <1>7 DEF ClientType, clientVars
<1>8. ASSUME NEW p \in 1..Len(pvs), SetPVValue(p) PROVE Types'
  <2>1. toServer' = toServer \/ Sends("SetPVValue", pvs[p].internal)
    BY <1>8 DEF SetPVValue, Say
  <2>2. Returns \/ Fails
    BY <1>8 DEF SetPVValue, Say
  <2>3. Called /\ calls < MaxCalls /\ UNCHANGED <<socketVars, clientVars, openVars, serverVars>>
    BY <1>8 DEF SetPVValue, Say, MayUse
  <2>4. LoopType'
    BY <1>3, <1>7, <2>2, <2>3, LoopTypeStays DEF LoopType, openVars
  <2>5. ServerType'
    BY <1>2, <1>4, <2>1, <2>3 DEF ServerType, serverVars
  <2> QED
    BY <1>7, <2>3, <2>4, <2>5 DEF SocketType, socketVars
<1>9. ASSUME NEW name \in {"Login", "Logout"}, LogInOrOut(name) PROVE Types'
  <2>1. toServer' = toServer \/ Sends(name, 0)
    BY <1>9 DEF LogInOrOut, Say
  <2>2. Returns \/ Fails
    BY <1>9 DEF LogInOrOut, Say
  <2>3. Called /\ calls < MaxCalls /\ UNCHANGED <<socketVars, clientVars, openVars, serverVars>>
    BY <1>9 DEF LogInOrOut, Say
  <2>4. LoopType'
    BY <1>3, <1>7, <2>2, <2>3, LoopTypeStays DEF LoopType, openVars
  <2>5. toServer' \in Seq(Command) /\ Addressed'
    <3>1. CASE toServer' = toServer
      BY <3>1 DEF ServerType, Addressed
    <3>2. CASE Sends(name, 0)
      BY <3>2, SendsEffect DEF ServerType
    <3> QED
      BY <2>1, <3>1, <3>2
  <2>6. ServerType'
    BY <1>4, <2>3, <2>5 DEF ServerType, serverVars
  <2> QED
    BY <1>7, <2>3, <2>4, <2>6 DEF SocketType, socketVars
<1>10. CASE AddOnOpen
  <2>1. onOpen' \in Seq({Page} \cup Ids)
    BY <1>10, AppendOne DEF AddOnOpen, LoopType
  <2>2. UNCHANGED <<socketVars, clientVars, timers, sent, loopVars, toServer, serverVars, calls>>
    BY <1>10 DEF AddOnOpen
  <2>3. LoopType'
    BY <1>7, <2>1, <2>2, LoopTypeStays DEF LoopType, loopVars
  <2> QED
    BY <1>7, <2>2, <2>3 DEF SocketType, ServerType, Addressed, socketVars, loopVars, serverVars
<1>11. CASE RemoveOnOpen
  <2>1. onOpen' \in Seq({Page} \cup Ids)
    BY <1>11, WithoutType DEF RemoveOnOpen, LoopType
  <2>2. UNCHANGED <<socketVars, clientVars, timers, sent, loopVars, toServer, serverVars>> /\ Called /\ calls < MaxCalls
    BY <1>11 DEF RemoveOnOpen
  <2>3. calls' \in 0..MaxCalls
    BY <1>4, <2>2
  <2>4. LoopType'
    BY <1>7, <2>1, <2>2, LoopTypeStays DEF LoopType, loopVars
  <2> QED
    BY <1>7, <2>2, <2>3, <2>4 DEF SocketType, ServerType, Addressed, socketVars, loopVars, serverVars
<1>12. CASE Close
  <2>1. LoopType'
    BY <1>7, <1>12, LoopTypeStays DEF Close, LoopType, openVars, loopVars
  <2> QED
    BY <1>7, <1>12, <2>1 DEF Close, SocketType, ServerType, Addressed, serverVars
<1> QED
  BY <1>1, <1>5, <1>6, <1>8, <1>9, <1>10, <1>11, <1>12 DEF PageActs

(* ... then the handlers of the browser ...                                      *)
LEMMA LoginType ==
  ASSUME ServerType
  PROVE  LET log == Append(toServer, NewCommand("Login", 0))
         IN  /\ log \in Seq(Command)
             /\ \A k \in 1..Len(log) : log[k].name \notin {"Login", "Logout"} => log[k].id \in Ids
<1> DEFINE command == NewCommand("Login", 0)
<1>1. command \in Command /\ command.name = "Login"
  BY DEF NewCommand, Command
<1>2. toServer \in Seq(Command) /\ Len(toServer) \in Nat
  BY DEF ServerType
<1> HIDE DEF command
<1>3. /\ Append(toServer, command) \in Seq(Command) /\ Len(Append(toServer, command)) = Len(toServer) + 1
      /\ \A k \in 1..Len(toServer) : Append(toServer, command)[k] = toServer[k]
      /\ Append(toServer, command)[Len(toServer) + 1] = command
  BY <1>1, <1>2, AppendOne
<1>4. ASSUME NEW k \in 1..Len(Append(toServer, command)),
             Append(toServer, command)[k].name \notin {"Login", "Logout"}
      PROVE  Append(toServer, command)[k].id \in Ids
  <2>1. CASE k \in 1..Len(toServer)
    BY <1>3, <1>4, <2>1 DEF ServerType, Addressed
  <2>2. CASE k = Len(toServer) + 1
    BY <1>1, <1>3, <1>4, <2>2
  <2> QED
    BY <1>2, <1>3, <2>1, <2>2
<1> QED
  BY <1>3, <1>4 DEF command

LEMMA HandlerTypes ==
  ASSUME Types, OnOpen \/ OnMessage \/ OnClose \/ OnTimeout
  PROVE  Types'
<1> USE DEF Types
<1>1. ASSUME UNCHANGED clientVars PROVE ClientType' /\ Len(internals') >= Len(internals)
  <2>1. Len(internals) \in Nat
    BY DEF ClientType
  <2> QED
    BY <1>1, <2>1 DEF ClientType, clientVars
<1>2. ASSUME NEW items \in Seq(Turn), Runs(items) PROVE todo' \in Seq(Turn) /\ inPage' \in BOOLEAN
  BY <1>2 DEF Runs
<1>0. <<>> \in Seq(Turn)
  OBVIOUS
<1>3. CASE OnOpen
  <2> DEFINE items == [k \in 1..Len(onOpen) |-> NewItem("open", 0, k)]
  <2>1. items \in Seq(Turn)
    <3>1. Len(onOpen) \in Nat
      BY DEF LoopType
    <3>2. \A k \in 1..Len(onOpen) : NewItem("open", 0, k) \in Turn
      BY <3>1 DEF NewItem, Item, Turn, TurnOf
    <3> QED
      BY <3>1, <3>2
  <2>2. Runs(items)
    BY <1>3 DEF OnOpen
  <2> HIDE DEF items
  <2>3. LoopType'
    BY <1>1, <1>2, <1>3, <2>1, <2>2, LoopTypeStays DEF OnOpen, LoopType, openVars
  <2>4. toServer' = Append(toServer, NewCommand("Login", 0))
    BY <1>3 DEF OnOpen
  <2>5. toServer' \in Seq(Command) /\ Addressed'
    BY <2>4, LoginType DEF Addressed
  <2> QED
    BY <1>1, <1>3, <2>3, <2>5 DEF OnOpen, SocketType, ServerType, serverVars
<1>4. CASE OnMessage
  <2> DEFINE event == Head(toClient)
  <2>1. event \in Event /\ toClient' \in Seq(Event)
    BY <1>4, TailOne DEF OnMessage, ServerType
  <2>2. event.id \in Ids /\ event.number \in Nat
    BY <2>1 DEF Event
  <2>3. UNCHANGED <<socketVars, pvs, pvArray, internalPVArray, internalPVID, joined, told, openVars,
                     toServer, granted, server, updates, calls, refused, stray>>
    BY <1>4 DEF OnMessage
  <2>4. ServerType' /\ SocketType'
    BY <2>1, <2>3 DEF ServerType, Addressed, SocketType, socketVars
  <2>5. ClientType' /\ Len(internals') >= Len(internals) /\ todo' \in Seq(Turn) /\ inPage' \in BOOLEAN
    <3>1. CASE UNCHANGED internals /\ Runs(<<>>)
      BY <1>0, <1>1, <1>2, <2>3, <3>1 DEF clientVars
    <3>2. CASE /\ event.id \in internalPVArray /\ Runs(Slots(event.id))
               /\ internals' = [internals EXCEPT ![event.id].shown = event.number]
      <4>1. event.id \in 1..Len(internals)
        BY <3>2 DEF ClientType
      <4> HIDE DEF event
      <4>2. Slots(event.id) \in Seq(Turn)
        BY <4>1, SlotsType
      <4>3. /\ internals' \in Seq(InternalRecord) /\ Len(internals') = Len(internals)
        BY <2>2, <3>2, <4>1, ShownEffect
      <4>4. ClientType' /\ Len(internals') >= Len(internals)
        BY <2>3, <4>3 DEF ClientType
      <4> QED
        BY <1>2, <3>2, <4>2, <4>4
    <3> QED
      BY <1>4, <3>1, <3>2 DEF OnMessage
  <2>6. LoopType'
    BY <2>3, <2>5, LoopTypeStays DEF LoopType, openVars
  <2> QED
    BY <2>4, <2>5, <2>6
<1>5. CASE OnClose
  <2> DEFINE items == Items("pv", pvArray) \o <<NewItem("internals", 0, 0)>>
  <2>1. items \in Seq(Turn)
    <3>1. pvArray \subseteq Ids
      <4>1. Len(pvs) \in Nat /\ Len(pvs) <= MaxPVs /\ pvArray \subseteq 1..Len(pvs)
        BY DEF ClientType
      <4> QED
        BY <4>1, ParamsAssumption DEF Ids
    <3>2. Items("pv", pvArray) \in Seq(Turn)
      BY <3>1, ItemsType
    <3>3. NewItem("internals", 0, 0) \in Turn
      BY DEF NewItem, Item, Turn, TurnOf
    <3> QED
      BY <3>2, <3>3
  <2>2. Runs(items)
    BY <1>5 DEF OnClose
  <2> HIDE DEF items
  <2>3. LoopType'
    BY <1>1, <1>2, <1>5, <2>1, <2>2, LoopTypeStays DEF OnClose, LoopType, openVars
  <2>4. ServerType'
    BY <1>5 DEF OnClose, ServerType, Addressed
  <2> QED
    BY <1>1, <1>5, <2>3, <2>4 DEF OnClose, SocketType
<1>6. CASE OnTimeout
  <2>1. PICK i \in timers :
          /\ Runs(<<>>)
          /\ timers' = timers \ {i} /\ onOpen' = Without(i)
          /\ UNCHANGED <<socketVars, clientVars, sent, toServer, serverVars, calls>>
    BY <1>6 DEF OnTimeout
  <2>2. onOpen' \in Seq({Page} \cup Ids)
    BY <2>1, WithoutType DEF LoopType
  <2>3. LoopType'
    BY <1>0, <1>1, <1>2, <2>1, <2>2, LoopTypeStays DEF LoopType
  <2> QED
    BY <1>1, <2>1, <2>3 DEF SocketType, ServerType, Addressed, socketVars, serverVars
<1> QED
  BY <1>3, <1>4, <1>5, <1>6

(* ... the turns of their loops ...                                              *)
LEMMA TellType ==
  ASSUME told \in [Ids -> Nat], NEW p, NEW n \in Nat, Tell(p, n)
  PROVE  told' \in [Ids -> Nat]
BY DEF Tell

LEMMA StepTypes ==
  ASSUME Types, Step
  PROVE  Types'
<1> USE DEF Types
<1> DEFINE item == Head(todo)
<1>0. <<>> \in Seq(Turn)
  OBVIOUS
<1>1. todo # <<>> /\ item \in Turn
  BY TailOne DEF Step, LoopType
<1>2. UNCHANGED <<socketVars, pvs, pvArray, internalPVArray, internalPVID, joined, serverVars, calls>>
  BY DEF Step
<1>3. /\ item.id \in {0} \cup Ids /\ item.key \in Nat
      /\ item.kind \in {"open", "slot"} => item.key > 0
      /\ item.kind = "slot" => item.id \in 1..Len(internals)
  BY <1>1, TurnFacts
<1>4. ASSUME NEW items \in Seq(Turn), Goes(items) PROVE todo' \in Seq(Turn)
  BY <1>1, <1>4, GoesType
<1>5. ASSUME CallPage \/ Skip PROVE todo' \in Seq(Turn) /\ inPage' \in BOOLEAN
  <2>1. Goes(<<>>) /\ inPage' \in BOOLEAN
    BY <1>5 DEF CallPage, Skip
  <2> QED
    BY <1>0, <1>4, <2>1
<1>6. ASSUME NEW p, NEW n, Tell(p, n) \/ Skip PROVE todo' \in Seq(Turn) /\ inPage' \in BOOLEAN
  BY <1>5, <1>6 DEF Tell
<1>7. ASSUME ClientType', Len(internals') = Len(internals), todo' \in Seq(Turn), inPage' \in BOOLEAN,
             onOpen' = onOpen, timers' \subseteq Ids, sent' \subseteq Ids, toServer' \in Seq(Command), Addressed'
      PROVE  Types'
  <2>1. Len(internals') >= Len(internals)
    <3>1. Len(internals) \in Nat
      BY DEF ClientType
    <3> QED
      BY <1>7, <3>1
  <2>2. LoopType'
    BY <1>7, <2>1, LoopTypeStays DEF LoopType
  <2> QED
    BY <1>2, <1>7, <2>2 DEF SocketType, ServerType, socketVars, serverVars
<1>q. ASSUME UNCHANGED <<onOpen, timers, sent, toServer>>
      PROVE  onOpen' = onOpen /\ timers' \subseteq Ids /\ sent' \subseteq Ids /\ toServer' \in Seq(Command) /\ Addressed'
  BY <1>q DEF LoopType, ServerType, Addressed
<1>8. ASSUME internals' = internals, told' \in [Ids -> Nat] PROVE ClientType'
  BY <1>2, <1>8 DEF ClientType
<1>9. CASE item.kind = "open" /\ CallOnOpen(item.key)
  <2>1. UNCHANGED <<told, internals>>
    BY <1>9 DEF CallOnOpen
  <2>2. ClientType'
    BY <1>8, <2>1 DEF ClientType
  <2>3. CASE UNCHANGED <<onOpen, timers, sent, toServer>>
    <3>1. CallPage \/ Skip \/ (todo' = <<>> /\ inPage' = FALSE)
      BY <1>9, <2>3 DEF CallOnOpen
    <3>2. todo' \in Seq(Turn) /\ inPage' \in BOOLEAN
      BY <1>0, <1>5, <3>1
    <3> QED
      BY <1>7, <1>q, <2>1, <2>2, <2>3, <3>2
  <2>4. ASSUME NEW i, i = onOpen[item.key], item.key <= Len(onOpen), i # Page, Skip,
               Sends("CreatePV", i), sent' = sent \cup {i}, timers' = timers \cup {i}, onOpen' = onOpen
        PROVE  Types'
    <3>1. i \in Ids
      <4>1. onOpen \in Seq({Page} \cup Ids) /\ item.key \in 1..Len(onOpen)
        BY <1>3, <1>9, <2>4 DEF LoopType
      <4> QED
        BY <2>4, <4>1
    <3>2. todo' \in Seq(Turn) /\ inPage' \in BOOLEAN
      BY <1>5, <2>4
    <3>3. toServer' \in Seq(Command) /\ Addressed'
      BY <2>4, <3>1, SendsEffect DEF ServerType
    <3>4. timers' \subseteq Ids /\ sent' \subseteq Ids
      BY <2>4, <3>1 DEF LoopType
    <3> QED
      BY <1>7, <2>1, <2>2, <2>4, <3>2, <3>3, <3>4
  <2> QED
    BY <1>9, <2>3, <2>4 DEF CallOnOpen, RemoveLater
<1>10. CASE item.kind = "pv" /\ FirePV(item.id)
  <2>1. told' \in [Ids -> Nat]
    BY <1>10, TellType DEF FirePV, ClientType
  <2> QED
    BY <1>6, <1>7, <1>q, <1>8, <1>10, <2>1 DEF FirePV
<1>11. CASE item.kind = "internals" /\ FireInternalPVs
  <2>1. internalPVArray \subseteq Ids
    <3>1. Len(internals) \in Nat /\ Len(pvs) \in Nat
      BY DEF ClientType
    <3> QED
      BY <3>1, ParamsAssumption DEF ClientType, Ids
  <2>2. Items("internal", internalPVArray) \in Seq(Turn)
    BY <2>1, ItemsType
  <2>3. todo' \in Seq(Turn) /\ inPage' \in BOOLEAN
    BY <1>4, <1>11, <2>2 DEF FireInternalPVs
  <2>4. ClientType'
    BY <1>8, <1>11 DEF FireInternalPVs, ClientType
  <2> QED
    BY <1>7, <1>q, <1>11, <2>3, <2>4 DEF FireInternalPVs
<1>12. CASE item.kind = "internal" /\ FireInternalPV(item.id)
  <2>1. ASSUME NEW i \in internalPVArray, internals' = [internals EXCEPT ![i].shown = 0],
               Goes(Slots(i)), inPage' = FALSE
        PROVE  Types'
    <3>1. i \in 1..Len(internals)
      BY <2>1 DEF ClientType
    <3>2. told' = told
      BY <1>12 DEF FireInternalPV
    <3>3. internals' \in Seq(InternalRecord) /\ Len(internals') = Len(internals)
      BY <2>1, <3>1, ShownEffect
    <3>4. ClientType'
      BY <1>2, <3>2, <3>3 DEF ClientType
    <3>5. todo' \in Seq(Turn)
      BY <1>4, <2>1, <3>1, SlotsType
    <3> QED
      BY <1>7, <1>q, <1>12, <2>1, <3>3, <3>4, <3>5 DEF FireInternalPV
  <2>2. CASE Skip /\ UNCHANGED internals
    <3>2. ClientType'
      BY <1>8, <1>12, <2>2 DEF ClientType, FireInternalPV
    <3> QED
      BY <1>5, <1>7, <1>q, <1>12, <2>2, <3>2 DEF FireInternalPV
  <2> QED
    BY <1>12, <2>1, <2>2 DEF FireInternalPV, Slot
<1>13. CASE item.kind = "slot" /\ FireSlot(item.id, item.key)
  <2> DEFINE i == item.id
  <2>1. i \in 1..Len(internals)
    BY <1>3, <1>13
  <2>2. internals[i].shown \in Nat
    <3>1. internals \in Seq(InternalRecord)
      BY DEF ClientType
    <3>2. internals[i] \in InternalRecord
      BY <2>1, <3>1
    <3> QED
      BY <3>2 DEF InternalRecord
  <2>3. /\ Tell(Nth(internals[i].myPVs, item.key), internals[i].shown) \/ (Skip /\ told' = told)
        /\ UNCHANGED <<internals, onOpen, timers, sent, toServer>>
    BY <1>13 DEF FireSlot
  <2>4. told' \in [Ids -> Nat]
    BY <2>2, <2>3, TellType DEF ClientType
  <2> QED
    BY <1>6, <1>7, <1>q, <1>8, <2>3, <2>4
<1> QED
  BY <1>9, <1>10, <1>11, <1>12, <1>13 DEF Step

(* ... and the server.                                                           *)
LEMMA ServerTypes ==
  ASSUME Types, Execute \/ \E i \in Ids : Update(i)
  PROVE  Types'
<1> USE DEF Types
<1>1. ASSUME UNCHANGED <<socketVars, clientVars, openVars, loopVars, calls>>, ServerType' PROVE Types'
  BY <1>1 DEF SocketType, ClientType, LoopType, Turn, socketVars, clientVars, openVars, loopVars
<1>2. CASE Execute
  <2> DEFINE name == Head(toServer).name
             i    == Head(toServer).id
  <2>1. /\ toServer' \in Seq(Command) /\ Len(toServer') = Len(toServer) - 1 /\ Len(toServer) \in Nat \ {0}
        /\ Head(toServer) \in Command /\ Head(toServer) = toServer[1]
        /\ \A k \in 1..(Len(toServer) - 1) : toServer'[k] = toServer[k + 1]
    <3>1. toServer' = Tail(toServer) /\ toServer # <<>> /\ toServer \in Seq(Command)
      BY <1>2 DEF Execute, ServerType
    <3>2. Len(toServer) \in Nat
      BY <3>1
    <3> QED
      BY <3>1, <3>2, TailOne
  <2>2. Addressed' /\ (name \notin {"Login", "Logout"} => i \in Ids)
    <3>1. name \notin {"Login", "Logout"} => i \in Ids
      BY <2>1 DEF Addressed, ServerType
    <3>2. \A k \in 1..Len(toServer') : k + 1 \in 1..Len(toServer) /\ toServer'[k] = toServer[k + 1]
      BY <2>1
    <3>3. Addressed'
      BY <3>2 DEF Addressed, ServerType
    <3> QED
      BY <3>1, <3>3
  <2>3. UNCHANGED <<socketVars, clientVars, openVars, loopVars, toClient, updates, calls>>
    BY <1>2 DEF Execute
  <2>4. granted' \subseteq Authorizations
    BY <1>2, UsersAssumption DEF Execute, ServerType
  <2>5. /\ server' \in [Ids -> {"none", "running", "paused"}] /\ stray' \subseteq Ids /\ refused' \subseteq Ids
    <3>1. CASE UNCHANGED <<server, stray, refused>>
      BY <3>1 DEF ServerType
    <3>2. CASE name \notin {"Login", "Logout"} /\ Obey(name, i) /\ UNCHANGED refused
      <4> HIDE DEF name, i
      <4> QED
        BY <2>2, <3>2 DEF Obey, ServerType
    <3>3. CASE /\ ~Permitted(name) /\ refused' = IF name = "CreatePV" THEN refused \cup {i} ELSE refused
               /\ UNCHANGED <<server, stray>>
      BY <2>2, <3>3 DEF ServerType
    <3> QED
      BY <1>2, <3>1, <3>2, <3>3 DEF Execute
  <2>6. ServerType'
    BY <2>1, <2>2, <2>3, <2>4, <2>5 DEF ServerType
  <2> QED
    BY <1>1, <2>3, <2>6
<1>3. ASSUME NEW i \in Ids, Update(i) PROVE Types'
  <2> DEFINE event == [id |-> i, number |-> updates[i] + 1]
  <2>1. updates[i] \in 0..MaxUpdates /\ updates[i] < MaxUpdates
    BY <1>3 DEF Update, ServerType
  <2>2. updates[i] + 1 \in 0..MaxUpdates /\ event \in Event
    BY <2>1, ParamsAssumption DEF Event
  <2>3. updates' \in [Ids -> 0..MaxUpdates]
    BY <1>3, <2>2 DEF Update, ServerType
  <2>4. toClient' = Append(toClient, event)
    BY <1>3 DEF Update
  <2> HIDE DEF event
  <2>5. toClient' \in Seq(Event)
    BY <2>2, <2>4, AppendOne DEF ServerType
  <2>6. ServerType'
    BY <1>3, <2>3, <2>5 DEF ServerType, Update, Addressed
  <2> QED
    BY <1>1, <1>3, <2>6 DEF Update
<1> QED
  BY <1>2, <1>3

LEMMA TypesStep == Types /\ [Next]_vars => Types'
<1> SUFFICES ASSUME Types, [Next]_vars PROVE Types'
  OBVIOUS
<1>1. CASE UNCHANGED vars
  BY <1>1 DEF vars, Types, SocketType, ClientType, LoopType, Turn, ServerType, Addressed
<1> QED
  BY <1>1, PageTypes, HandlerTypes, StepTypes, ServerTypes DEF Next

LEMMA TypesInit == Init => Types
<1> SUFFICES ASSUME Init PROVE Types
  OBVIOUS
<1>1. ClientType
  <2>1. pvs = <<>> /\ internals = <<>> /\ Len(pvs) = 0 /\ Len(internals) = 0
    BY DEF Init
  <2> QED
    BY <2>1, ParamsAssumption DEF Init, ClientType
<1>2. ServerType
  BY ParamsAssumption DEF Init, ServerType, Addressed
<1>3. LoopType
  <2>1. onOpen = <<>> /\ timers = {} /\ sent = {} /\ todo = <<>> /\ inPage = FALSE
    BY DEF Init
  <2>2. <<>> \in Seq({Page} \cup Ids) /\ <<>> \in Seq(Turn)
    OBVIOUS
  <2> QED
    BY <2>1, <2>2, Zenon DEF LoopType
<1> QED
  BY <1>1, <1>2, <1>3 DEF Init, Types, SocketType

(* Every variable has its type: the ids in pvArray and internalPVArray are ids of *)
(* PVs that exist, and no loop of a handler runs over an id that does not.        *)
THEOREM Typing == Spec => []TypeOK
<1>1. Spec => []Types
  BY TypesInit, TypesStep, PTL DEF Spec
<1> QED
  BY <1>1, TypesImply, PTL

-----------------------------------------------------------------------------
(* The channels of the page.                                               *)

(* No command leaves before the connection opens, and one that is closing or     *)
(* lost by close() opens no more.                                                *)
Socket ==
  /\ readyState = "connecting" => sent = {} /\ ~isLive
  /\ readyState = "open" => isLive
  /\ readyState = "closing" => ~websocket
  /\ ~websocket => readyState \in {"closing", "closed"}

(* The PVs of the page and the lists of the internal PVs. (A page that closes a   *)
(* PV before its creation leaves its internal PV empty; and one that creates PVs   *)
(* of a client that it has closed leaves internal PVs that have no id.)           *)
Numbered ==
  internalPVID = Len(internals) /\ \A p \in pvArray : pvs[p].internal \in internalPVArray
Channels ==
  /\ websocket \/ "stale" \notin Habits => Numbered
  /\ \A i \in 1..Len(internals) : internals[i].myPVs = {p \in pvArray : pvs[p].internal = i}
  /\ \A i \in internalPVArray :
       /\ "early" \notin Habits /\ readyState \in {"connecting", "open"} => internals[i].myPVs # {}
       /\ \A j \in internalPVArray \ {i} : internals[j].param # internals[i].param

(* NotSilenced; and before the connection opens pausing a PV throws too early to  *)
(* pause its internal PV.                                                         *)
Awake ==
  /\ readyState = "connecting" => \A i \in 1..Len(internals) : ~internals[i].isPaused
  /\ readyState = "open" =>
       \A p \in pvArray \ joined : ~pvs[p].paused => ~internals[pvs[p].internal].isPaused

LEMMA SocketStep ==
  ASSUME Socket, [Next]_vars
  PROVE  Socket'
<1> USE DEF Socket, socketVars, clientVars, openVars, loopVars, serverVars
<1>1. ASSUME NEW param \in Params, CreatePV(param) PROVE Socket'
  <2>1. UNCHANGED socketVars /\ (sent' = sent \/ (isLive /\ sent' = sent \cup {Len(internals) + 1}))
    BY <1>1 DEF CreatePV, Join, CreateNew, CreateThrows
  <2> QED
    BY <2>1
<1>2. ASSUME NEW p \in 1..Len(pvs), ClosePV(p) PROVE Socket'
  BY <1>2 DEF ClosePV
<1>3. ASSUME NEW p \in 1..Len(pvs), NEW paused \in BOOLEAN, SetPaused(p, paused) PROVE Socket'
  BY <1>3 DEF SetPaused
<1>4. ASSUME NEW p \in 1..Len(pvs), SetPVValue(p) PROVE Socket'
  BY <1>4 DEF SetPVValue, Say
<1>5. ASSUME NEW name \in {"Login", "Logout"}, LogInOrOut(name) PROVE Socket'
  BY <1>5 DEF LogInOrOut, Say
<1>6. CASE AddOnOpen \/ RemoveOnOpen \/ Close
  BY <1>6 DEF AddOnOpen, RemoveOnOpen, Close
<1>7. CASE OnOpen \/ OnMessage \/ OnClose \/ OnTimeout
  BY <1>7 DEF OnOpen, OnMessage, OnClose, OnTimeout
<1>8. CASE Step
  <2>1. UNCHANGED socketVars /\ (sent' = sent \/ ~Throws)
    BY <1>8 DEF Step, CallOnOpen, FirePV, FireInternalPVs, FireInternalPV, FireSlot
  <2> QED
    BY <2>1 DEF Throws
<1>9. CASE Execute
  BY <1>9 DEF Execute
<1>10. ASSUME NEW i \in Ids, Update(i) PROVE Socket'
  BY <1>10 DEF Update
<1>11. CASE UNCHANGED vars
  BY <1>11 DEF vars
<1> QED
  BY <1>1, <1>2, <1>3, <1>4, <1>5, <1>6, <1>7, <1>8, <1>9, <1>10, <1>11 DEF Next, PageActs

(* Most steps change at most what the internal PVs show.                         *)
SameChannels ==
  /\ UNCHANGED <<pvs, pvArray, internalPVArray, internalPVID, joined>> /\ (websocket' => websocket)
  /\ Len(internals') = Len(internals)
  /\ \A i \in 1..Len(internals) :
       /\ internals'[i].param = internals[i].param /\ internals'[i].myPVs = internals[i].myPVs
       /\ internals'[i].isPaused = internals[i].isPaused

ChannelActs ==
  \/ \E param \in Params : CreatePV(param)
  \/ \E p \in 1..Len(pvs) : ClosePV(p) \/ \E paused \in BOOLEAN : SetPaused(p, paused)

LEMMA MostlySame ==
  ASSUME Types, [Next]_vars, ~ChannelActs
  PROVE  /\ SameChannels
         /\ readyState' \in {"connecting", "open"} => readyState \in {"connecting", readyState'}
<1> USE DEF SameChannels, socketVars, clientVars, openVars, loopVars, serverVars
<1>t. ClientType /\ internals \in Seq(InternalRecord)
  BY DEF Types, ClientType
<1>s. ASSUME NEW i \in 1..Len(internals), NEW n \in Nat, internals' = [internals EXCEPT ![i].shown = n],
             UNCHANGED <<websocket, pvs, pvArray, internalPVArray, internalPVID, joined>>
      PROVE  SameChannels
  <2>1. /\ Len(internals') = Len(internals)
        /\ internals'[i] = [internals[i] EXCEPT !.shown = n]
        /\ \A j \in 1..Len(internals) : j # i => internals'[j] = internals[j]
    BY <1>t, <1>s, ShownEffect
  <2>2. internals[i] \in InternalRecord
    BY <1>t
  <2>3. /\ internals'[i].param = internals[i].param /\ internals'[i].myPVs = internals[i].myPVs
        /\ internals'[i].isPaused = internals[i].isPaused
    BY <2>1, <2>2 DEF InternalRecord
  <2> QED
    BY <1>s, <2>1, <2>3
<1>4. ASSUME NEW p \in 1..Len(pvs), SetPVValue(p)
      PROVE  UNCHANGED <<clientVars, socketVars>>
  BY <1>4 DEF SetPVValue, Say
<1>5. ASSUME NEW name \in {"Login", "Logout"}, LogInOrOut(name)
      PROVE  UNCHANGED <<clientVars, socketVars>>
  BY <1>5 DEF LogInOrOut, Say
<1>6. CASE AddOnOpen \/ RemoveOnOpen \/ Close
  BY <1>6 DEF AddOnOpen, RemoveOnOpen, Close
<1>7. CASE OnOpen \/ OnClose \/ OnTimeout
  BY <1>7 DEF OnOpen, OnClose, OnTimeout
<1>8. CASE OnMessage
  <2> DEFINE event == Head(toClient)
  <2>1. UNCHANGED <<socketVars, pvs, pvArray, internalPVArray, internalPVID, joined>>
    BY <1>8 DEF OnMessage
  <2>2. event.number \in Nat /\ (event.id \in internalPVArray => event.id \in 1..Len(internals))
    <3>1. event \in Event
      BY <1>8, TailOne DEF OnMessage, Types, ServerType
    <3> QED
      BY <1>t, <3>1 DEF Event, ClientType
  <2>3. CASE internals' = internals
    BY <2>1, <2>3
  <2>4. CASE event.id \in internalPVArray /\ internals' = [internals EXCEPT ![event.id].shown = event.number]
    <3> HIDE DEF event
    <3> QED
      BY <1>s, <2>1, <2>2, <2>4
  <2> QED
    BY <1>8, <2>3, <2>4 DEF OnMessage
<1>9. CASE Step
  <2> DEFINE item == Head(todo)
  <2>1. UNCHANGED <<socketVars, pvs, pvArray, internalPVArray, internalPVID, joined>>
    BY <1>9 DEF Step
  <2>2. CASE internals' = internals
    BY <2>1, <2>2
  <2>3. ASSUME NEW i \in internalPVArray, internals' = [internals EXCEPT ![i].shown = 0]
        PROVE  SameChannels
    <3>1. i \in 1..Len(internals)
      BY <1>t, <2>3 DEF ClientType
    <3> QED
      BY <1>s, <2>1, <2>3, <3>1
  <2> QED
    BY <1>9, <2>1, <2>2, <2>3 DEF Step, CallOnOpen, FirePV, FireInternalPVs, FireInternalPV, FireSlot, Slot
<1>10. ASSUME Execute \/ \E i \in Ids : Update(i)
       PROVE  UNCHANGED <<clientVars, socketVars>>
  BY <1>10 DEF Execute, Update
<1>11. CASE UNCHANGED vars
  BY <1>11 DEF vars
<1> QED
  BY <1>4, <1>5, <1>6, <1>7, <1>8, <1>9, <1>10, <1>11 DEF Next, PageActs, ChannelActs

LEMMA SameStays ==
  ASSUME ClientType, Channels, Awake, SameChannels,
         readyState' \in {"connecting", "open"} => readyState \in {"connecting", readyState'}
  PROVE  Channels' /\ Awake'
<1>1. /\ \A i \in internalPVArray : i \in 1..Len(internals)
      /\ \A p \in pvArray : pvs[p].internal \in 1..Len(internals)
  BY DEF ClientType
<1>2. Channels'
  BY <1>1 DEF Channels, Numbered, SameChannels
<1>3. Awake'
  BY <1>1 DEF Awake, SameChannels
<1> QED
  BY <1>2, <1>3

(* createPV() of known parameters: the PV is new in pvArray and in one myPVs.     *)
LEMMA JoinChannels ==
  ASSUME Types, Channels, Awake, NEW param \in Params, CreatePV(param), Join(param)
  PROVE  Channels' /\ Awake'
<1> DEFINE p == Len(pvs) + 1
<1>1. /\ ClientType /\ Len(pvs) < MaxPVs /\ UNCHANGED socketVars
      /\ internalPVArray' = internalPVArray /\ internalPVID' = internalPVID
  BY DEF Types, CreatePV, Join
<1>2. PICK i \in internalPVArray :
         /\ internals[i].param = param
         /\ Len(pvs') = p /\ \A q \in 1..Len(pvs) : pvs'[q] = pvs[q]
         /\ pvs'[p] = [internal |-> i, paused |-> FALSE] /\ pvArray' = pvArray \cup {p}
         /\ Len(internals') = Len(internals)
         /\ internals'[i] = [internals[i] EXCEPT !.myPVs = @ \cup {p}]
         /\ \A j \in 1..Len(internals) : j # i => internals'[j] = internals[j]
         /\ joined' = IF internals[i].isPaused THEN joined \cup {p} ELSE joined
  BY <1>1, JoinEffect
<1>3. i \in 1..Len(internals) /\ internals[i] \in InternalRecord /\ internalPVArray \subseteq 1..Len(internals)
  BY <1>1 DEF ClientType
<1>4. /\ internals'[i].param = internals[i].param /\ internals'[i].myPVs = internals[i].myPVs \cup {p}
      /\ internals'[i].isPaused = internals[i].isPaused
  BY <1>2, <1>3 DEF InternalRecord
<1>5. p \notin pvArray /\ \A q \in pvArray : q \in 1..Len(pvs) /\ pvs'[q] = pvs[q]
  <2>1. Len(pvs) \in Nat /\ pvArray \subseteq 1..Len(pvs)
    BY <1>1 DEF ClientType
  <2> QED
    BY <1>2, <2>1
<1>6. pvs'[p].internal = i /\ pvs'[p].paused = FALSE
  BY <1>2
<1> HIDE DEF p
<1>7. \A j \in 1..Len(internals) : internals'[j].myPVs = {q \in pvArray' : pvs'[q].internal = j}
  <2> SUFFICES ASSUME NEW j \in 1..Len(internals)
               PROVE  internals'[j].myPVs = {q \in pvArray' : pvs'[q].internal = j}
    OBVIOUS
  <2>1. internals[j].myPVs = {q \in pvArray : pvs[q].internal = j}
    BY DEF Channels
  <2>2. CASE j = i
    BY <1>2, <1>4, <1>5, <1>6, <2>1, <2>2
  <2>3. CASE j # i
    BY <1>2, <1>5, <1>6, <2>1, <2>3
  <2> QED
    BY <2>2, <2>3
<1>8. Channels'
  <2>1. \A j \in 1..Len(internals) : internals'[j].param = internals[j].param
    BY <1>2, <1>4
  <2>2. \A j \in internalPVArray : "early" \notin Habits /\ readyState \in {"connecting", "open"}
          => internals'[j].myPVs # {}
    BY <1>2, <1>3, <1>4 DEF Channels
  <2>3. Numbered => Numbered'
    BY <1>1, <1>2, <1>5, <1>6 DEF Numbered
  <2> QED
    BY <1>1, <1>2, <1>3, <1>7, <2>1, <2>2, <2>3 DEF Channels, socketVars
<1>9. Awake'
  <2>0. readyState = "connecting" => \A j \in 1..Len(internals') : ~internals'[j].isPaused
    BY <1>2, <1>4 DEF Awake
  <2> SUFFICES ASSUME readyState = "open", NEW q \in pvArray' \ joined', ~pvs'[q].paused
               PROVE  ~internals'[pvs'[q].internal].isPaused
    BY <1>1, <2>0 DEF Awake, socketVars
  <2>1. CASE q = p
    BY <1>2, <1>4, <1>6, <2>1
  <2>2. CASE q # p
    <3>1. q \in pvArray \ joined /\ pvs'[q] = pvs[q]
      BY <1>2, <1>5, <2>2
    <3>2. ~internals[pvs[q].internal].isPaused /\ pvs[q].internal \in 1..Len(internals)
      BY <1>1, <1>5, <3>1 DEF Awake, ClientType
    <3> QED
      BY <1>2, <1>4, <3>1, <3>2
  <2> QED
    BY <2>1, <2>2
<1> QED
  BY <1>8, <1>9

(* createPV() of new parameters: an internal PV of its own. *)
LEMMA NewChannel ==
  ASSUME Types, Channels, Awake, NEW param \in Params, CreatePV(param), CreateNew(param)
  PROVE  Channels' /\ Awake'
<1> DEFINE p == Len(pvs) + 1
           i == Len(internals) + 1
<1>1. /\ ClientType /\ Len(pvs) < MaxPVs /\ UNCHANGED socketVars /\ joined' = joined
      /\ \A j \in internalPVArray : internals[j].param # param
  BY DEF Types, CreatePV, CreateNew, Known
<1>2. /\ Len(pvs') = p /\ \A q \in 1..Len(pvs) : pvs'[q] = pvs[q]
      /\ pvs'[p] = [internal |-> i, paused |-> FALSE] /\ pvArray' = pvArray \cup {p}
      /\ Len(internals') = i
      /\ internals'[i] = [param |-> param, myPVs |-> {p}, isPaused |-> FALSE, shown |-> 0]
      /\ \A j \in 1..Len(internals) : internals'[j] = internals[j]
      /\ internalPVArray' = internalPVArray \cup {i} /\ internalPVID' = internalPVID + 1
  BY <1>1, CreateNewEffect
<1>3. /\ p \notin pvArray /\ \A q \in pvArray : q \in 1..Len(pvs) /\ pvs'[q] = pvs[q] /\ pvs[q].internal # i
      /\ i \notin 1..Len(internals) /\ 1..i = 1..Len(internals) \cup {i}
      /\ \A j \in internalPVArray : j \in 1..Len(internals)
  <2>1. Len(pvs) \in Nat /\ pvArray \subseteq 1..Len(pvs) /\ Len(internals) \in Nat
    BY <1>1 DEF ClientType
  <2>2. p \notin pvArray /\ i \notin 1..Len(internals) /\ 1..i = 1..Len(internals) \cup {i}
    BY <2>1
  <2>3. \A q \in pvArray : pvs[q].internal \in 1..Len(internals)
    BY <1>1 DEF ClientType
  <2> QED
    BY <1>1, <1>2, <2>1, <2>2, <2>3 DEF ClientType
<1>4. /\ pvs'[p].internal = i /\ pvs'[p].paused = FALSE
      /\ internals'[i].param = param /\ internals'[i].myPVs = {p} /\ internals'[i].isPaused = FALSE
  BY <1>2
<1> HIDE DEF p, i
<1>5. \A j \in 1..Len(internals') : internals'[j].myPVs = {q \in pvArray' : pvs'[q].internal = j}
  <2> SUFFICES ASSUME NEW j \in 1..Len(internals')
               PROVE  internals'[j].myPVs = {q \in pvArray' : pvs'[q].internal = j}
    OBVIOUS
  <2>1. CASE j = i
    BY <1>2, <1>3, <1>4, <2>1
  <2>2. CASE j # i
    <3>1. j \in 1..Len(internals)
      BY <1>2, <1>3, <2>2
    <3>2. internals[j].myPVs = {q \in pvArray : pvs[q].internal = j}
      BY <3>1 DEF Channels
    <3> QED
      BY <1>2, <1>3, <1>4, <2>2, <3>1, <3>2
  <2> QED
    BY <2>1, <2>2
<1>6. Channels'
  <2>1. Numbered => Numbered'
    BY <1>2, <1>3, <1>4 DEF Numbered, i
  <2>2. \A j \in internalPVArray' : "early" \notin Habits /\ readyState' \in {"connecting", "open"}
          => internals'[j].myPVs # {}
    BY <1>1, <1>2, <1>3, <1>4 DEF Channels, socketVars
  <2>3. \A j \in internalPVArray' : \A l \in internalPVArray' \ {j} : internals'[l].param # internals'[j].param
    BY <1>1, <1>2, <1>3, <1>4 DEF Channels
  <2> QED
    BY <1>1, <1>5, <2>1, <2>2, <2>3 DEF Channels, socketVars
<1>7. Awake'
  <2>0. readyState = "connecting" => \A j \in 1..Len(internals') : ~internals'[j].isPaused
    BY <1>2, <1>3, <1>4 DEF Awake
  <2> SUFFICES ASSUME readyState = "open", NEW q \in pvArray' \ joined', ~pvs'[q].paused
               PROVE  ~internals'[pvs'[q].internal].isPaused
    BY <1>1, <2>0 DEF Awake, socketVars
  <2>1. CASE q = p
    BY <1>4, <2>1
  <2>2. CASE q # p
    <3>1. q \in pvArray \ joined /\ pvs'[q] = pvs[q]
      BY <1>1, <1>2, <1>3, <2>2
    <3>2. ~internals[pvs[q].internal].isPaused /\ pvs[q].internal \in 1..Len(internals)
      BY <1>1, <1>3, <3>1 DEF Awake, ClientType
    <3> QED
      BY <1>2, <3>1, <3>2
  <2> QED
    BY <2>1, <2>2
<1> QED
  BY <1>6, <1>7

(* createPV() of new parameters that throws: an internal PV without a PV. *)
LEMMA ThrowsChannels ==
  ASSUME Types, Socket, Channels, Awake, NEW param \in Params, CreatePV(param), CreateThrows(param)
  PROVE  Channels' /\ Awake'
<1> DEFINE i == Len(internals) + 1
<1>1. /\ ClientType /\ UNCHANGED socketVars /\ \A j \in internalPVArray : internals[j].param # param
      /\ ~websocket /\ readyState \in {"closing", "closed"} /\ "stale" \in Habits
  BY DEF Types, CreatePV, CreateThrows, Known, Throws, Socket
<1>2. /\ UNCHANGED <<pvs, pvArray, joined>> /\ Len(internals') = i
      /\ internals'[i] = [param |-> param, myPVs |-> {}, isPaused |-> FALSE, shown |-> 0]
      /\ \A j \in 1..Len(internals) : internals'[j] = internals[j]
      /\ internalPVArray' \subseteq internalPVArray \cup {i}
  BY <1>1, CreateThrowsEffect
<1>3. /\ \A q \in pvArray : pvs[q].internal # i
      /\ i \notin 1..Len(internals) /\ 1..i = 1..Len(internals) \cup {i}
      /\ \A j \in internalPVArray : j \in 1..Len(internals)
  <2>1. Len(internals) \in Nat
    BY <1>1 DEF ClientType
  <2>2. i \notin 1..Len(internals) /\ 1..i = 1..Len(internals) \cup {i}
    BY <2>1
  <2>3. \A q \in pvArray : pvs[q].internal \in 1..Len(internals)
    BY <1>1 DEF ClientType
  <2> QED
    BY <1>1, <2>2, <2>3 DEF ClientType
<1>4. internals'[i].param = param /\ internals'[i].myPVs = {}
  BY <1>2
<1> HIDE DEF i
<1>5. \A j \in 1..Len(internals') : internals'[j].myPVs = {q \in pvArray : pvs[q].internal = j}
  BY <1>2, <1>3, <1>4 DEF Channels
<1>6. \A j \in internalPVArray' : \A l \in internalPVArray' \ {j} : internals'[l].param # internals'[j].param
  BY <1>1, <1>2, <1>3, <1>4 DEF Channels
<1> QED
  BY <1>1, <1>2, <1>5, <1>6 DEF Channels, Awake, socketVars

(* A page that waits for its PVs uses none before the socket was open. *)
LEMMA NotYet ==
  ASSUME "early" \notin Habits, Socket, NEW p, MayUse(p)
  PROVE  /\ readyState # "connecting" /\ (pvs[p].internal \in sent \/ ~websocket)
         /\ Throws => readyState \in {"closing", "closed"}
BY DEF MayUse, Socket, Throws

(* close() of a PV takes it out of both lists, and the channel goes with the last.*)
LEMMA CloseChannels ==
  ASSUME Types, Socket, Channels, Awake, NEW p \in 1..Len(pvs), ClosePV(p)
  PROVE  Channels' /\ Awake'
<1> DEFINE i == pvs[p].internal
<1>1. ClientType /\ UNCHANGED socketVars /\ joined' = joined /\ internalPVID' = internalPVID
  BY DEF Types, ClosePV
<1>2. /\ i \in 1..Len(internals) /\ pvs' = pvs /\ pvArray' = pvArray \ {p}
      /\ Len(internals') = Len(internals)
      /\ internals'[i] = [internals[i] EXCEPT !.myPVs = @ \ {p}]
      /\ \A j \in 1..Len(internals) : j # i => internals'[j] = internals[j]
  BY <1>1, ClosePVEffect
<1>3. internals[i] \in InternalRecord /\ internalPVArray \subseteq 1..Len(internals)
  BY <1>1, <1>2 DEF ClientType
<1>4. /\ internals'[i].param = internals[i].param /\ internals'[i].myPVs = internals[i].myPVs \ {p}
      /\ internals'[i].isPaused = internals[i].isPaused
  BY <1>2, <1>3 DEF InternalRecord
<1>5. \/ ~(internals[i].myPVs \subseteq {p}) /\ internalPVArray' = internalPVArray
      \/ ("early" \notin Habits => readyState \in {"closing", "closed"}) /\ internalPVArray' = internalPVArray
      \/ internals[i].myPVs \subseteq {p} /\ internalPVArray' = internalPVArray \ {i}
  BY NotYet DEF ClosePV, LastOf, CloseInternalPV
<1> HIDE DEF i
<1>6. \A j \in 1..Len(internals) : internals'[j].myPVs = {q \in pvArray' : pvs'[q].internal = j}
  <2> SUFFICES ASSUME NEW j \in 1..Len(internals)
               PROVE  internals'[j].myPVs = {q \in pvArray' : pvs'[q].internal = j}
    OBVIOUS
  <2>1. internals[j].myPVs = {q \in pvArray : pvs[q].internal = j}
    BY DEF Channels
  <2>2. CASE j = i
    BY <1>2, <1>4, <2>1, <2>2
  <2>3. CASE j # i
    BY <1>2, <2>1, <2>3 DEF i
  <2> QED
    BY <2>2, <2>3
<1>7. Numbered => Numbered'
  <2> SUFFICES ASSUME Numbered, NEW q \in pvArray' PROVE pvs[q].internal \in internalPVArray'
    BY <1>1, <1>2 DEF Numbered
  <2>1. pvs[q].internal \in internalPVArray /\ q # p /\ q \in pvArray
    BY <1>2 DEF Numbered
  <2>2. pvs[q].internal = i => ~(internals[i].myPVs \subseteq {p})
    BY <1>2, <2>1 DEF Channels
  <2> QED
    BY <1>5, <2>1, <2>2
<1>8. Channels'
  <2>1. \A j \in 1..Len(internals) : internals'[j].param = internals[j].param
    BY <1>2, <1>4
  <2>2. \A j \in internalPVArray' : "early" \notin Habits /\ readyState \in {"connecting", "open"}
          => internals'[j].myPVs # {}
    BY <1>2, <1>3, <1>4, <1>5 DEF Channels
  <2>3. internalPVArray' \subseteq internalPVArray
    BY <1>5
  <2> QED
    BY <1>1, <1>2, <1>3, <1>6, <1>7, <2>1, <2>2, <2>3 DEF Channels, socketVars
<1>9. Awake'
  <2>1. \A j \in 1..Len(internals) : internals'[j].isPaused = internals[j].isPaused
    BY <1>2, <1>4
  <2>2. \A q \in pvArray : pvs[q].internal \in 1..Len(internals)
    BY <1>1 DEF ClientType
  <2> QED
    BY <1>1, <1>2, <2>1, <2>2 DEF Awake, socketVars
<1> QED
  BY <1>8, <1>9

(* setPaused() pauses a channel only when none of its PVs is left that listens.  *)
LEMMA PauseChannels ==
  ASSUME Types, Socket, Channels, Awake,
         NEW p \in 1..Len(pvs), NEW paused \in BOOLEAN, SetPaused(p, paused)
  PROVE  Channels' /\ Awake'
<1> DEFINE i   == pvs[p].internal
           all == AllPaused(i, p, paused)
<1>1. ClientType /\ UNCHANGED socketVars /\ internalPVID' = internalPVID
  BY DEF Types, SetPaused
<1>2. /\ i \in 1..Len(internals)
      /\ Len(pvs') = Len(pvs) /\ pvs'[p] = [internal |-> i, paused |-> paused]
      /\ \A q \in 1..Len(pvs) : q # p => pvs'[q] = pvs[q]
      /\ pvArray' = pvArray /\ internalPVArray' = internalPVArray /\ joined' = joined \ {p}
      /\ Len(internals') = Len(internals)
      /\ internals' = internals \/ internals'[i] = [internals[i] EXCEPT !.isPaused = all]
      /\ \A j \in 1..Len(internals) : j # i => internals'[j] = internals[j]
  BY <1>1, SetPausedEffect
<1>3. /\ internals[i] \in InternalRecord /\ internalPVArray \subseteq 1..Len(internals)
      /\ pvArray \subseteq 1..Len(pvs)
  BY <1>1, <1>2 DEF ClientType
<1>4. /\ internals'[i].param = internals[i].param /\ internals'[i].myPVs = internals[i].myPVs
  BY <1>2, <1>3 DEF InternalRecord
<1>5. readyState = "open" => internals'[i].isPaused = all
  <2>1. \/ all = internals[i].isPaused /\ internals' = internals
        \/ readyState # "open"
        \/ internals' = [internals EXCEPT ![i].isPaused = all]
    BY DEF SetPaused, PauseInternalPV, Socket, Throws
  <2>2. internals \in Seq(InternalRecord)
    BY <1>1 DEF ClientType
  <2> HIDE DEF all, i
  <2>3. CASE internals' = [internals EXCEPT ![i].isPaused = all]
    BY <1>2, <1>3, <2>2, <2>3 DEF InternalRecord
  <2> QED
    BY <2>1, <2>3
<1>6. \A q \in 1..Len(pvs) : pvs'[q].internal = pvs[q].internal
  BY <1>2
<1>7. pvs'[p].paused = paused /\ all = (\A q \in internals[i].myPVs : IF q = p THEN paused ELSE pvs[q].paused)
  BY <1>2 DEF AllPaused
<1> HIDE DEF i, all
<1>8. Channels'
  <2>1. \A j \in 1..Len(internals) :
          internals'[j].param = internals[j].param /\ internals'[j].myPVs = internals[j].myPVs
    BY <1>2, <1>4
  <2>2. UNCHANGED <<socketVars, pvArray, internalPVArray, internalPVID>> /\ Len(internals') = Len(internals)
    BY <1>1, <1>2
  <2>3. \A q \in pvArray : pvs'[q].internal = pvs[q].internal
    BY <1>3, <1>6
  <2>4. \A j \in 1..Len(internals) : {q \in pvArray : pvs'[q].internal = j} = {q \in pvArray : pvs[q].internal = j}
    BY <2>3
  <2>5. /\ Numbered => Numbered'
        /\ \A j \in 1..Len(internals') : internals'[j].myPVs = {q \in pvArray' : pvs'[q].internal = j}
    BY <2>1, <2>2, <2>3, <2>4 DEF Channels, Numbered
  <2>6. \A j \in internalPVArray' :
          /\ "early" \notin Habits /\ readyState' \in {"connecting", "open"} => internals'[j].myPVs # {}
          /\ \A l \in internalPVArray' \ {j} : internals'[l].param # internals'[j].param
    BY <1>3, <2>1, <2>2 DEF Channels, socketVars
  <2> QED
    BY <2>2, <2>5, <2>6 DEF Channels, socketVars
<1>9. Awake'
  <2>0. readyState = "connecting" => internals' = internals
    BY DEF SetPaused, Throws
  <2> SUFFICES ASSUME readyState = "open", NEW q \in pvArray' \ joined', ~pvs'[q].paused
               PROVE  ~internals'[pvs'[q].internal].isPaused
    BY <1>1, <2>0 DEF Awake, socketVars
  <2>1. q \in pvArray /\ q \in 1..Len(pvs) /\ pvs'[q].internal = pvs[q].internal /\ pvs[q].internal \in 1..Len(internals)
    BY <1>1, <1>2, <1>3, <1>6 DEF ClientType
  <2>2. CASE pvs[q].internal = i
    <3>1. q \in internals[i].myPVs
      BY <1>2, <2>1, <2>2 DEF Channels
    <3>2. ~(IF q = p THEN paused ELSE pvs[q].paused)
      BY <1>2, <1>7, <2>1
    <3>3. ~all
      BY <1>7, <3>1, <3>2
    <3> QED
      BY <1>5, <2>1, <2>2, <3>3
  <2>3. CASE pvs[q].internal # i
    <3>1. q # p /\ pvs'[q] = pvs[q] /\ q \in pvArray \ joined
      BY <1>2, <2>1, <2>3 DEF i
    <3> QED
      BY <1>2, <2>1, <2>3, <3>1 DEF Awake
  <2> QED
    BY <2>2, <2>3
<1> QED
  BY <1>8, <1>9

ChannelInv == Types /\ Socket /\ Channels /\ Awake

LEMMA ChannelStep ==
  ASSUME ChannelInv, [Next]_vars
  PROVE  ChannelInv'
<1> USE DEF ChannelInv
<1>1. Types' /\ Socket'
  BY TypesStep, SocketStep
<1>2. CASE ~ChannelActs
  BY <1>1, <1>2, MostlySame, SameStays DEF Types
<1>3. ASSUME NEW param \in Params, CreatePV(param) PROVE Channels' /\ Awake'
  BY <1>3, JoinChannels, NewChannel, ThrowsChannels DEF CreatePV
<1> QED
  BY <1>1, <1>2, <1>3, CloseChannels, PauseChannels DEF ChannelActs

LEMMA ChannelInit == Init => ChannelInv
<1> SUFFICES ASSUME Init PROVE ChannelInv
  OBVIOUS
<1>1. pvArray = {} /\ internalPVArray = {} /\ Len(internals) = 0 /\ internalPVID = 0
  BY DEF Init
<1> QED
  BY <1>1, TypesInit DEF Init, ChannelInv, Socket, Channels, Numbered, Awake

(* The lists myPVs partition the PVs of the page among the internal PVs, which    *)
(* have different parameters, for any page that waits for its PVs: whatever it    *)
(* closes in callbacks or closes twice; and when it goes on to create PVs of a    *)
(* client that it has closed, all of this holds but that each PV has its channel  *)
(* in internalPVArray.                                                            *)
THEOREM OneChannelEachHolds == ASSUME "early" \notin Habits PROVE Spec => []OneChannelEach
<1>1. Spec => []ChannelInv
  BY ChannelInit, ChannelStep, PTL DEF Spec
<1>2. ASSUME ChannelInv PROVE OneChannelEach
  <2>1. DOMAIN internals = 1..Len(internals)
    BY <1>2 DEF ChannelInv, Types, ClientType
  <2> QED
    BY <1>2, <2>1 DEF ChannelInv, Channels, Numbered, OneChannelEach
<1> QED
  BY <1>1, <1>2, PTL

(* A PV that listens hears its channel while the socket is open, on any page. *)
THEOREM NotSilencedHolds == Spec => []NotSilenced
<1>1. Spec => []ChannelInv
  BY ChannelInit, ChannelStep, PTL DEF Spec
<1>2. ChannelInv => NotSilenced
  BY DEF ChannelInv, Awake, NotSilenced
<1> QED
  BY <1>1, <1>2, PTL

=============================================================================
