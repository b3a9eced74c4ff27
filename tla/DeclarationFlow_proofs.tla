----------------------- MODULE DeclarationFlow_proofs -----------------------
(***************************************************************************)
(* The stored declarations of declarationProvider.js, for any limit of the *)
(* history, any number of requests, tenants and faults: a failed or        *)
(* partial deletion of old ones and a crash at any time included; and what *)
(* else is needed of the state of DeclarationFlow and of its operators.    *)
(***************************************************************************)
EXTENDS DeclarationFlow, FiniteSetTheorems, FunctionTheorems, SequenceTheorems,
        WellFoundedInduction, TLAPS

(* All hosts have the same time, which the stamps are made of.             *)
Synchronous == \A r \in Requests : Behind[r] = 0

(* The i-th declaration of a log, as it is stored.                         *)
Deployed(l, i) == [stamp |-> i + 1, decl |-> l[i].decl, mode |-> l[i].mode]
Span(l, a, b)  == {Deployed(l, i) : i \in a..b}

(* A history of nothing but the log, with the last of it at least.         *)
Remembers(h, l) ==
    /\ h \subseteq Span(l, 1, Len(l))
    /\ \A i \in 1..Len(l) : i + Limit > Len(l) => Deployed(l, i) \in h

HistoryInv ==
    /\ \E S : log \in Seq(S)
    /\ clock = Len(log) + 2
    /\ Remembers(history, log)

-----------------------------------------------------------------------------
(* Ages *)

(* No two entries of a log have the same stamp.                            *)
LEMMA SpanCardinality ==
    ASSUME NEW l, NEW a \in Nat, NEW b \in Nat
    PROVE  /\ IsFiniteSet(Span(l, a, b))
           /\ Cardinality(Span(l, a, b)) = IF a > b THEN 0 ELSE b - a + 1
  <1> DEFINE f == [i \in a..b |-> Deployed(l, i)]
  <1>1. \A i, j \in a..b : Deployed(l, i) = Deployed(l, j) => i = j
    <2> SUFFICES ASSUME NEW i \in a..b, NEW j \in a..b, Deployed(l, i) = Deployed(l, j)
                 PROVE  i = j
      OBVIOUS
    <2>1. Deployed(l, i).stamp = i + 1 /\ Deployed(l, j).stamp = j + 1
      BY DEF Deployed
    <2> QED
      BY <2>1
  <1>2. f \in Bijection(a..b, Span(l, a, b))
    BY <1>1 DEF Span, Bijection, Injection, IsInjective, Surjection
  <1>3. ExistsBijection(a..b, Span(l, a, b))
    BY <1>2 DEF ExistsBijection
  <1> QED
    BY <1>3, FS_Interval, FS_Bijection

(* The age of one of the last declarations is its distance from the last.  *)
LEMMA RecentAge ==
    ASSUME NEW h, NEW l, NEW S, l \in Seq(S), Remembers(h, l),
           NEW i \in 1..Len(l), i + Limit > Len(l)
    PROVE  Age(h, Deployed(l, i)) = Len(l) - i
  <1>1. Len(l) \in Nat /\ i \in Nat /\ Limit \in Nat
    BY FlowAssumption
  <1>2. {e \in h : e.stamp > Deployed(l, i).stamp} = Span(l, i + 1, Len(l))
    <2>1. ASSUME NEW e \in h, e.stamp > Deployed(l, i).stamp
          PROVE  e \in Span(l, i + 1, Len(l))
      <3>1. PICK j \in 1..Len(l) : e = Deployed(l, j)
        BY DEF Remembers, Span
      <3>2. j + 1 > i + 1
        BY <2>1, <3>1 DEF Deployed
      <3>3. j \in (i + 1)..Len(l)
        BY <1>1, <3>2
      <3> QED
        BY <3>1, <3>3 DEF Span
    <2>2. ASSUME NEW e \in Span(l, i + 1, Len(l))
          PROVE  e \in h /\ e.stamp > Deployed(l, i).stamp
      <3>1. PICK j \in (i + 1)..Len(l) : e = Deployed(l, j)
        BY DEF Span
      <3>2. j \in 1..Len(l) /\ j + Limit > Len(l) /\ j + 1 > i + 1
        BY <1>1
      <3> QED
        BY <3>1, <3>2 DEF Remembers, Deployed
    <2> QED
      BY <2>1, <2>2
  <1>3. Cardinality(Span(l, i + 1, Len(l))) = Len(l) - i
    BY <1>1, SpanCardinality
  <1> QED
    BY <1>2, <1>3 DEF Age

(* Nothing else has that age.                                              *)
LEMMA AgeIsItsOwn ==
    ASSUME NEW h, NEW l, NEW S, l \in Seq(S), Remembers(h, l),
           NEW i \in 1..Len(l), i + Limit > Len(l),
           NEW e \in h, Age(h, e) = Len(l) - i
    PROVE  e = Deployed(l, i)
  <1>1. Len(l) \in Nat /\ i \in Nat /\ Limit \in Nat
    BY FlowAssumption
  <1>2. PICK k \in 1..Len(l) : e = Deployed(l, k)
    BY DEF Remembers, Span
  <1>3. CASE k > i
    <2>1. k + Limit > Len(l)
      BY <1>1, <1>3
    <2>2. Age(h, e) = Len(l) - k
      BY <1>2, <2>1, RecentAge
    <2> QED
      BY <1>1, <1>3, <2>2
  <1>4. CASE k < i
    <2> DEFINE later == {x \in h : x.stamp > e.stamp}
    <2>1. Span(l, i, Len(l)) \subseteq later
      <3>1. ASSUME NEW j \in i..Len(l)
            PROVE  Deployed(l, j) \in later
        <4>1. j \in 1..Len(l) /\ j + Limit > Len(l) /\ j + 1 > k + 1
          BY <1>1, <1>4
        <4> QED
          BY <1>2, <4>1 DEF Remembers, Deployed
      <3> QED
        BY <3>1 DEF Span
    <2>2. IsFiniteSet(later)
      <3>1. later \in SUBSET Span(l, 1, Len(l))
        BY DEF Remembers
      <3> QED
        BY <1>1, <3>1, SpanCardinality, FS_Subset
    <2>3. /\ Cardinality(Span(l, i, Len(l))) = Len(l) - i + 1
          /\ Cardinality(later) \in Nat
          /\ Cardinality(Span(l, i, Len(l))) <= Cardinality(later)
      BY <1>1, <2>1, <2>2, SpanCardinality, FS_Subset, FS_CardinalityType
    <2>4. Cardinality(later) = Len(l) - i
      BY DEF Age
    <2> QED
      BY <1>1, <2>3, <2>4
  <1> QED
    BY <1>1, <1>2, <1>3, <1>4

(* What is among the last Limit of the log is found by its age.            *)
LEMMA RecentIsFound ==
    ASSUME NEW h, NEW l, NEW S, l \in Seq(S), Remembers(h, l),
           NEW age \in 0..(Limit - 1), age < Len(l)
    PROVE  HasAge(h, age) /\ OfAge(h, age).decl = l[Len(l) - age].decl
  <1> DEFINE i == Len(l) - age
  <1>1. Len(l) \in Nat /\ Limit \in Nat
    BY FlowAssumption
  <1>2. i \in 1..Len(l) /\ i + Limit > Len(l) /\ age = Len(l) - i /\ i \in Nat
    BY <1>1
  <1> HIDE DEF i
  <1>3. Deployed(l, i) \in h /\ Age(h, Deployed(l, i)) = age
    BY <1>2, RecentAge DEF Remembers
  <1>4. \A e \in h : Age(h, e) = age => e = Deployed(l, i)
    BY <1>2, AgeIsItsOwn
  <1>5. OfAge(h, age) = Deployed(l, i)
    BY <1>3, <1>4 DEF OfAge
  <1>6. HasAge(h, age)
    <2>1. Span(l, i, Len(l)) \in SUBSET h
      <3>1. ASSUME NEW j \in i..Len(l)
            PROVE  Deployed(l, j) \in h
        <4>1. j \in 1..Len(l) /\ j + Limit > Len(l)
          BY <1>1, <1>2
        <4> QED
          BY <4>1 DEF Remembers
      <3> QED
        BY <3>1 DEF Span
    <2>2. IsFiniteSet(h)
      BY <1>1, SpanCardinality, FS_Subset DEF Remembers
    <2>3. Cardinality(Span(l, i, Len(l))) = age + 1 /\ Cardinality(h) \in Nat
      BY <1>1, <1>2, <2>2, SpanCardinality, FS_CardinalityType
    <2>4. Cardinality(Span(l, i, Len(l))) <= Cardinality(h)
      BY <2>1, <2>2, FS_Subset
    <2> QED
      BY <1>2, <2>3, <2>4 DEF HasAge
  <1> QED
    BY <1>5, <1>6 DEF Deployed, i

-----------------------------------------------------------------------------
(* Storing *)

(* A declaration that is stored follows the others, and only declarations  *)
(* beyond the limit are deleted.                                           *)
LEMMA StoringRemembers ==
    ASSUME NEW h, NEW l, NEW S, l \in Seq(S), Remembers(h, l),
           NEW decl, NEW mode, NEW h1,
           LET new == [decl |-> decl, mode |-> mode]
               k   == Kept(h, [stamp |-> Len(l) + 2, decl |-> decl, mode |-> mode])
           IN  h1 = Trimmed(k, Limit) \/ h1 \in TrimmedInPart(k, Limit)
    PROVE  Remembers(h1, Append(l, [decl |-> decl, mode |-> mode]))
  <1> DEFINE new   == [decl |-> decl, mode |-> mode]
             entry == [stamp |-> Len(l) + 2, decl |-> decl, mode |-> mode]
             k     == Kept(h, entry)
             m     == Append(l, new)
             n     == Len(l)
  <1>1. n \in Nat /\ Limit \in Nat \ {0}
    BY FlowAssumption
  <1>2. /\ m \in Seq(S \cup {new})
        /\ Len(m) = n + 1
        /\ \A i \in 1..n : m[i] = l[i]
        /\ m[n + 1] = new
    <2>1. l \in Seq(S \cup {new})
      BY SeqMonotonic
    <2> QED
      BY <2>1, AppendProperties
  <1> HIDE DEF m
  <1>3. /\ \A i \in 1..n : Deployed(m, i) = Deployed(l, i)
        /\ Deployed(m, n + 1) = entry
    <2>1. Deployed(m, n + 1) = [stamp |-> n + 1 + 1, decl |-> decl, mode |-> mode]
      BY <1>2 DEF Deployed
    <2> QED
      BY <1>1, <1>2, <2>1 DEF Deployed
  <1>4. Remembers(k, m)
    <2>1. ASSUME NEW e \in k
          PROVE  e \in Span(m, 1, n + 1)
      <3>1. CASE e = entry
        BY <1>1, <1>3, <3>1 DEF Span
      <3>2. CASE e \in h
        <4>1. PICK i \in 1..n : e = Deployed(l, i)
          BY <3>2 DEF Remembers, Span
        <4>2. e = Deployed(m, i) /\ i \in 1..(n + 1)
          BY <1>1, <1>3, <4>1
        <4> QED
          BY <4>2 DEF Span
      <3> QED
        BY <3>1, <3>2 DEF Kept
    <2>2. ASSUME NEW i \in 1..(n + 1), i + Limit > n + 1
          PROVE  Deployed(m, i) \in k
      <3>1. CASE i = n + 1
        BY <1>3, <3>1 DEF Kept
      <3>2. CASE i \in 1..n
        <4>1. Deployed(l, i) \in h
          BY <1>1, <2>2, <3>2 DEF Remembers
        <4>2. Deployed(l, i).stamp # entry.stamp
          BY <1>1, <3>2 DEF Deployed
        <4> QED
          BY <1>3, <3>2, <4>1, <4>2 DEF Kept
      <3> QED
        BY <1>1, <3>1, <3>2
    <2> HIDE DEF k, n
    <2> QED
      BY <1>2, <2>1, <2>2 DEF Remembers
  <1>5. ASSUME NEW i \in 1..Len(m), i + Limit > Len(m)
        PROVE  Deployed(m, i) \notin Excess(k, Limit)
    <2>1. Age(k, Deployed(m, i)) = Len(m) - i
      BY <1>2, <1>4, <1>5, RecentAge
    <2>2. ~ (Len(m) - i >= Limit)
      BY <1>1, <1>2, <1>5
    <2> QED
      BY <2>1, <2>2 DEF Excess
  <1>6. PICK gone \in SUBSET Excess(k, Limit) : h1 = k \ gone
    BY DEF Trimmed, TrimmedInPart
  <1> HIDE DEF k
  <1>7. Remembers(h1, m)
    BY <1>4, <1>5, <1>6 DEF Remembers
  <1> QED
    BY <1>7 DEF m

(* The histories that a behaviour begins with are trimmed logs.            *)
LEMMA HistoryInit == Init => HistoryInv
  <1> SUFFICES ASSUME Init PROVE HistoryInv
    OBVIOUS
  <1>1. log \in Seq([decl : [Tenants -> Contents], mode : {"selective", "complete"}])
    BY FlowAssumption DEF Init
  <1>2. clock = Len(log) + 2
    BY DEF Init
  <1>3. history = {Deployed(log, i) : i \in {i \in 1..Len(log) : i + Limit > Len(log)}}
    BY DEF Init, Deployed
  <1>4. Remembers(history, log)
    BY <1>3 DEF Remembers, Span
  <1> QED
    BY <1>1, <1>2, <1>4 DEF HistoryInv

(* Storing, trimming in part, and crashes keep HistoryInv.                 *)
LEMMA HistoryStep ==
    ASSUME Synchronous, HistoryInv, [Next]_vars
    PROVE  HistoryInv'
  <1>1. ASSUME NEW r \in Requests, Store(r)
        PROVE  HistoryInv'
    <2>1. CASE StoreDry(r)
      BY <1>1, <2>1 DEF Store, HistoryInv
    <2>2. CASE ~ StoreDry(r)
      <3> DEFINE new == [decl |-> Stored(r), mode |-> job[r].kept]
                 k   == Kept(history, Entry(r))
      <3>1. /\ clock' = clock + 1
            /\ log' = Append(log, new)
            /\ history' = Trimmed(k, Limit) \/ history' \in TrimmedInPart(k, Limit)
        BY <1>1, <2>2 DEF Store
      <3>2. PICK S : log \in Seq(S)
        BY DEF HistoryInv
      <3>3. Entry(r) = [stamp |-> Len(log) + 2, decl |-> Stored(r), mode |-> job[r].kept]
        <4>1. Len(log) \in Nat
          BY <3>2
        <4>2. clock - Behind[r] = Len(log) + 2
          BY <4>1 DEF Synchronous, HistoryInv
        <4> QED
          BY <4>2 DEF Entry
      <3>4. Remembers(history', log')
        BY <3>1, <3>2, <3>3, StoringRemembers DEF HistoryInv
      <3>5. log' \in Seq(S \cup {new}) /\ Len(log') = Len(log) + 1
        <4>1. log \in Seq(S \cup {new})
          BY <3>2, SeqMonotonic
        <4> QED
          BY <3>1, <4>1, AppendProperties
      <3>6. clock' = Len(log') + 2
        <4>1. Len(log) \in Nat
          BY <3>2
        <4> QED
          BY <3>1, <3>5, <4>1 DEF HistoryInv
      <3> QED
        BY <3>4, <3>5, <3>6 DEF HistoryInv
    <2> QED
      BY <2>1, <2>2
  <1>2. ASSUME UNCHANGED <<log, clock, history>>
        PROVE  HistoryInv'
    BY <1>2 DEF HistoryInv
  <1>3. ASSUME NEW r \in Requests, Begin(r) \/ Proceed(r) \/ LateRelease(r) \/ Crash(r)
        PROVE  HistoryInv'
    <2>1. CASE Store(r)
      BY <1>1, <2>1
    <2>2. CASE ~ Store(r)
      <3>1. ASSUME NEW t \in Tenants,
                   Mismatched(r, t) \/ Unread(r, t) \/ Unchanged(r, t)
                      \/ Updated(r, t) \/ Lost(r, t) \/ Slow(r, t)
            PROVE  UNCHANGED <<log, clock, history>>
        BY <3>1 DEF Mismatched, Unread, Unchanged, Updated, Lost, Slow
      <3>2. CASE Audit(r)
        BY <1>2, <3>1, <3>2 DEF Audit
      <3>3. CASE List(r) \/ Fetch(r) \/ Lock(r) \/ Refused(r) \/ Prepare(r) \/ Rejected(r)
        BY <1>2, <3>3 DEF List, Fetch, Lock, Refused, Prepare, Rejected
      <3>4. CASE Unstored(r) \/ Release(r) \/ Output(r)
        BY <1>2, <3>4 DEF Unstored, Release, Output
      <3>5. CASE Begin(r) \/ LateRelease(r) \/ Crash(r)
        BY <1>2, <3>5 DEF Begin, LateRelease, Crash
      <3> QED
        BY <1>3, <2>2, <3>2, <3>3, <3>4, <3>5 DEF Proceed
    <2> QED
      BY <2>1, <2>2
  <1>4. CASE ScriptEnds \/ TakenOver \/ Finished \/ UNCHANGED vars
    BY <1>2, <1>4 DEF ScriptEnds, TakenOver, Finished, vars
  <1> QED
    BY <1>3, <1>4 DEF Next

(* declarationProvider.js: storeBigipDeclaration and trimDeclarations.     *)
(* With one clock, the age of a declaration counts back in the order of    *)
(* storing, however many requests store, fail to delete or crash.          *)
THEOREM AgesCountBack ==
    ASSUME Synchronous
    PROVE  Spec => []AgeCountsBack
  <1>1. HistoryInv => AgeCountsBack
    BY RecentIsFound DEF HistoryInv, AgeCountsBack
  <1> QED
    BY <1>1, HistoryInit, HistoryStep, PTL DEF Spec

-----------------------------------------------------------------------------
(* The state, and what is still to be done of an audit *)

Parts == UNION {[S -> Contents] : S \in SUBSET Tenants}
Entries == [decl : [Tenants -> Contents], mode : Modes]
NoForm == [action |-> "none"]
Replies == {"none", "NO_CONTENT", "OK", "error", "MULTI_STATUS", "UNPROCESSABLE_ENTITY"}
Jobs == [step   : Steps,
         form   : {NoForm} \cup UNION {Forms[r] : r \in Requests},
         picked : Int,
         mode   : Modes,
         kept   : Modes,
         base   : Parts,
         prev   : Parts,
         target : Parts,
         todo   : Seq(Tenants),
         adding : BOOLEAN,
         failed : SUBSET Tenants,
         reply  : Replies,
         fresh  : BOOLEAN,
         before : Parts,
         spoilt : BOOLEAN]

JobsInv ==
    /\ job \in [Requests -> Jobs]
    /\ \A r \in Requests :
          /\ job[r].step # "new" => job[r].form \in Forms[r]
          /\ job[r].step = "audit" => DOMAIN job[r].prev = Tenants /\ DOMAIN job[r].before = Tenants

FlowTypeInv ==
    /\ device \in [Tenants -> Contents]
    /\ log \in Seq(Entries)
    /\ holder \in Requests \cup {Nobody}
    /\ JobsInv
    /\ late \subseteq Requests
    /\ scripts \subseteq [tenant : Tenants, content : Contents]
    /\ unsure \subseteq Tenants
    /\ faults \in Nat

(* The stored declarations, which have different stamps.                   *)
HistoryTypeInv ==
    /\ clock \in Nat
    /\ IsFiniteSet(history)
    /\ \A e \in history : e.decl \in [Tenants -> Contents] /\ e.mode \in Modes /\ e.stamp \in Int
    /\ \A e, x \in history : e.stamp = x.stamp => e = x

(* The declaration that was stored last.                                   *)
Last == IF log = <<>> THEN Empty ELSE log[Len(log)].decl

(* The tenants that are still to be audited.                               *)
ToDo(todo) == {todo[i] : i \in DOMAIN todo}
Left(r) == ToDo(job[r].todo)

(* Every tenant is audited once, Common first and last.                    *)
Plan(todo, adding) ==
    /\ adding => Len(todo) > 1 /\ todo[1] = Common /\ todo[Len(todo)] = Common
    /\ \A i \in DOMAIN todo : todo[i] = Common => i = Len(todo) \/ (i = 1 /\ adding)
    /\ \A i, j \in DOMAIN todo : todo[i] = todo[j] => i = j \/ todo[i] = Common

-----------------------------------------------------------------------------
(* Induction over an interval.                                             *)

(* What holds of 0 and of the next of each number holds up to n.           *)
LEMMA Induction ==
    ASSUME NEW n \in Nat, NEW A, 0 \in A, \A i \in 0..(n - 1) : i \in A => i + 1 \in A
    PROVE  0..n \subseteq A
  <1> DEFINE missing == {0..m : m \in {m \in 0..n : m \notin A}}
  <1> SUFFICES ASSUME missing # {} PROVE FALSE
    OBVIOUS
  <1>1. IsWellFoundedOn(StrictSubsetOrdering(0..n), SUBSET (0..n))
    <2>1. IsFiniteSet(0..n)
      BY FS_Interval
    <2> QED
      BY <2>1, FS_StrictSubsetOrderingWellFounded, FS_FiniteSubsetsOfFinite
  <1>2. missing \subseteq SUBSET (0..n)
    OBVIOUS
  <1>3. \E x \in missing : \A y \in missing : ~ (<<y, x>> \in StrictSubsetOrdering(0..n))
    <2> HIDE DEF missing
    <2> QED
      BY <1>1, <1>2, WFMin
  <1>4. PICK m \in 0..n : /\ m \notin A
                          /\ \A y \in missing : ~ (<<y, 0..m>> \in StrictSubsetOrdering(0..n))
    BY <1>3
  <1>5. m - 1 \in 0..n /\ m - 1 \notin A
    BY <1>4
  <1>6. 0..(m - 1) \in missing
    BY <1>5
  <1>7. 0..(m - 1) \subseteq 0..m /\ 0..(m - 1) # 0..m
    BY <1>5
  <1>8. <<0..(m - 1), 0..m>> \in StrictSubsetOrdering(0..n)
    BY <1>2, <1>6, <1>7 DEF StrictSubsetOrdering
  <1> QED
    BY <1>4, <1>6, <1>8

-----------------------------------------------------------------------------
(* The tenants in their order *)

(* What Others computes: s[n] has those of the first n names in the set.   *)
Selects(s, tenants, n) ==
    /\ DOMAIN s = 0..n
    /\ \A i \in 0..n : s[i] = IF i = 0 THEN <<>>
                              ELSE IF Order[i] \in tenants THEN Append(s[i - 1], Order[i])
                              ELSE s[i - 1]

(* The order of a declaration has every tenant but Common.                 *)
LEMMA OrderTyped ==
    /\ Len(Order) \in Nat /\ DOMAIN Order = 1..Len(Order)
    /\ \A i \in 1..Len(Order) : Order[i] \in Tenants \ {Common}
    /\ Tenants \ {Common} = {Order[i] : i \in 1..Len(Order)}
  <1>1. Order \in Seq(Tenants \ {Common})
    BY FlowAssumption
  <1>2. /\ Len(Order) \in Nat /\ DOMAIN Order = 1..Len(Order)
        /\ \A i \in 1..Len(Order) : Order[i] \in Tenants \ {Common}
    <2> DEFINE T == Tenants \ {Common}
    <2>1. Order \in Seq(T)
      BY <1>1
    <2> HIDE DEF T
    <2>2. /\ Len(Order) \in Nat /\ DOMAIN Order = 1..Len(Order)
          /\ \A i \in 1..Len(Order) : Order[i] \in T
      BY <2>1
    <2> QED
      BY <2>2 DEF T
  <1> QED
    BY <1>2 DEF Tenants

(* The selection can be made step by step.                                 *)
LEMMA SelectionExists ==
    ASSUME NEW tenants
    PROVE  \E s : Selects(s, tenants, Len(Order))
  <1> DEFINE A == {n \in 0..Len(Order) : \E s : Selects(s, tenants, n)}
  <1>1. 0 \in A
    <2>1. Selects([i \in 0..0 |-> <<>>], tenants, 0)
      BY DEF Selects
    <2> QED
      BY <2>1, OrderTyped
  <1>2. ASSUME NEW n \in 0..(Len(Order) - 1), n \in A
        PROVE  n + 1 \in A
    <2>1. PICK s : Selects(s, tenants, n)
      BY <1>2
    <2> DEFINE new == IF Order[n + 1] \in tenants THEN Append(s[n], Order[n + 1]) ELSE s[n]
               t   == [i \in 0..(n + 1) |-> IF i = n + 1 THEN new ELSE s[i]]
    <2>2. \A i \in 0..n : t[i] = s[i] /\ (i # 0 => t[i - 1] = s[i - 1])
      BY OrderTyped
    <2>3. t[n + 1] = new /\ t[n] = s[n]
      BY OrderTyped
    <2>4. DOMAIN t = 0..(n + 1)
      OBVIOUS
    <2> HIDE DEF t
    <2>5. ASSUME NEW i \in 0..(n + 1)
          PROVE  t[i] = IF i = 0 THEN <<>>
                        ELSE IF Order[i] \in tenants THEN Append(t[i - 1], Order[i])
                        ELSE t[i - 1]
      <3>1. CASE i \in 0..n
        BY <2>1, <2>2, <3>1 DEF Selects
      <3>2. CASE i = n + 1
        <4>1. i # 0 /\ i - 1 = n /\ Order[i] = Order[n + 1]
          BY <3>2, OrderTyped
        <4> QED
          BY <2>3, <4>1, <3>2
      <3> QED
        BY <3>1, <3>2, OrderTyped
    <2>6. Selects(t, tenants, n + 1)
      BY <2>4, <2>5 DEF Selects
    <2> QED
      BY <2>6, OrderTyped
  <1>3. 0..Len(Order) \subseteq A
    <2> HIDE DEF A
    <2> QED
      BY <1>1, <1>2, OrderTyped, Induction
  <1> QED
    BY <1>3, OrderTyped

(* Others is what the last of these steps selects.                         *)
LEMMA OthersSelected ==
    ASSUME NEW tenants
    PROVE  \E s : Selects(s, tenants, Len(Order)) /\ Others(tenants) = s[Len(Order)]
  <1> DEFINE Is(f) == f = [n \in 0..Len(Order) |->
                               IF n = 0 THEN <<>>
                               ELSE IF Order[n] \in tenants THEN Append(f[n - 1], Order[n])
                               ELSE f[n - 1]]
  <1>1. PICK s : Selects(s, tenants, Len(Order))
    BY SelectionExists
  <1>2. \E f : Is(f)
    <2> DEFINE f == [n \in 0..Len(Order) |-> s[n]]
    <2>1. \A n \in 0..Len(Order) : f[n] = s[n] /\ (n # 0 => f[n - 1] = s[n - 1])
      BY OrderTyped
    <2>2. f = [n \in 0..Len(Order) |->
                   IF n = 0 THEN <<>>
                   ELSE IF Order[n] \in tenants THEN Append(f[n - 1], Order[n])
                   ELSE f[n - 1]]
      BY <1>1, <2>1 DEF Selects
    <2> QED
      BY <2>2
  <1>3. Is(CHOOSE f : Is(f))
    <2> HIDE DEF Is
    <2> QED
      BY <1>2
  <1>4. Selects(CHOOSE f : Is(f), tenants, Len(Order))
    <2> DEFINE f == CHOOSE f : Is(f)
    <2>1. Is(f)
      BY <1>3
    <2> HIDE DEF f
    <2>2. Selects(f, tenants, Len(Order))
      BY <2>1 DEF Selects
    <2> QED
      BY <2>2 DEF f
  <1> QED
    BY <1>4 DEF Others

(* Others lists every tenant once, and never Common.                       *)
LEMMA OthersListed ==
    ASSUME NEW tenants \in SUBSET Tenants
    PROVE  /\ Others(tenants) \in Seq(Tenants \ {Common})
           /\ ToDo(Others(tenants)) = tenants \ {Common}
           /\ \A i, j \in DOMAIN Others(tenants) :
                 Others(tenants)[i] = Others(tenants)[j] => i = j
  <1> DEFINE T == Tenants \ {Common}
             Those(n) == {Order[i] : i \in {i \in 1..n : Order[i] \in tenants}}
             Lists(s, n) == /\ s \in Seq(T)
                            /\ {s[i] : i \in 1..Len(s)} = Those(n)
                            /\ \A i, j \in 1..Len(s) : s[i] = s[j] => i = j
  <1>1. PICK s : Selects(s, tenants, Len(Order)) /\ Others(tenants) = s[Len(Order)]
    BY OthersSelected
  <1> DEFINE A == {n \in 0..Len(Order) : Lists(s[n], n)}
  <1>2. 0 \in A
    <2>1. s[0] = <<>>
      BY <1>1, OrderTyped DEF Selects
    <2>2. Lists(<<>>, 0)
      OBVIOUS
    <2> HIDE DEF Lists
    <2> QED
      BY <2>1, <2>2, OrderTyped
  <1>3. ASSUME NEW n \in 0..(Len(Order) - 1), n \in A
        PROVE  n + 1 \in A
    <2> DEFINE old == s[n]
               t   == Order[n + 1]
    <2>1. /\ n + 1 \in 0..Len(Order) /\ n + 1 # 0 /\ (n + 1) - 1 = n
          /\ n + 1 \in 1..Len(Order)
      BY OrderTyped
    <2>2. Lists(old, n) /\ Len(old) \in Nat
      <3>1. Lists(old, n)
        <4> HIDE DEF Lists
        <4> QED
          BY <1>3
      <3>2. old \in Seq(T)
        BY <3>1
      <3> HIDE DEF T, Lists, old
      <3> QED
        BY <3>1, <3>2
    <2>3. t \in T
      BY <2>1, OrderTyped
    <2>4. s[n + 1] = IF t \in tenants THEN Append(old, t) ELSE old
      BY <1>1, <2>1 DEF Selects
    <2>5. \A i \in 1..n : Order[i] # t
      <3>1. \A i, j \in 1..Len(Order) : Order[i] = Order[j] => i = j
        BY FlowAssumption, OrderTyped
      <3> QED
        BY <2>1, <3>1
    <2>6. CASE t \notin tenants
      <3>1. Those(n + 1) = Those(n)
        BY <2>1, <2>6
      <3>2. s[n + 1] = old
        BY <2>4, <2>6, Zenon
      <3> HIDE DEF Those, old, T
      <3>3. Lists(old, n + 1)
        BY <2>2, <3>1, Zenon
      <3> HIDE DEF Lists
      <3> QED
        BY <2>1, <3>2, <3>3
    <2>7. CASE t \in tenants
      <3> DEFINE new == Append(old, t)
      <3> HIDE DEF T, old, t
      <3>1. /\ new \in Seq(T) /\ Len(new) = Len(old) + 1
            /\ \A i \in 1..Len(old) : new[i] = old[i]
            /\ new[Len(old) + 1] = t
        BY <2>2, <2>3, AppendProperties
      <3>2. Those(n + 1) = Those(n) \cup {t}
        BY <2>1, <2>7 DEF t
      <3>3. t \notin Those(n)
        BY <2>5
      <3> HIDE DEF new
      <3>4. {new[i] : i \in 1..Len(new)} = {old[i] : i \in 1..Len(old)} \cup {t}
        BY <2>2, <3>1
      <3>5. \A i \in 1..Len(old) : old[i] # t
        BY <2>2, <3>3
      <3>6. \A i, j \in 1..Len(new) : new[i] = new[j] => i = j
        BY <2>2, <3>1, <3>5
      <3>7. Lists(new, n + 1)
        BY <2>2, <3>1, <3>2, <3>4, <3>6
      <3> HIDE DEF Lists
      <3> QED
        BY <2>1, <2>4, <2>7, <3>7 DEF new
    <2> QED
      BY <2>6, <2>7
  <1>4. Lists(Others(tenants), Len(Order))
    <2>1. 0..Len(Order) \subseteq A
      <3> HIDE DEF A
      <3> QED
        BY <1>2, <1>3, OrderTyped, Induction
    <2>2. Len(Order) \in A
      <3> HIDE DEF A
      <3> QED
        BY <2>1, OrderTyped
    <2> HIDE DEF Lists
    <2>3. Lists(s[Len(Order)], Len(Order))
      BY <2>2
    <2> QED
      BY <1>1, <2>3
  <1>5. Those(Len(Order)) = tenants \ {Common}
    BY OrderTyped
  <1>6. DOMAIN Others(tenants) = 1..Len(Others(tenants))
    <2> HIDE DEF T
    <2> QED
      BY <1>4
  <1> QED
    BY <1>4, <1>5, <1>6 DEF ToDo

(* The list names every tenant, and keeps to the plan.                     *)
LEMMA ListIsPlan ==
    ASSUME NEW tenants \in SUBSET Tenants
    PROVE  /\ TenantList(tenants) \in Seq(Tenants)
           /\ ToDo(TenantList(tenants)) = tenants
           /\ Plan(TenantList(tenants), Common \in tenants)
  <1> DEFINE o == Others(tenants)
  <1>1. o \in Seq(Tenants)
    BY OthersListed, SeqMonotonic
  <1>2. /\ Len(o) \in Nat /\ DOMAIN o = 1..Len(o)
        /\ {o[i] : i \in 1..Len(o)} = tenants \ {Common}
        /\ \A i \in 1..Len(o) : o[i] # Common
        /\ \A i, j \in 1..Len(o) : o[i] = o[j] => i = j
    <2>1. Len(o) \in Nat /\ DOMAIN o = 1..Len(o)
      BY <1>1
    <2>2. {o[i] : i \in 1..Len(o)} = tenants \ {Common}
      BY <2>1, OthersListed DEF ToDo
    <2> QED
      BY <2>1, <2>2, OthersListed
  <1>3. Common \in Tenants
    BY DEF Tenants
  <1> HIDE DEF o
  <1>4. CASE Common \notin tenants
    <2>1. TenantList(tenants) = o
      BY <1>4 DEF TenantList, o
    <2>2. Plan(o, FALSE)
      BY <1>2 DEF Plan
    <2>3. ToDo(o) = tenants
      BY <1>2, <1>4 DEF ToDo
    <2>4. (Common \in tenants) = FALSE
      BY <1>4
    <2> QED
      BY <1>1, <2>1, <2>2, <2>3, <2>4
  <1>5. CASE Common \in tenants
    <2> DEFINE l == <<Common>> \o o \o <<Common>>
    <2>1. TenantList(tenants) = l
      BY <1>5 DEF TenantList, o
    <2>2. <<Common>> \in Seq(Tenants) /\ Len(<<Common>>) = 1 /\ <<Common>>[1] = Common
      BY <1>3
    <2> DEFINE m == <<Common>> \o o
    <2>3. /\ m \in Seq(Tenants) /\ Len(m) = Len(o) + 1 /\ m[1] = Common
          /\ \A i \in 2..(Len(o) + 1) : m[i] = o[i - 1]
      BY <1>1, <1>2, <2>2, ConcatProperties
    <2> HIDE DEF m
    <2>4. /\ l \in Seq(Tenants) /\ Len(l) = Len(o) + 2
          /\ \A i \in 1..Len(m) : l[i] = m[i]
          /\ l[Len(o) + 2] = Common
      <3>1. l = m \o <<Common>>
        BY DEF m
      <3> HIDE DEF l
      <3> QED
        BY <1>2, <2>2, <2>3, <3>1, ConcatProperties
    <2>5. DOMAIN l = 1..Len(l)
      BY <2>4, LenProperties
    <2> HIDE DEF l
    <2>6. /\ l[1] = Common
          /\ \A i \in 2..(Len(o) + 1) : l[i] = o[i - 1]
      BY <1>2, <2>3, <2>4
    <2>7. \A i \in 1..Len(l) : i = 1 \/ i = Len(o) + 2 \/ (i \in 2..(Len(o) + 1) /\ l[i] = o[i - 1])
      BY <1>2, <2>4, <2>6
    <2>8. ToDo(l) = tenants
      <3>1. \A i \in 1..Len(o) : i + 1 \in 2..(Len(o) + 1) /\ l[i + 1] = o[i]
        BY <1>2, <2>6
      <3>2. ToDo(l) \subseteq tenants
        BY <1>2, <1>5, <2>4, <2>5, <2>6, <2>7 DEF ToDo
      <3>3. Common \in ToDo(l)
        BY <1>2, <2>4, <2>5 DEF ToDo
      <3>4. ASSUME NEW t \in tenants \ {Common}
            PROVE  t \in ToDo(l)
        <4>1. PICK i \in 1..Len(o) : o[i] = t
          BY <1>2
        <4>2. i + 1 \in DOMAIN l /\ l[i + 1] = t
          BY <1>2, <2>4, <2>5, <3>1, <4>1
        <4> QED
          BY <4>2 DEF ToDo
      <3> QED
        BY <3>2, <3>3, <3>4
    <2>9. Plan(l, TRUE)
      <3>1. Len(l) > 1 /\ l[1] = Common /\ l[Len(l)] = Common
        BY <1>2, <2>4, <2>6
      <3>2. ASSUME NEW i \in 1..Len(l), l[i] = Common
            PROVE  i = Len(l) \/ i = 1
        BY <1>2, <2>4, <2>7, <3>2
      <3>3. ASSUME NEW i \in 1..Len(l), NEW j \in 1..Len(l), l[i] = l[j], l[i] # Common
            PROVE  i = j
        <4>1. i \in 2..(Len(o) + 1) /\ j \in 2..(Len(o) + 1)
          BY <2>4, <2>6, <2>7, <3>3
        <4>2. i - 1 \in 1..Len(o) /\ j - 1 \in 1..Len(o) /\ o[i - 1] = o[j - 1]
          BY <1>2, <2>6, <3>3, <4>1
        <4> QED
          BY <1>2, <4>2
      <3> QED
        BY <2>5, <3>1, <3>2, <3>3 DEF Plan
    <2>10. (Common \in tenants) = TRUE
      BY <1>5
    <2> QED
      BY <2>1, <2>4, <2>8, <2>9, <2>10
  <1> QED
    BY <1>4, <1>5

(* When the first of the list is done, the rest keeps to the plan.         *)
LEMMA PlanGoesOn ==
    ASSUME NEW todo \in Seq(Tenants), NEW adding \in BOOLEAN, Plan(todo, adding), todo # <<>>
    PROVE  /\ Tail(todo) \in Seq(Tenants)
           /\ Plan(Tail(todo), FALSE)
           /\ Head(todo) \in ToDo(todo)
           /\ adding => Head(todo) = Common /\ ToDo(Tail(todo)) = ToDo(todo)
           /\ ~ adding => ToDo(Tail(todo)) = ToDo(todo) \ {Head(todo)}
           /\ ~ adding /\ Head(todo) = Common => ToDo(todo) = {Common}
  <1>1. /\ Len(todo) \in Nat \ {0} /\ DOMAIN todo = 1..Len(todo)
        /\ Tail(todo) \in Seq(Tenants) /\ Len(Tail(todo)) = Len(todo) - 1
        /\ Head(todo) = todo[1]
        /\ DOMAIN Tail(todo) = 1..(Len(todo) - 1)
        /\ \A i \in 1..(Len(todo) - 1) : Tail(todo)[i] = todo[i + 1]
    OBVIOUS
  <1> DEFINE n == Len(todo)
             rest == Tail(todo)
  <1>2. ToDo(todo) = {todo[i] : i \in 1..n} /\ ToDo(rest) = {todo[i] : i \in 2..n}
    <2>1. ASSUME NEW i \in 2..n
          PROVE  todo[i] \in ToDo(rest)
      <3>1. i - 1 \in 1..(n - 1) /\ rest[i - 1] = todo[i]
        BY <1>1
      <3> QED
        BY <1>1, <3>1 DEF ToDo
    <2>2. ToDo(rest) \subseteq {todo[i] : i \in 2..n}
      <3>1. \A i \in 1..(n - 1) : i + 1 \in 2..n
        BY <1>1
      <3> QED
        BY <1>1, <3>1 DEF ToDo
    <2> QED
      BY <1>1, <2>1, <2>2 DEF ToDo
  <1> HIDE DEF n, rest
  <1>3. Plan(rest, FALSE)
    <2>1. \A i \in 1..(n - 1) : i + 1 \in 1..n /\ i + 1 # 1 /\ rest[i] = todo[i + 1]
      BY <1>1 DEF n, rest
    <2>2. ASSUME NEW i \in 1..(n - 1), rest[i] = Common
          PROVE  i = n - 1
      <3>1. i + 1 \in DOMAIN todo /\ todo[i + 1] = Common /\ i + 1 # 1
        BY <1>1, <2>1, <2>2 DEF n
      <3>2. i + 1 = Len(todo)
        BY <3>1 DEF Plan
      <3>3. n \in Nat /\ i + 1 = n
        BY <1>1, <3>2 DEF n
      <3> QED
        BY <3>3
    <2>3. ASSUME NEW i \in 1..(n - 1), NEW j \in 1..(n - 1), rest[i] = rest[j]
          PROVE  i = j
      <3>1. /\ i + 1 \in DOMAIN todo /\ j + 1 \in DOMAIN todo
            /\ todo[i + 1] = todo[j + 1] /\ todo[i + 1] = rest[i]
        BY <1>1, <2>1, <2>3 DEF n
      <3>2. i + 1 = j + 1 \/ rest[i] = Common
        BY <3>1 DEF Plan
      <3> QED
        BY <2>2, <2>3, <3>2
    <2> QED
      BY <1>1, <2>2, <2>3 DEF Plan, n, rest
  <1>4. ASSUME adding
        PROVE  Head(todo) = Common /\ ToDo(rest) = ToDo(todo)
    <2>1. n > 1 /\ todo[1] = Common /\ todo[n] = Common
      BY <1>4 DEF Plan, n
    <2>2. n \in 2..n
      BY <1>1, <2>1 DEF n
    <2> QED
      BY <1>1, <1>2, <2>1, <2>2 DEF n
  <1>5. ASSUME ~ adding
        PROVE  ToDo(rest) = ToDo(todo) \ {Head(todo)}
    <2>1. \A i \in 2..n : todo[i] # todo[1]
      BY <1>1, <1>5 DEF Plan, n
    <2> QED
      BY <1>1, <1>2, <2>1 DEF n
  <1>6. ASSUME ~ adding, Head(todo) = Common
        PROVE  ToDo(todo) = {Common}
    <2>1. n = 1
      BY <1>1, <1>6 DEF Plan, n
    <2> QED
      BY <1>1, <1>2, <1>6, <2>1 DEF n
  <1>7. Head(todo) \in ToDo(todo)
    BY <1>1 DEF ToDo
  <1> QED
    BY <1>1, <1>3, <1>4, <1>5, <1>6, <1>7 DEF rest

-----------------------------------------------------------------------------
(* The history *)

(* What the log has, and the last of it.                                   *)
LEMMA LogTyped ==
    ASSUME log \in Seq(Entries)
    PROVE  /\ Len(log) \in Nat /\ DOMAIN log = 1..Len(log)
           /\ log # <<>> <=> Len(log) > 0
           /\ \A i \in 1..Len(log) : log[i] \in Entries
           /\ \A i \in 1..Len(log) : log[i].decl \in [Tenants -> Contents] /\ log[i].mode \in Modes
           /\ Last \in [Tenants -> Contents]
  <1>1. /\ Len(log) \in Nat /\ DOMAIN log = 1..Len(log)
        /\ log # <<>> <=> Len(log) > 0
        /\ \A i \in 1..Len(log) : log[i] \in Entries
    OBVIOUS
  <1>2. \A e \in Entries : e.decl \in [Tenants -> Contents] /\ e.mode \in Modes
    BY DEF Entries
  <1>3. Empty \in [Tenants -> Contents]
    BY DEF Empty, Nothing, Contents
  <1>4. CASE log = <<>>
    BY <1>1, <1>2, <1>3, <1>4 DEF Last
  <1>5. CASE log # <<>>
    <2>1. Len(log) \in 1..Len(log)
      BY <1>1, <1>5
    <2> QED
      BY <1>1, <1>2, <1>5, <2>1 DEF Last
  <1> QED
    BY <1>4, <1>5

(* What the history has was stored.                                        *)
LEMMA HistoryIsLogged ==
    ASSUME HistoryInv, log \in Seq(Entries)
    PROVE  /\ IsFiniteSet(history)
           /\ \A e \in history : \E i \in 1..Len(log) : e = Deployed(log, i)
           /\ \A e \in history : e.decl \in [Tenants -> Contents] /\ e.mode \in Modes
                                 /\ e.stamp \in Nat
  <1>1. history \in SUBSET Span(log, 1, Len(log))
    BY DEF HistoryInv, Remembers
  <1>2. IsFiniteSet(history)
    BY <1>1, LogTyped, SpanCardinality, FS_Subset
  <1>3. \A e \in history : \E i \in 1..Len(log) : e = Deployed(log, i)
    BY <1>1 DEF Span
  <1> QED
    BY <1>2, <1>3, LogTyped DEF Deployed

(* What is read as the last declaration is the last one of the log.        *)
LEMMA PrevIsLast ==
    ASSUME HistoryInv, log \in Seq(Entries)
    PROVE  /\ history # {} <=> log # <<>>
           /\ log # <<>> => Newest = Deployed(log, Len(log)) /\ Newest.decl = Last
           /\ Prev = Last
  <1> DEFINE n == Len(log)
             e == Deployed(log, n)
  <1>1. CASE log = <<>>
    <2>1. history = {}
      BY <1>1, LogTyped, HistoryIsLogged
    <2> QED
      BY <1>1, <2>1 DEF Prev, Last
  <1>2. CASE log # <<>>
    <2>1. n \in 1..n /\ n + Limit > n /\ n \in Nat /\ n - n = 0
      BY <1>2, LogTyped, FlowAssumption
    <2>2. e \in history
      BY <2>1 DEF HistoryInv, Remembers
    <2>3. Age(history, e) = 0
      BY <2>1, RecentAge DEF HistoryInv
    <2>4. \A x \in history : Age(history, x) = 0 => x = e
      BY <2>1, AgeIsItsOwn DEF HistoryInv
    <2>5. Newest = e
      BY <2>2, <2>3, <2>4 DEF Newest, OfAge
    <2> QED
      BY <1>2, <2>2, <2>5 DEF Deployed, Prev, Last
  <1> QED
    BY <1>1, <1>2

(* There is a declaration of every age below the number of declarations.   *)
LEMMA AgeIsTaken ==
    ASSUME HistoryTypeInv, NEW age \in Nat, HasAge(history, age)
    PROVE  OfAge(history, age) \in history /\ Age(history, OfAge(history, age)) = age
  <1> DEFINE n == Cardinality(history)
             Later(e) == {x \in history : x.stamp > e.stamp}
             f == [e \in history |-> Age(history, e)]
  <1>1. IsFiniteSet(history) /\ n \in Nat
    BY FS_CardinalityType DEF HistoryTypeInv
  <1>2. \A e \in history : e.stamp \in Int
    BY DEF HistoryTypeInv
  <1>3. \A e, x \in history : e.stamp = x.stamp => e = x
    BY DEF HistoryTypeInv
  <1>4. \A e \in history : /\ IsFiniteSet(Later(e)) /\ Cardinality(Later(e)) \in Nat
                           /\ Age(history, e) = Cardinality(Later(e))
    BY <1>1, FS_Subset, FS_CardinalityType DEF Age
  <1>5. \A e \in history : Age(history, e) \in 0..(n - 1)
    <2> TAKE e \in history
    <2>1. Later(e) \in SUBSET (history \ {e})
      BY <1>2
    <2>2. IsFiniteSet(history \ {e}) /\ Cardinality(history \ {e}) = n - 1
      BY <1>1, FS_RemoveElement
    <2>3. Cardinality(Later(e)) <= n - 1
      BY <2>1, <2>2, FS_Subset
    <2> HIDE DEF Later, n
    <2> QED
      BY <1>1, <1>4, <2>3
  <1>6. ASSUME NEW e \in history, NEW x \in history, e.stamp > x.stamp
        PROVE  Age(history, e) < Age(history, x)
    <2>1. Later(e) \cup {e} \in SUBSET Later(x)
      BY <1>2, <1>6
    <2>2. e \notin Later(e)
      BY <1>2
    <2>3. Cardinality(Later(e) \cup {e}) = Cardinality(Later(e)) + 1
      BY <1>4, <2>2, FS_AddElement
    <2>4. Cardinality(Later(e) \cup {e}) <= Cardinality(Later(x))
      BY <1>4, <2>1, FS_Subset
    <2> HIDE DEF Later
    <2> QED
      BY <1>4, <2>3, <2>4
  <1>7. f \in Injection(history, 0..(n - 1))
    <2>1. \A e, x \in history : Age(history, e) = Age(history, x) => e = x
      <3> SUFFICES ASSUME NEW e \in history, NEW x \in history, e # x
                   PROVE  Age(history, e) # Age(history, x)
        OBVIOUS
      <3>1. e.stamp > x.stamp \/ x.stamp > e.stamp
        BY <1>2, <1>3
      <3>2. Age(history, e) \in Nat /\ Age(history, x) \in Nat
        BY <1>4
      <3> QED
        BY <1>6, <3>1, <3>2
    <2>2. f \in [history -> 0..(n - 1)]
      BY <1>5
    <2> QED
      BY <2>1, <2>2 DEF Injection, IsInjective
  <1>8. IsFiniteSet(0..(n - 1)) /\ Cardinality(0..(n - 1)) = n
    <2> HIDE DEF n
    <2> QED
      BY <1>1, FS_Interval
  <1>9. f \in Surjection(history, 0..(n - 1))
    <2> HIDE DEF n, f
    <2> QED
      BY <1>7, <1>8, FS_Injection DEF n
  <1>10. age \in 0..(n - 1)
    BY <1>1 DEF HasAge
  <1>11. \E e \in history : Age(history, e) = age
    BY <1>9, <1>10 DEF Surjection
  <1> QED
    BY <1>11 DEF OfAge

(* What is read as the last declaration is one.                            *)
LEMMA PrevTyped ==
    ASSUME HistoryTypeInv
    PROVE  /\ history # {} => Newest \in history
           /\ Prev \in [Tenants -> Contents]
  <1>1. ASSUME history # {}
        PROVE  Newest \in history
    <2>1. Cardinality(history) \in Nat /\ Cardinality(history) # 0
      BY <1>1, FS_CardinalityType, FS_EmptySet DEF HistoryTypeInv
    <2>2. HasAge(history, 0)
      BY <2>1 DEF HasAge
    <2> QED
      BY <2>2, AgeIsTaken DEF Newest
  <1>2. Empty \in [Tenants -> Contents]
    BY DEF Empty, Nothing, Contents
  <1> QED
    BY <1>1, <1>2 DEF Prev, HistoryTypeInv

-----------------------------------------------------------------------------
(* Types *)

(* The parts of a declaration, and the empty ones.                         *)
LEMMA PartsAre ==
    /\ \A d : d \in Parts <=> IsPart(d)
    /\ [Tenants -> Contents] \subseteq Parts
    /\ None \in Parts /\ Empty \in [Tenants -> Contents] /\ Nothing \in Contents
    /\ Common \in Tenants
    /\ \A d \in Parts : \A t \in DOMAIN d : t \in Tenants /\ d[t] \in Contents
  <1>1. \A d : d \in Parts <=> IsPart(d)
    BY DEF Parts, IsPart
  <1>2. [Tenants -> Contents] \subseteq Parts
    BY DEF Parts
  <1>3. None \in Parts
    BY <1>1 DEF None, IsPart
  <1>4. Empty \in [Tenants -> Contents] /\ Nothing \in Contents
    BY DEF Empty, Nothing, Contents
  <1>5. Common \in Tenants
    BY DEF Tenants
  <1> QED
    BY <1>1, <1>2, <1>3, <1>4, <1>5 DEF IsPart

(* Over takes a tenant from its first part, else from the second.          *)
LEMMA OverIsPart ==
    ASSUME NEW f \in Parts, NEW g \in Parts
    PROVE  /\ Over(f, g) \in Parts
           /\ DOMAIN Over(f, g) = DOMAIN f \cup DOMAIN g
           /\ \A t \in DOMAIN f : Over(f, g)[t] = f[t]
           /\ \A t \in DOMAIN g \ DOMAIN f : Over(f, g)[t] = g[t]
           /\ DOMAIN g = Tenants => Over(f, g) \in [Tenants -> Contents]
  <1>1. IsPart(f) /\ IsPart(g)
    BY PartsAre
  <1>2. IsPart(Over(f, g))
    BY <1>1 DEF IsPart, Over
  <1>3. /\ DOMAIN Over(f, g) = DOMAIN f \cup DOMAIN g
        /\ \A t \in DOMAIN f : Over(f, g)[t] = f[t]
        /\ \A t \in DOMAIN g \ DOMAIN f : Over(f, g)[t] = g[t]
    BY DEF Over
  <1>4. DOMAIN g = Tenants => DOMAIN Over(f, g) = Tenants
    BY <1>1, <1>3 DEF IsPart
  <1> QED
    BY <1>2, <1>3, <1>4, PartsAre DEF IsPart

(* What is left of a declaration is one.                                   *)
LEMMA SomeIsPart ==
    ASSUME NEW decl \in Parts
    PROVE  /\ Some(decl) \in Parts
           /\ \A named \in SUBSET Tenants : Filtered(decl, named) \in Parts
  <1>1. IsPart(Some(decl))
    BY PartsAre DEF IsPart, Some, Named
  <1>2. ASSUME NEW named \in SUBSET Tenants
        PROVE  IsPart(Filtered(decl, named))
    BY PartsAre DEF IsPart, Filtered
  <1> QED
    BY <1>1, <1>2, PartsAre

(* A complete declaration deletes what was and is not named.               *)
LEMMA UnwantedIsPart ==
    ASSUME NEW mode, NEW base \in Parts, NEW prev \in Parts
    PROVE  /\ Unwanted(mode, base, prev) \in Parts
           /\ mode = "complete" => DOMAIN Unwanted(mode, base, prev) = Named(prev) \ DOMAIN base
           /\ mode # "complete" => DOMAIN Unwanted(mode, base, prev) = {}
           /\ \A t \in DOMAIN Unwanted(mode, base, prev) :
                 t \notin DOMAIN base /\ Unwanted(mode, base, prev)[t] = Nothing
  <1>1. IsPart(Unwanted(mode, base, prev))
    BY PartsAre DEF IsPart, Unwanted, Named
  <1> QED
    BY <1>1, PartsAre DEF Unwanted

(* The Common that references need is the one stored last.                 *)
LEMMA CommonIsPart ==
    ASSUME HistoryTypeInv, NEW action, NEW decl
    PROVE  /\ CommonFor(action, decl) \in Parts
           /\ DOMAIN CommonFor(action, decl) \subseteq {Common} \ DOMAIN decl
           /\ \A t \in DOMAIN CommonFor(action, decl) :
                 CommonFor(action, decl)[t] = Prev[Common]
  <1>1. CASE CommonFor(action, decl) = None
    BY <1>1, PartsAre DEF None
  <1>2. CASE CommonFor(action, decl) # None
    <2>1. /\ Common \notin DOMAIN decl /\ history # {}
          /\ CommonFor(action, decl) = [t \in {Common} |-> Newest.decl[Common]]
      BY <1>2 DEF CommonFor
    <2>2. Newest.decl = Prev
      BY <2>1 DEF Prev
    <2>3. Prev[Common] \in Contents
      BY PrevTyped, PartsAre
    <2>4. IsPart([t \in {Common} |-> Prev[Common]])
      BY <2>3, PartsAre DEF IsPart
    <2> QED
      BY <2>1, <2>2, <2>4, PartsAre
  <1> QED
    BY <1>1, <1>2

(* Become changes one request.                                             *)
LEMMA BecomeTyped ==
    ASSUME job \in [Requests -> Jobs], NEW r \in Requests, NEW new, Become(r, new)
    PROVE  /\ job'[r] = new
           /\ \A q \in Requests \ {r} : job'[q] = job[q]
           /\ new \in Jobs => job' \in [Requests -> Jobs]
  BY DEF Become

(* What a client sends.                                                    *)
LEMMA FormsTyped ==
    ASSUME NEW r \in Requests, NEW f \in Forms[r]
    PROVE  /\ f.action \in Actions /\ f.mode \in Modes /\ f.age \in Nat /\ f.dryRun \in BOOLEAN
           /\ f.decl \in Parts /\ f.expect \in Parts
           /\ f \in UNION {Forms[q] : q \in Requests}
  BY FlowAssumption, PartsAre

(* What is stored names every tenant.                                      *)
LEMMA StoredTyped ==
    ASSUME FlowTypeInv, NEW r \in Requests, DOMAIN job[r].prev = Tenants
    PROVE  Stored(r) \in [Tenants -> Contents]
  <1>1. job[r].prev \in Parts /\ job[r].base \in Parts
    BY DEF FlowTypeInv, JobsInv, Jobs
  <1>2. Over(job[r].base, Empty) \in [Tenants -> Contents]
    BY <1>1, PartsAre, OverIsPart
  <1>3. \A t \in Tenants : job[r].prev[t] \in Contents
    BY <1>1, PartsAre
  <1> QED
    BY <1>2, <1>3 DEF Stored

(* The types hold in the beginning.                                        *)
LEMMA FlowTypeInit == Init => FlowTypeInv
  <1> SUFFICES ASSUME Init PROVE FlowTypeInv
    OBVIOUS
  <1> DEFINE D == [Tenants -> Contents]
             E == [decl : D, mode : {"selective", "complete"}]
  <1>1. log \in Seq(E)
    BY FlowAssumption DEF Init
  <1>2. log \in Seq(Entries)
    <2>1. E \subseteq Entries
      BY DEF Entries, Modes
    <2> QED
      BY <1>1, <2>1, SeqMonotonic
  <1>3. device \in [Tenants -> Contents]
    <2>1. device = Last
      BY DEF Init, Last, Empty
    <2> QED
      BY <1>2, <2>1, LogTyped
  <1>4. Idle \in Jobs
    BY PartsAre, FlowAssumption DEF Idle, Jobs, Replies, Steps, NoForm, Modes
  <1>5. job \in [Requests -> Jobs] /\ \A r \in Requests : job[r].step = "new"
    BY <1>4 DEF Init, Idle
  <1> QED
    BY <1>2, <1>3, <1>5, FlowAssumption DEF Init, FlowTypeInv, JobsInv

(* The fields of a request.                                                *)
LEMMA JobTyped ==
    ASSUME NEW j \in Jobs
    PROVE  /\ j.step \in Steps /\ j.picked \in Int /\ j.mode \in Modes /\ j.kept \in Modes
           /\ j.base \in Parts /\ j.prev \in Parts /\ j.target \in Parts /\ j.before \in Parts
           /\ j.todo \in Seq(Tenants) /\ j.adding \in BOOLEAN /\ j.failed \in SUBSET Tenants
           /\ j.fresh \in BOOLEAN /\ j.spoilt \in BOOLEAN
  BY DEF Jobs

(* A request that changes nothing of its deployment.                       *)
LEMMA StepTyped ==
    ASSUME FlowTypeInv, NEW r \in Requests, NEW new \in Jobs, Become(r, new),
           new.step # "audit" \/ (new.prev = job[r].prev /\ new.before = job[r].before
                                     /\ job[r].step = "audit"),
           new.form \in Forms[r]
    PROVE  JobsInv'
  <1>1. /\ job' \in [Requests -> Jobs] /\ job'[r] = new
        /\ \A q \in Requests \ {r} : job'[q] = job[q]
    BY BecomeTyped DEF FlowTypeInv, JobsInv
  <1> QED
    BY <1>1 DEF FlowTypeInv, JobsInv

JobFields == {"step", "form", "picked", "mode", "kept", "base", "prev", "target", "todo",
              "adding", "failed", "reply", "fresh", "before", "spoilt"}

(* All requests have the same fields.                                      *)
LEMMA JobDomain == \A j \in Jobs : DOMAIN j = JobFields
  BY DEF Jobs, JobFields

(* One field of a request is set.                                          *)
LEMMA FieldTyped ==
    ASSUME NEW j \in Jobs, NEW v
    PROVE  /\ v \in Steps => [j EXCEPT !.step = v] \in Jobs
           /\ v \in Int => [j EXCEPT !.picked = v] \in Jobs
           /\ v \in Modes => [j EXCEPT !.mode = v] \in Jobs /\ [j EXCEPT !.kept = v] \in Jobs
           /\ v \in Parts => [j EXCEPT !.base = v] \in Jobs /\ [j EXCEPT !.prev = v] \in Jobs
                             /\ [j EXCEPT !.target = v] \in Jobs
                             /\ [j EXCEPT !.before = v] \in Jobs
           /\ v \in Seq(Tenants) => [j EXCEPT !.todo = v] \in Jobs
           /\ v \in SUBSET Tenants => [j EXCEPT !.failed = v] \in Jobs
           /\ v \in BOOLEAN => [j EXCEPT !.adding = v] \in Jobs /\ [j EXCEPT !.fresh = v] \in Jobs
                               /\ [j EXCEPT !.spoilt = v] \in Jobs
  <1>1. v \in Steps => [j EXCEPT !.step = v] \in Jobs
    BY DEF Jobs
  <1>2. v \in Int => [j EXCEPT !.picked = v] \in Jobs
    BY DEF Jobs
  <1>3. v \in Modes => [j EXCEPT !.mode = v] \in Jobs
    BY DEF Jobs
  <1>4. v \in Modes => [j EXCEPT !.kept = v] \in Jobs
    BY DEF Jobs
  <1>5. v \in Parts => [j EXCEPT !.base = v] \in Jobs
    BY DEF Jobs
  <1>6. v \in Parts => [j EXCEPT !.prev = v] \in Jobs
    BY DEF Jobs
  <1>7. v \in Parts => [j EXCEPT !.target = v] \in Jobs
    BY DEF Jobs
  <1>8. v \in Parts => [j EXCEPT !.before = v] \in Jobs
    BY DEF Jobs
  <1>9. v \in Seq(Tenants) => [j EXCEPT !.todo = v] \in Jobs
    BY DEF Jobs
  <1>10. v \in SUBSET Tenants => [j EXCEPT !.failed = v] \in Jobs
    BY DEF Jobs
  <1>11. v \in BOOLEAN => [j EXCEPT !.adding = v] \in Jobs
    BY DEF Jobs
  <1>12. v \in BOOLEAN => [j EXCEPT !.fresh = v] \in Jobs
    BY DEF Jobs
  <1>13. v \in BOOLEAN => [j EXCEPT !.spoilt = v] \in Jobs
    BY DEF Jobs
  <1> QED
    BY <1>1, <1>2, <1>3, <1>4, <1>5, <1>6, <1>7, <1>8, <1>9, <1>10, <1>11, <1>12, <1>13

(* What an audit begins with.                                              *)
LEMMA TargetTyped ==
    ASSUME FlowTypeInv, HistoryTypeInv, NEW r \in Requests,
           NEW base \in Parts, NEW mode \in Modes, NEW kept \in Modes,
           NEW prev \in [Tenants -> Contents]
    PROVE  /\ Target(r, base, mode, kept, prev) \in Jobs
           /\ Target(r, base, mode, kept, prev).form = job[r].form
           /\ Target(r, base, mode, kept, prev).step = "audit"
           /\ Target(r, base, mode, kept, prev).before = device
           /\ Target(r, base, mode, kept, prev).prev = prev
  <1> DEFINE wanted == Over(base, Unwanted(mode, base, prev))
             common == CommonFor(job[r].form.action, wanted)
             target == Over(wanted, common)
  <1>1. prev \in Parts
    BY PartsAre
  <1>2. wanted \in Parts
    BY <1>1, UnwantedIsPart, OverIsPart
  <1>3. common \in Parts
    BY CommonIsPart DEF FlowTypeInv, JobsInv
  <1>4. target \in Parts /\ Over(base, common) \in Parts
    <2> HIDE DEF wanted, common
    <2> QED
      BY <1>2, <1>3, OverIsPart
  <1>5. TenantList(DOMAIN target) \in Seq(Tenants)
    <2>1. DOMAIN target \in SUBSET Tenants
      <3> HIDE DEF target
      <3> QED
        BY <1>4, PartsAre DEF IsPart
    <2> QED
      BY <2>1, ListIsPlan
  <1>6. device \in Parts
    BY PartsAre DEF FlowTypeInv, JobsInv
  <1>7. job[r] \in Jobs
    BY DEF FlowTypeInv, JobsInv
  <1> DEFINE fresh == history # {} => job[r].picked = Newest.stamp
  <1>8. fresh \in BOOLEAN /\ (Common \in DOMAIN target) \in BOOLEAN
    OBVIOUS
  <1> DEFINE adding == Common \in DOMAIN target
             stored == Over(base, common)
             todo   == TenantList(DOMAIN target)
             j1 == [job[r] EXCEPT !.base = stored]
             j2 == [j1 EXCEPT !.mode = mode]
             j3 == [j2 EXCEPT !.kept = kept]
             j4 == [j3 EXCEPT !.prev = prev]
             j5 == [j4 EXCEPT !.target = target]
             j6 == [j5 EXCEPT !.todo = todo]
             j7 == [j6 EXCEPT !.adding = adding]
             j8 == [j7 EXCEPT !.before = device]
             j9 == [j8 EXCEPT !.fresh = fresh]
             j10 == [j9 EXCEPT !.step = "audit"]
  <1>9. Target(r, base, mode, kept, prev) = j10
    BY DEF Target
  <1> HIDE DEF wanted, common, target, fresh, adding, stored, todo
  <1>10. j4 \in Jobs
    <2>1. j1 \in Jobs
      BY <1>4, <1>7, FieldTyped DEF stored
    <2> HIDE DEF j1
    <2>2. j2 \in Jobs
      BY <2>1, FieldTyped
    <2> HIDE DEF j2
    <2>3. j3 \in Jobs
      BY <2>2, FieldTyped
    <2> HIDE DEF j3
    <2> QED
      BY <1>1, <2>3, FieldTyped
  <1>11. j7 \in Jobs
    <2> HIDE DEF j4
    <2>1. j5 \in Jobs
      BY <1>4, <1>10, FieldTyped
    <2> HIDE DEF j5
    <2>2. j6 \in Jobs
      BY <1>5, <2>1, FieldTyped DEF todo
    <2> HIDE DEF j6
    <2> QED
      BY <1>8, <2>2, FieldTyped DEF adding
  <1>12. j10 \in Jobs
    <2> HIDE DEF j7
    <2>1. j8 \in Jobs
      BY <1>6, <1>11, FieldTyped
    <2> HIDE DEF j8
    <2>2. j9 \in Jobs
      BY <1>8, <2>1, FieldTyped
    <2> HIDE DEF j9
    <2> QED
      BY <2>2, FieldTyped DEF Steps
  <1>13. DOMAIN job[r] = JobFields
    BY <1>7, JobDomain
  <1>14. /\ j10.form = job[r].form /\ j10.step = "audit" /\ j10.before = device
         /\ j10.prev = prev
    BY <1>13 DEF JobFields
  <1> HIDE DEF j10
  <1> QED
    BY <1>9, <1>12, <1>14

(* What an audited tenant changes of its request.                          *)
SameBut(a, j) ==
    /\ a.step = j.step /\ a.form = j.form /\ a.picked = j.picked /\ a.mode = j.mode
    /\ a.kept = j.kept /\ a.base = j.base /\ a.prev = j.prev /\ a.target = j.target
    /\ a.fresh = j.fresh /\ a.before = j.before

(* An audited tenant takes itself off the list, and may fail.              *)
LEMMA AuditedTyped ==
    ASSUME FlowTypeInv, NEW r \in Requests, NEW t \in Tenants, Audits(r, t), NEW good \in BOOLEAN
    PROVE  LET a == Audited(r, t, good)
               e == Early(r, t)
           IN  /\ \A j \in {a, e, [a EXCEPT !.spoilt = TRUE], [e EXCEPT !.spoilt = TRUE]} :
                     j \in Jobs /\ SameBut(j, job[r]) /\ j.todo = Tail(job[r].todo)
               /\ a.adding = FALSE /\ e.adding = job[r].adding
               /\ a.failed = IF good THEN job[r].failed ELSE job[r].failed \cup {t}
               /\ e.failed = job[r].failed \cup {t}
               /\ a.spoilt = job[r].spoilt /\ e.spoilt = job[r].spoilt
               /\ LET s == [a EXCEPT !.spoilt = TRUE]
                  IN  s.spoilt = TRUE /\ s.adding = a.adding /\ s.failed = a.failed
               /\ LET s == [e EXCEPT !.spoilt = TRUE]
                  IN  s.spoilt = TRUE /\ s.adding = e.adding /\ s.failed = e.failed
  <1>1. job[r] \in Jobs /\ DOMAIN job[r] = JobFields
    BY JobDomain DEF FlowTypeInv, JobsInv
  <1>2. /\ Tail(job[r].todo) \in Seq(Tenants) /\ job[r].adding \in BOOLEAN
        /\ job[r].failed \in SUBSET Tenants /\ job[r].failed \cup {t} \in SUBSET Tenants
    <2>1. job[r].todo \in Seq(Tenants) /\ job[r].todo # <<>>
      BY <1>1 DEF Audits, Jobs
    <2> QED
      BY <1>1, <2>1 DEF Jobs
  <1>3. ASSUME NEW ok \in BOOLEAN
        PROVE  LET a == Audited(r, t, ok)
               IN  a \in Jobs /\ DOMAIN a = JobFields
    <2> DEFINE j1 == [job[r] EXCEPT !.todo = Tail(job[r].todo)]
               j2 == [j1 EXCEPT !.adding = FALSE]
               failed == IF ok THEN job[r].failed ELSE job[r].failed \cup {t}
               j3 == [j2 EXCEPT !.failed = failed]
    <2>1. Audited(r, t, ok) = j3
      BY <1>1 DEF Audited, JobFields
    <2>2. failed \in SUBSET Tenants
      BY <1>2
    <2> HIDE DEF failed
    <2>3. j1 \in Jobs
      BY <1>1, <1>2, FieldTyped
    <2> HIDE DEF j1
    <2>4. j2 \in Jobs
      BY <2>3, FieldTyped
    <2> HIDE DEF j2
    <2>5. j3 \in Jobs
      BY <2>2, <2>4, FieldTyped
    <2> QED
      BY <2>1, <2>5, JobDomain
  <1> DEFINE a == Audited(r, t, good)
             b == Audited(r, t, FALSE)
             e == Early(r, t)
             sa == [a EXCEPT !.spoilt = TRUE]
             se == [e EXCEPT !.spoilt = TRUE]
  <1>4. a \in Jobs /\ b \in Jobs /\ DOMAIN a = JobFields /\ DOMAIN b = JobFields
    BY <1>3
  <1>5. /\ SameBut(a, job[r]) /\ a.todo = Tail(job[r].todo) /\ a.adding = FALSE
        /\ a.failed = (IF good THEN job[r].failed ELSE job[r].failed \cup {t})
        /\ a.spoilt = job[r].spoilt
    BY <1>1 DEF Audited, SameBut, JobFields
  <1>6. /\ SameBut(b, job[r]) /\ b.todo = Tail(job[r].todo)
        /\ b.failed = job[r].failed \cup {t} /\ b.spoilt = job[r].spoilt
    BY <1>1 DEF Audited, SameBut, JobFields
  <1>7. e = [b EXCEPT !.adding = job[r].adding]
    BY DEF Early
  <1> HIDE DEF a, b, e
  <1>8. /\ e \in Jobs /\ SameBut(e, job[r]) /\ e.todo = Tail(job[r].todo)
        /\ e.adding = job[r].adding /\ e.failed = job[r].failed \cup {t}
        /\ e.spoilt = job[r].spoilt /\ DOMAIN e = JobFields
    <2>1. e \in Jobs
      BY <1>2, <1>4, <1>7, FieldTyped
    <2>2. /\ SameBut(e, job[r]) /\ e.todo = Tail(job[r].todo)
          /\ e.adding = job[r].adding /\ e.failed = job[r].failed \cup {t}
          /\ e.spoilt = job[r].spoilt /\ DOMAIN e = JobFields
      BY <1>4, <1>6, <1>7 DEF SameBut, JobFields
    <2> QED
      BY <2>1, <2>2
  <1>9. ASSUME NEW j \in Jobs, SameBut(j, job[r]), DOMAIN j = JobFields,
               j.todo = Tail(job[r].todo)
        PROVE  LET s == [j EXCEPT !.spoilt = TRUE]
               IN  /\ s \in Jobs /\ SameBut(s, job[r]) /\ s.todo = Tail(job[r].todo)
                   /\ s.spoilt = TRUE /\ s.adding = j.adding /\ s.failed = j.failed
    <2>1. [j EXCEPT !.spoilt = TRUE] \in Jobs
      BY FieldTyped
    <2> QED
      BY <1>9, <2>1 DEF SameBut, JobFields
  <1> QED
    BY <1>4, <1>5, <1>8, <1>9 DEF a, e

(* A request that goes to another step than the audit.                     *)
LEMMA MoveTyped ==
    ASSUME FlowTypeInv, NEW r \in Requests, job[r].step # "new",
           NEW step \in Steps \ {"audit"}, NEW reply \in Replies,
           \/ Become(r, [job[r] EXCEPT !.step = step])
           \/ Become(r, [job[r] EXCEPT !.step = step, !.reply = reply])
    PROVE  JobsInv'
  <1>1. job[r] \in Jobs /\ DOMAIN job[r] = JobFields /\ job[r].form \in Forms[r]
    BY JobDomain DEF FlowTypeInv, JobsInv
  <1> DEFINE a == [job[r] EXCEPT !.step = step]
             b == [job[r] EXCEPT !.step = step, !.reply = reply]
  <1>2. a \in Jobs /\ b \in Jobs
    BY <1>1 DEF Jobs
  <1>3. a.step = step /\ b.step = step /\ a.form = job[r].form /\ b.form = job[r].form
    BY <1>1 DEF JobFields
  <1> HIDE DEF a, b
  <1>4. CASE Become(r, a)
    BY <1>1, <1>2, <1>3, <1>4, StepTyped
  <1>5. CASE Become(r, b)
    BY <1>1, <1>2, <1>3, <1>5, StepTyped
  <1> QED
    BY <1>4, <1>5 DEF a, b

(* A request that is answered.                                             *)
LEMMA DoneTyped ==
    ASSUME FlowTypeInv, NEW r \in Requests, job[r].step # "new", NEW reply \in Replies,
           Become(r, [job[r] EXCEPT !.step = "done", !.reply = reply])
    PROVE  JobsInv'
  <1>1. "done" \in Steps \ {"audit"}
    BY DEF Steps
  <1> QED
    BY <1>1, MoveTyped, Zenon

(* A request that arrives, lists and fetches.                              *)
LEMMA ArrivalTyped ==
    ASSUME FlowTypeInv, HistoryTypeInv, NEW r \in Requests, Begin(r) \/ List(r) \/ Fetch(r)
    PROVE  JobsInv'
  <1>1. job[r] \in Jobs /\ DOMAIN job[r] = JobFields
    BY JobDomain DEF FlowTypeInv, JobsInv
  <1>2. log \in Seq(Entries)
    BY DEF FlowTypeInv
  <1>3. CASE Begin(r)
    <2>1. PICK f \in Forms[r] :
              Become(r, [job[r] EXCEPT !.form = f, !.base = f.decl, !.mode = f.mode,
                                       !.step = IF Reads(f) THEN "list" ELSE "lock"])
      BY <1>3, Zenon DEF Begin
    <2> DEFINE step == IF Reads(f) THEN "list" ELSE "lock"
               new == [job[r] EXCEPT !.form = f, !.base = f.decl, !.mode = f.mode, !.step = step]
    <2>2. step \in Steps \ {"audit"}
      BY DEF Steps
    <2> HIDE DEF step
    <2>3. new \in Jobs
      BY <1>1, <2>2, FormsTyped DEF Jobs
    <2>4. new.form = f /\ new.step # "audit"
      BY <1>1, <2>2 DEF JobFields
    <2>5. Become(r, new)
      BY <2>1 DEF step
    <2> HIDE DEF new
    <2> QED
      BY <2>3, <2>4, <2>5, StepTyped
  <1>4. ASSUME job[r].step # "new"
        PROVE  job[r].form \in Forms[r]
    BY <1>4 DEF FlowTypeInv, JobsInv
  <1>5. CASE List(r)
    <2> DEFINE age == AgeToRead(job[r].form)
    <2>1. job[r].step # "new" /\ job[r].form \in Forms[r]
      BY <1>4, <1>5 DEF List
    <2>2. CASE /\ HasAge(history, age)
               /\ Become(r, [job[r] EXCEPT !.step = "fetch", !.picked = OfAge(history, age).stamp])
      <3> DEFINE stamp == OfAge(history, age).stamp
                 new == [job[r] EXCEPT !.step = "fetch", !.picked = stamp]
      <3>1. age \in Nat
        BY <2>1, FormsTyped DEF AgeToRead
      <3>2. stamp \in Int
        <4>1. OfAge(history, age) \in history
          BY <2>2, <3>1, AgeIsTaken
        <4> QED
          BY <4>1 DEF HistoryTypeInv
      <3> HIDE DEF stamp
      <3>3. new \in Jobs
        BY <1>1, <3>2 DEF Jobs, Steps
      <3>4. new.step = "fetch" /\ new.form = job[r].form
        BY <1>1 DEF JobFields
      <3>5. Become(r, new)
        BY <2>2 DEF stamp
      <3> HIDE DEF new
      <3> QED
        BY <2>1, <3>3, <3>4, <3>5, StepTyped
    <2>3. CASE Become(r, [job[r] EXCEPT !.step = "lock", !.mode = "selective"])
      <3> DEFINE new == [job[r] EXCEPT !.step = "lock", !.mode = "selective"]
      <3>1. new \in Jobs
        <4> DEFINE j == [job[r] EXCEPT !.step = "lock"]
        <4>1. j \in Jobs
          BY <1>1, FieldTyped DEF Steps
        <4> HIDE DEF j
        <4>2. [j EXCEPT !.mode = "selective"] \in Jobs
          BY <4>1, FieldTyped DEF Modes
        <4> QED
          BY <4>2 DEF j
      <3>2. new.step = "lock" /\ new.form = job[r].form
        BY <1>1 DEF JobFields
      <3> HIDE DEF new
      <3> QED
        BY <2>1, <2>3, <3>1, <3>2, StepTyped DEF new
    <2>4. CASE Become(r, [job[r] EXCEPT !.step = "done", !.reply = "NO_CONTENT"])
      <3>1. "NO_CONTENT" \in Replies
        BY DEF Replies
      <3> QED
        BY <2>1, <2>4, <3>1, DoneTyped, Zenon
    <2> QED
      BY <1>5, <2>2, <2>3, <2>4 DEF List
  <1>6. CASE Fetch(r)
    <2>1. job[r].step # "new" /\ job[r].form \in Forms[r]
      <3>1. job[r].step = "fetch"
        BY <1>6, Zenon DEF Fetch
      <3> QED
        BY <1>4, <3>1
    <2>2. CASE Become(r, [job[r] EXCEPT !.step = "done", !.reply = "error"])
      <3>1. "error" \in Replies
        BY DEF Replies
      <3> QED
        BY <2>1, <2>2, <3>1, DoneTyped, Zenon
    <2>3. CASE Become(r, [job[r] EXCEPT !.step = "done", !.reply = "OK"])
      <3>1. "OK" \in Replies
        BY DEF Replies
      <3> QED
        BY <2>1, <2>3, <3>1, DoneTyped, Zenon
    <2>4. ASSUME NEW e \in Found(r),
                 Become(r, [job[r] EXCEPT !.step = "lock", !.mode = e.mode,
                                          !.base = Over(job[r].form.decl,
                                                        Filtered(Some(e.decl), DOMAIN job[r].form.decl))])
          PROVE  JobsInv'
      <3> DEFINE form == job[r].form
                 base == Over(form.decl, Filtered(Some(e.decl), DOMAIN form.decl))
                 new  == [job[r] EXCEPT !.step = "lock", !.mode = e.mode, !.base = base]
      <3>1. e.decl \in Parts /\ e.mode \in Modes
        BY PartsAre DEF Found, HistoryTypeInv
      <3>2. form.decl \in Parts /\ DOMAIN form.decl \in SUBSET Tenants
        BY <2>1, FormsTyped, PartsAre DEF IsPart
      <3>3. base \in Parts
        BY <3>1, <3>2, SomeIsPart, OverIsPart
      <3> HIDE DEF base
      <3>4. new \in Jobs
        BY <1>1, <3>1, <3>3 DEF Jobs, Steps
      <3>5. new.step = "lock" /\ new.form = job[r].form
        BY <1>1 DEF JobFields
      <3>6. Become(r, new)
        BY <2>4 DEF base
      <3> HIDE DEF new
      <3> QED
        BY <2>1, <3>4, <3>5, <3>6, StepTyped
    <2> QED
      BY <1>6, <2>2, <2>3, <2>4, Zenon DEF Fetch
  <1> QED
    BY <1>3, <1>5, <1>6

(* A request whose audit begins.                                           *)
LEMMA PrepareTyped ==
    ASSUME FlowTypeInv, HistoryTypeInv, NEW r \in Requests, Prepare(r)
    PROVE  JobsInv'
  <1>1. log \in Seq(Entries) /\ job[r] \in Jobs /\ job[r].form \in Forms[r]
    BY DEF Prepare, FlowTypeInv, JobsInv
  <1>2. PICK prev \in {Prev, Empty} : PrepareWith(r, prev)
    BY DEF Prepare
  <1>3. prev \in [Tenants -> Contents]
    BY <1>2, PrevTyped, PartsAre
  <1>4. device \in [Tenants -> Contents]
    BY DEF FlowTypeInv
  <1>5. ASSUME NEW base \in Parts, NEW mode \in Modes, NEW kept \in Modes,
               Become(r, Target(r, base, mode, kept, prev))
        PROVE  JobsInv'
    <2> DEFINE new == Target(r, base, mode, kept, prev)
    <2>1. /\ new \in Jobs /\ new.form = job[r].form /\ new.step = "audit"
          /\ new.before = device /\ new.prev = prev
      BY <1>3, TargetTyped
    <2> HIDE DEF new
    <2>2. job' \in [Requests -> Jobs] /\ job'[r] = new /\ \A q \in Requests \ {r} : job'[q] = job[q]
      BY <1>5, <2>1, BecomeTyped DEF FlowTypeInv, JobsInv, new
    <2> QED
      BY <1>1, <1>3, <1>4, <2>1, <2>2 DEF FlowTypeInv, JobsInv
  <1>6. CASE job[r].form.action = "redeploy"
    <2> DEFINE age == RedeployAge(job[r].form)
               old == OfAge(history, age)
               mode == IF job[r].mode = "original" THEN old.mode ELSE job[r].mode
    <2>1. HasAge(history, age) /\ Become(r, Target(r, Some(old.decl), mode, old.mode, prev))
      BY <1>2, <1>6 DEF PrepareWith
    <2>2. age \in Nat
      BY <1>1, FormsTyped DEF RedeployAge
    <2>3. old \in history
      BY <2>1, <2>2, AgeIsTaken
    <2>4. old.decl \in Parts /\ old.mode \in Modes
      BY <2>3, PartsAre DEF HistoryTypeInv
    <2>5. mode \in Modes
      BY <1>1, <2>4, JobTyped
    <2>6. Some(old.decl) \in Parts
      BY <2>4, SomeIsPart
    <2> HIDE DEF old, mode
    <2> QED
      BY <1>5, <2>1, <2>4, <2>5, <2>6
  <1>7. CASE job[r].form.action # "redeploy"
    <2>1. Become(r, Target(r, job[r].base, job[r].mode, job[r].mode, prev))
      BY <1>2, <1>7 DEF PrepareWith
    <2> QED
      BY <1>1, <1>5, <2>1, JobTyped
  <1> QED
    BY <1>6, <1>7

(* A tenant that is changed.                                               *)
LEMMA DeviceTyped ==
    ASSUME FlowTypeInv, NEW t \in Tenants, NEW content \in Contents
    PROVE  [device EXCEPT ![t] = content] \in [Tenants -> Contents]
  BY DEF FlowTypeInv

(* An addition to a content is a content.                                  *)
LEMMA AppliedTyped ==
    ASSUME NEW adding \in BOOLEAN, NEW current \in Contents, NEW desired \in Contents
    PROVE  Applied(adding, current, desired) \in Contents
  BY DEF Applied, Contents

(* What an audit of a tenant leaves, and what the tenant may become.       *)
LEMMA AuditTyped ==
    ASSUME FlowTypeInv, NEW r \in Requests, NEW t \in Tenants,
           \/ Mismatched(r, t) \/ Unread(r, t) \/ Unchanged(r, t)
           \/ Updated(r, t) \/ Lost(r, t) \/ Slow(r, t),
           t \in DOMAIN job[r].target
    PROVE  FlowTypeInv'
  <1>1. Audits(r, t)
    BY DEF Mismatched, Unread, Unchanged, Updated, Lost, Slow, Differs
  <1>2. job[r] \in Jobs /\ job[r].step = "audit" /\ job[r].form \in Forms[r]
    BY <1>1 DEF Audits, FlowTypeInv, JobsInv
  <1>3. Applied(job[r].adding, device[t], job[r].target[t]) \in Contents
    BY <1>2, AppliedTyped, JobTyped, PartsAre DEF FlowTypeInv
  <1>4. Proposed(r, t) \in [Tenants -> Contents] /\ Proposed(r, t)[t] \in Contents
    BY <1>3 DEF Proposed, FlowTypeInv
  <1>5. device' \in [Tenants -> Contents]
    BY <1>4 DEF Mismatched, Unread, Unchanged, Updated, Lost, Slow, FlowTypeInv
  <1>6. UNCHANGED <<log, holder, late>>
    BY DEF Mismatched, Unread, Unchanged, Updated, Lost, Slow
  <1>7. faults' \in Nat
    <2>1. ASSUME NEW kind, Spend(kind)
          PROVE  faults' \in Nat
      BY <2>1 DEF FlowTypeInv, Spend
    <2>2. CASE Unread(r, t) \/ Lost(r, t) \/ Slow(r, t)
      BY <2>1, <2>2, Zenon DEF Unread, Lost, Slow
    <2>3. CASE faults' = faults
      BY <2>3 DEF FlowTypeInv
    <2> QED
      BY <2>2, <2>3 DEF Mismatched, Unchanged, Updated
  <1>8. unsure' \subseteq Tenants
    BY DEF Mismatched, Unread, Unchanged, Updated, Lost, Slow, FlowTypeInv
  <1>9. scripts' \subseteq [tenant : Tenants, content : Contents]
    <2>1. CASE Slow(r, t)
      <3>1. [tenant |-> t, content |-> Proposed(r, t)[t]] \in [tenant : Tenants, content : Contents]
        BY <1>4
      <3> QED
        BY <2>1, <3>1 DEF Slow, FlowTypeInv
    <2>2. CASE ~ Slow(r, t)
      BY <2>2 DEF Mismatched, Unread, Unchanged, Updated, Lost, FlowTypeInv
    <2> QED
      BY <2>1, <2>2
  <1>10. JobsInv'
    <2>1. ASSUME NEW new \in Jobs, SameBut(new, job[r]), Become(r, new)
          PROVE  JobsInv'
      BY <1>2, <2>1, StepTyped DEF SameBut
    <2>2. CASE Mismatched(r, t)
      BY <1>1, <2>1, <2>2, AuditedTyped DEF Mismatched
    <2>3. CASE Unread(r, t)
      BY <1>1, <2>1, <2>3, AuditedTyped DEF Unread
    <2>4. CASE Unchanged(r, t)
      BY <1>1, <2>1, <2>4, AuditedTyped DEF Unchanged
    <2>5. CASE Updated(r, t)
      BY <1>1, <2>1, <2>5, AuditedTyped DEF Updated
    <2>6. CASE Lost(r, t)
      BY <1>1, <2>1, <2>6, AuditedTyped DEF Lost
    <2>7. CASE Slow(r, t)
      BY <1>1, <2>1, <2>7, AuditedTyped DEF Slow
    <2> QED
      BY <2>2, <2>3, <2>4, <2>5, <2>6, <2>7
  <1> QED
    BY <1>5, <1>6, <1>7, <1>8, <1>9, <1>10 DEF FlowTypeInv

(* The rest of a request's way.                                            *)
LEMMA EndTyped ==
    ASSUME FlowTypeInv, NEW r \in Requests,
           Lock(r) \/ Refused(r) \/ Rejected(r) \/ Store(r) \/ Unstored(r) \/ Release(r)
              \/ Output(r) \/ Crash(r)
    PROVE  JobsInv'
  <1>1. "error" \in Replies
    BY DEF Replies
  <1>2. CASE Lock(r)
    <2>1. job[r].step # "new" /\ Become(r, [job[r] EXCEPT !.step = "prepare"])
      BY <1>2 DEF Lock
    <2>2. "prepare" \in Steps \ {"audit"}
      BY DEF Steps
    <2> QED
      BY <1>1, <2>1, <2>2, MoveTyped, Zenon
  <1>3. CASE Refused(r)
    <2>1. job[r].step # "new" /\ Become(r, [job[r] EXCEPT !.step = "done", !.reply = "error"])
      BY <1>3 DEF Refused
    <2> QED
      BY <1>1, <2>1, DoneTyped, Zenon
  <1>4. CASE Rejected(r)
    <2>1. job[r].step # "new" /\ Become(r, [job[r] EXCEPT !.step = "done", !.reply = "error"])
      BY <1>4 DEF Rejected, Fail
    <2> QED
      BY <1>1, <2>1, DoneTyped, Zenon
  <1>5. CASE Store(r)
    <2>1. job[r].step # "new" /\ Become(r, [job[r] EXCEPT !.step = "release"])
      BY <1>5 DEF Store, AuditIsOver
    <2>2. "release" \in Steps \ {"audit"}
      BY DEF Steps
    <2> QED
      BY <1>1, <2>1, <2>2, MoveTyped, Zenon
  <1>6. CASE Unstored(r)
    <2>1. job[r].step # "new" /\ Become(r, [job[r] EXCEPT !.step = "done", !.reply = "error"])
      BY <1>6 DEF Unstored, AuditIsOver, Fail
    <2> QED
      BY <1>1, <2>1, DoneTyped, Zenon
  <1>7. CASE Release(r)
    <2>1. job[r].step # "new" /\ Become(r, [job[r] EXCEPT !.step = "output"])
      BY <1>7 DEF Release
    <2>2. "output" \in Steps \ {"audit"}
      BY DEF Steps
    <2> QED
      BY <1>1, <2>1, <2>2, MoveTyped, Zenon
  <1>8. CASE Output(r)
    <2>1. job[r].step # "new"
      BY <1>8 DEF Output
    <2>2. PICK reply \in {Reply(r), "error"} :
              Become(r, [job[r] EXCEPT !.step = "done", !.reply = reply])
      BY <1>8, Zenon DEF Output
    <2>3. reply \in Replies
      BY DEF Replies, Reply
    <2> QED
      BY <2>1, <2>2, <2>3, DoneTyped, Zenon
  <1>9. CASE Crash(r)
    <2>1. job[r].step # "new" /\ Become(r, [job[r] EXCEPT !.step = "crashed"])
      BY <1>9 DEF Crash
    <2>2. "crashed" \in Steps \ {"audit"}
      BY DEF Steps
    <2> QED
      BY <1>1, <2>1, <2>2, MoveTyped, Zenon
  <1> QED
    BY <1>2, <1>3, <1>4, <1>5, <1>6, <1>7, <1>8, <1>9

(* Whoever is audited has only tenants to audit that it deploys.           *)
LeftInv == \A r \in Requests : job[r].step = "audit" => Left(r) \subseteq DOMAIN job[r].target

(* A late script changes the device and nothing of the requests but        *)
(* spoilt.                                                                 *)
LEMMA ScriptTyped ==
    ASSUME FlowTypeInv, ScriptEnds
    PROVE  /\ FlowTypeInv'
           /\ \A r \in Requests : /\ SameBut(job'[r], job[r])
                                  /\ job'[r].todo = job[r].todo /\ job'[r].adding = job[r].adding
                                  /\ job'[r].failed = job[r].failed
                                  /\ job'[r].spoilt = (job[r].spoilt \/ job[r].step = "audit")
  <1>1. PICK s \in scripts :
            /\ scripts' = scripts \ {s}
            /\ LET after == [device EXCEPT ![s.tenant] = s.content]
               IN  device' = IF Closed(after) THEN after ELSE device
            /\ unsure' = unsure \cup {s.tenant}
    BY Zenon DEF ScriptEnds
  <1>2. s.tenant \in Tenants /\ s.content \in Contents
    BY DEF FlowTypeInv
  <1>3. device' \in [Tenants -> Contents]
    <2>1. [device EXCEPT ![s.tenant] = s.content] \in [Tenants -> Contents]
      BY <1>2, DeviceTyped
    <2>2. device \in [Tenants -> Contents]
      BY DEF FlowTypeInv
    <2> QED
      BY <1>1, <2>1, <2>2
  <1>4. ASSUME NEW r \in Requests
        PROVE  /\ job'[r] \in Jobs /\ SameBut(job'[r], job[r])
               /\ job'[r].todo = job[r].todo /\ job'[r].adding = job[r].adding
               /\ job'[r].failed = job[r].failed
               /\ job'[r].spoilt = (job[r].spoilt \/ job[r].step = "audit")
    <2> DEFINE spoilt == job[r].spoilt \/ job[r].step = "audit"
    <2>1. job[r] \in Jobs /\ DOMAIN job[r] = JobFields /\ spoilt \in BOOLEAN
      BY JobDomain DEF FlowTypeInv, JobsInv
    <2>2. job'[r] = [job[r] EXCEPT !.spoilt = spoilt]
      BY <2>1 DEF ScriptEnds, JobFields
    <2> HIDE DEF spoilt
    <2>3. job'[r] \in Jobs
      <3>1. [job[r] EXCEPT !.spoilt = spoilt] \in Jobs
        BY <2>1, FieldTyped, Zenon
      <3> QED
        BY <2>2, <3>1
    <2>4. job'[r].spoilt = spoilt
      BY <2>1, <2>2 DEF JobFields
    <2> QED
      BY <2>1, <2>2, <2>3, <2>4 DEF SameBut, JobFields, spoilt
  <1>5. JobsInv'
    <2>1. job' \in [Requests -> Jobs]
      <3>1. job' = [r \in Requests |-> job'[r]]
        BY DEF ScriptEnds
      <3> QED
        BY <1>4, <3>1
    <2> QED
      BY <1>4, <2>1 DEF FlowTypeInv, JobsInv, SameBut
  <1>6. /\ UNCHANGED <<log, holder, late, faults>> /\ unsure' \subseteq Tenants
        /\ scripts' \subseteq scripts
    BY <1>1, <1>2 DEF ScriptEnds, FlowTypeInv
  <1> QED
    BY <1>3, <1>4, <1>5, <1>6 DEF FlowTypeInv

(* What storing changes.                                                   *)
LEMMA StoreTyped ==
    ASSUME FlowTypeInv, NEW r \in Requests, Store(r)
    PROVE  /\ log' \in Seq(Entries) /\ faults' \in Nat /\ unsure' \subseteq Tenants
           /\ UNCHANGED <<device, holder, late, scripts>>
  <1>1. job[r] \in Jobs /\ job[r].step = "audit" /\ DOMAIN job[r].prev = Tenants
    BY DEF Store, AuditIsOver, FlowTypeInv, JobsInv
  <1>2. Stored(r) \in [Tenants -> Contents] /\ job[r].kept \in Modes
    BY <1>1, StoredTyped, JobTyped
  <1>3. CASE StoreDry(r)
    BY <1>3 DEF Store, FlowTypeInv
  <1>4. CASE ~ StoreDry(r)
    <2> DEFINE e == [decl |-> Stored(r), mode |-> job[r].kept]
    <2>1. e \in Entries
      BY <1>2 DEF Entries
    <2>2. /\ log' = Append(log, e) /\ unsure' = unsure \ Settled(r)
          /\ UNCHANGED <<device, holder, late, scripts>>
      BY <1>4 DEF Store
    <2>3. faults' = faults \/ Spend("untrimmed")
      BY <1>4, Zenon DEF Store
    <2> HIDE DEF e
    <2> QED
      BY <2>1, <2>2, <2>3, AppendProperties DEF FlowTypeInv, Spend
  <1> QED
    BY <1>3, <1>4

(* The faults stay a number.                                               *)
LEMMA SpendTyped ==
    ASSUME FlowTypeInv
    PROVE  /\ faults' = faults => faults' \in Nat
           /\ \A kind : Spend(kind) => faults' \in Nat
  BY DEF FlowTypeInv, Spend

(* Every step keeps the types.                                             *)
LEMMA FlowTypeStep ==
    ASSUME HistoryTypeInv, FlowTypeInv, LeftInv, [Next]_vars
    PROVE  FlowTypeInv'
  <1>1. ASSUME JobsInv', UNCHANGED <<device, log, scripts>>,
               holder' \in {holder, Nobody} \cup Requests,
               late' \subseteq late \cup Requests, unsure' \subseteq unsure \cup Tenants,
               faults' \in Nat
        PROVE  FlowTypeInv'
    BY <1>1 DEF FlowTypeInv
  <1>2. ASSUME NEW r \in Requests, Begin(r) \/ List(r) \/ Fetch(r)
        PROVE  FlowTypeInv'
    <2>1. JobsInv'
      BY <1>2, ArrivalTyped
    <2>2. UNCHANGED <<device, log, scripts, holder, late, unsure, faults>>
      BY <1>2, Zenon DEF Begin, List, Fetch
    <2> QED
      BY <1>1, <2>1, <2>2, SpendTyped
  <1>3. ASSUME NEW r \in Requests, Prepare(r)
        PROVE  FlowTypeInv'
    <2>1. JobsInv'
      BY <1>3, PrepareTyped
    <2>2. /\ UNCHANGED <<device, log, scripts, holder, late>>
          /\ unsure' \subseteq unsure \cup Tenants
          /\ (faults' = faults \/ Spend("misread"))
      BY <1>3 DEF Prepare
    <2> QED
      BY <1>1, <2>1, <2>2, SpendTyped
  <1>4. ASSUME NEW r \in Requests, Lock(r) \/ Refused(r) \/ Rejected(r) \/ Release(r) \/ Output(r)
        PROVE  FlowTypeInv'
    <2>1. JobsInv'
      BY <1>4, EndTyped
    <2>2. UNCHANGED <<device, log, scripts, unsure, faults>> /\ holder' \in {holder, Nobody, r}
          /\ late' \in {late, late \cup {r}}
      BY <1>4 DEF Lock, Refused, Rejected, Release, Output, Fail
    <2> QED
      BY <1>1, <2>1, <2>2, SpendTyped
  <1>5. ASSUME NEW r \in Requests, Unstored(r) \/ Crash(r)
        PROVE  FlowTypeInv'
    <2>1. JobsInv'
      BY <1>5, EndTyped
    <2>2. UNCHANGED <<device, log, scripts, holder>> /\ late' \in {late, late \cup {r}}
      BY <1>5 DEF Unstored, Crash, Fail
    <2>3. Spend("unstored") \/ Spend("crash")
      BY <1>5, Zenon DEF Unstored, Crash
    <2>4. DOMAIN job[r].target \subseteq Tenants
      BY PartsAre DEF IsPart, FlowTypeInv, JobsInv, Jobs
    <2>5. unsure' \subseteq unsure \cup DOMAIN job[r].target
      BY <1>5 DEF Unstored, Crash
    <2> QED
      BY <1>1, <2>1, <2>2, <2>3, <2>4, <2>5, SpendTyped
  <1>6. ASSUME NEW r \in Requests, Audit(r)
        PROVE  FlowTypeInv'
    <2>1. PICK t \in Tenants : \/ Mismatched(r, t) \/ Unread(r, t) \/ Unchanged(r, t)
                               \/ Updated(r, t) \/ Lost(r, t) \/ Slow(r, t)
      BY <1>6 DEF Audit
    <2>2. Audits(r, t)
      BY <2>1 DEF Mismatched, Unread, Unchanged, Updated, Lost, Slow, Differs
    <2>3. t \in Left(r) /\ job[r].step = "audit"
      <3>1. job[r].todo \in Seq(Tenants)
        BY DEF FlowTypeInv, JobsInv, Jobs
      <3>2. t = job[r].todo[1] /\ 1 \in DOMAIN job[r].todo /\ job[r].step = "audit"
        BY <2>2, <3>1 DEF Audits
      <3> QED
        BY <3>2 DEF Left, ToDo
    <2>4. t \in DOMAIN job[r].target
      BY <2>3 DEF LeftInv
    <2> QED
      BY <2>1, <2>4, AuditTyped
  <1>7. ASSUME NEW r \in Requests, Store(r)
        PROVE  FlowTypeInv'
    <2>1. JobsInv'
      BY <1>7, EndTyped
    <2> QED
      BY <1>7, <2>1, StoreTyped DEF FlowTypeInv
  <1>8. ASSUME NEW r \in Requests, LateRelease(r)
        PROVE  FlowTypeInv'
    BY <1>8 DEF LateRelease, FlowTypeInv, JobsInv
  <1>9. CASE ScriptEnds
    BY <1>9, ScriptTyped
  <1>10. CASE TakenOver \/ Finished \/ UNCHANGED vars
    BY <1>10 DEF TakenOver, Finished, vars, FlowTypeInv, JobsInv
  <1> QED
    BY <1>2, <1>3, <1>4, <1>5, <1>6, <1>7, <1>8, <1>9, <1>10 DEF Next, Proceed

(* The entries that a behaviour begins with.                               *)
LEMMA HistoryTypeInit == Init => HistoryTypeInv
  <1> SUFFICES ASSUME Init PROVE HistoryTypeInv
    OBVIOUS
  <1>1. log \in Seq(Entries)
    BY FlowTypeInit DEF FlowTypeInv
  <1> DEFINE I == {i \in 1..Len(log) : i + Limit > Len(log)}
  <1>2. history = {Deployed(log, i) : i \in I} /\ clock = Len(log) + 2
    BY DEF Init, Deployed
  <1>3. history \in SUBSET Span(log, 1, Len(log))
    BY <1>2 DEF Span
  <1>4. IsFiniteSet(history)
    BY <1>1, <1>3, LogTyped, SpanCardinality, FS_Subset
  <1>5. ASSUME NEW e \in history
        PROVE  \E i \in 1..Len(log) : e = Deployed(log, i)
    BY <1>3 DEF Span
  <1>6. \A e \in history : e.decl \in [Tenants -> Contents] /\ e.mode \in Modes /\ e.stamp \in Int
    BY <1>1, <1>5, LogTyped DEF Deployed
  <1>7. ASSUME NEW e \in history, NEW x \in history, e.stamp = x.stamp
        PROVE  e = x
    <2>1. PICK i \in 1..Len(log) : e = Deployed(log, i)
      BY <1>5
    <2>2. PICK j \in 1..Len(log) : x = Deployed(log, j)
      BY <1>5
    <2>3. i + 1 = j + 1
      BY <1>7, <2>1, <2>2 DEF Deployed
    <2>4. i = j
      BY <1>1, <2>3, LogTyped
    <2> QED
      BY <2>1, <2>2, <2>4
  <1> QED
    BY <1>1, <1>2, <1>4, <1>6, <1>7, LogTyped DEF HistoryTypeInv

(* Storing replaces the entry of the same stamp.                           *)
LEMMA HistoryTypeStep ==
    ASSUME FlowTypeInv, HistoryTypeInv, [Next]_vars
    PROVE  HistoryTypeInv'
  <1>1. ASSUME UNCHANGED <<clock, history>>
        PROVE  HistoryTypeInv'
    BY <1>1 DEF HistoryTypeInv
  <1>2. ASSUME NEW r \in Requests, Store(r)
        PROVE  HistoryTypeInv'
    <2>1. CASE StoreDry(r)
      BY <1>1, <1>2, <2>1 DEF Store
    <2>2. CASE ~ StoreDry(r)
      <3> DEFINE k == Kept(history, Entry(r))
      <3>1. /\ clock' = clock + 1
            /\ history' = Trimmed(k, Limit) \/ history' \in TrimmedInPart(k, Limit)
        BY <1>2, <2>2 DEF Store
      <3>2. history' \in SUBSET k
        BY <3>1 DEF Trimmed, TrimmedInPart
      <3>3. k = {e \in history : e.stamp # Entry(r).stamp} \cup {Entry(r)}
        BY DEF Kept
      <3>4. Entry(r).decl \in [Tenants -> Contents] /\ Entry(r).mode \in Modes /\ Entry(r).stamp \in Int
        <4>1. Stored(r) \in [Tenants -> Contents] /\ job[r].kept \in Modes
          BY <1>2, StoredTyped, JobTyped DEF Store, AuditIsOver, FlowTypeInv, JobsInv
        <4>2. clock - Behind[r] \in Int
          BY FlowAssumption DEF HistoryTypeInv
        <4> QED
          BY <4>1, <4>2 DEF Entry
      <3>5. IsFiniteSet(k)
        <4>1. IsFiniteSet({e \in history : e.stamp # Entry(r).stamp})
          BY FS_Subset DEF HistoryTypeInv
        <4> QED
          BY <3>3, <4>1, FS_AddElement
      <3>6. IsFiniteSet(history')
        BY <3>2, <3>5, FS_Subset
      <3> HIDE DEF k
      <3> QED
        BY <3>1, <3>2, <3>3, <3>4, <3>6 DEF HistoryTypeInv
    <2> QED
      BY <2>1, <2>2
  <1>3. ASSUME NEW r \in Requests, Begin(r) \/ Proceed(r) \/ LateRelease(r) \/ Crash(r), ~ Store(r)
        PROVE  UNCHANGED <<clock, history>>
    <2>1. ASSUME NEW t \in Tenants,
                 Mismatched(r, t) \/ Unread(r, t) \/ Unchanged(r, t)
                    \/ Updated(r, t) \/ Lost(r, t) \/ Slow(r, t)
          PROVE  UNCHANGED <<clock, history>>
      BY <2>1 DEF Mismatched, Unread, Unchanged, Updated, Lost, Slow
    <2>2. CASE Audit(r)
      BY <2>1, <2>2 DEF Audit
    <2>3. CASE List(r) \/ Fetch(r) \/ Lock(r) \/ Refused(r) \/ Prepare(r) \/ Rejected(r)
      BY <2>3 DEF List, Fetch, Lock, Refused, Prepare, Rejected
    <2>4. CASE Unstored(r) \/ Release(r) \/ Output(r) \/ Begin(r) \/ LateRelease(r) \/ Crash(r)
      BY <2>4 DEF Unstored, Release, Output, Begin, LateRelease, Crash
    <2> QED
      BY <1>3, <2>2, <2>3, <2>4 DEF Proceed
  <1>4. CASE ScriptEnds \/ TakenOver \/ Finished \/ UNCHANGED vars
    BY <1>1, <1>4 DEF ScriptEnds, TakenOver, Finished, vars
  <1> QED
    BY <1>1, <1>2, <1>3, <1>4 DEF Next
=============================================================================
