---------------------------- MODULE MachineProofs ----------------------------
(***************************************************************************)
(* Theorems about what the commands and the processes of one machine share *)
(* (Share, Auth, Connect, Person, Policy, Install, SpoolFile, MirrorFile), *)
(* each part by itself and for any number of its processes; and the lemmas *)
(* on a list kept in part (Filter) that the last three rest on.            *)
(***************************************************************************)
EXTENDS Share, Auth, Connect, Person, Policy, Install, MirrorFile, SequenceTheorems,
        FiniteSetTheorems, WellFoundedInduction, TLAPS

-----------------------------------------------------------------------------
(* Numbers, and what is kept of a list (Filter).                            *)

(* A set of numbers has a least. *)
LEMMA HasLeast ==
  ASSUME NEW S \in SUBSET Nat, S # {}
  PROVE  \E i \in S : \A j \in S : i <= j
<1>1. PICK i \in S : \A j \in S : <<j, i>> \notin OpToRel(<, Nat)
  BY WFMin, NatLessThanWellFounded, Zenon
<1>2. \A j \in S : ~(j < i)
  BY <1>1, Zenon DEF OpToRel
<1>3. \A j \in S : i <= j
  BY <1>2, SMT
<1> QED BY <1>3, Zenon

(* The least of some numbers is one of them. *)
LEMMA LeastOf ==
  ASSUME NEW S \in SUBSET Nat, S # {}
  PROVE  (CHOOSE i \in S : \A j \in S : i <= j) \in S
BY HasLeast, Zenon

(* Induction over what a set of numbers holds: the least that is not in it. *)
LEMMA UpTo ==
  ASSUME NEW N \in Nat, NEW P, 0 \in P, \A n \in 1..N : n - 1 \in P => n \in P
  PROVE  0..N \subseteq P
<1>1. SUFFICES ASSUME (0..N) \ P # {} PROVE FALSE
  OBVIOUS
<1> DEFINE S == (0..N) \ P
<1>2. PICK i \in S : \A j \in S : <<j, i>> \notin OpToRel(<, Nat)
  <2>1. S \in SUBSET Nat /\ S # {}
    BY <1>1
  <2> HIDE DEF S
  <2> QED BY <2>1, WFMin, NatLessThanWellFounded, Zenon
<1>3. \A j \in S : ~(j < i)
  <2>1. S \subseteq Nat
    OBVIOUS
  <2> HIDE DEF S
  <2> QED BY <1>2, <2>1, Zenon DEF OpToRel
<1>4. i - 1 \in S
  <2>1. i \in 1..N /\ i - 1 \in 0..N /\ i \notin P
    OBVIOUS
  <2> QED BY <2>1
<1> QED BY <1>3, <1>4

(* The function that Filtered names is there. *)
LEMMA FilteredIs ==
  ASSUME NEW S, NEW s \in Seq(S), NEW T
  PROVE  /\ Filtered(s, T)[0] = <<>>
         /\ \A n \in 1..Len(s) : Filtered(s, T)[n] =
              IF s[n] \in T THEN Append(Filtered(s, T)[n - 1], s[n]) ELSE Filtered(s, T)[n - 1]
<1> DEFINE Body(g, n) ==
      IF n = 0 THEN <<>> ELSE IF s[n] \in T THEN Append(g[n - 1], s[n]) ELSE g[n - 1]
    Is(m) == \E g : g = [n \in 0..m |-> Body(g, n)]
    P == {m \in 0..Len(s) : Is(m)}
<1>1. Len(s) \in Nat
  OBVIOUS
<1>2. 0 \in P
  <2>1. [n \in 0..0 |-> <<>>] = [n \in 0..0 |-> Body([k \in 0..0 |-> <<>>], n)]
    OBVIOUS
  <2>2. Is(0)
    BY <2>1, Zenon
  <2> QED BY <1>1, <2>2
<1>3. ASSUME NEW m \in 1..Len(s), m - 1 \in P PROVE m \in P
  <2>1. PICK g : g = [n \in 0..(m - 1) |-> Body(g, n)]
    BY <1>3
  <2> DEFINE h == [n \in 0..m |-> IF n = m THEN Body(g, m) ELSE g[n]]
  <2>2. \A n \in 0..m : h[n] = Body(h, n)
    <3> SUFFICES ASSUME NEW n \in 0..m PROVE h[n] = Body(h, n)
      OBVIOUS
    <3>1. CASE n = 0
      <4>1. h[0] = g[0] /\ 0 \in 0..(m - 1)
        BY <1>1
      <4> QED BY <2>1, <3>1, <4>1
    <3>2. CASE n > 0
      <4>1. n - 1 \in 0..m /\ n - 1 # m
        BY <1>1, <3>2
      <4>2. h[n - 1] = g[n - 1]
        BY <4>1
      <4>3. Body(h, n) = Body(g, n)
        <5> HIDE DEF h
        <5> QED BY <4>2
      <4>4. h[n] = Body(g, n)
        <5>1. CASE n = m
          <6> HIDE DEF Body
          <6> QED BY <5>1, <1>1
        <5>2. CASE n # m
          <6>1. n \in 0..(m - 1)
            BY <5>2, <1>1
          <6>2. g[n] = Body(g, n)
            <7>1. [k \in 0..(m - 1) |-> Body(g, k)][n] = Body(g, n)
              BY <6>1
            <7> HIDE DEF Body
            <7> QED BY <2>1, <7>1
          <6> HIDE DEF Body
          <6> QED BY <5>2, <6>2
        <5> QED BY <5>1, <5>2
      <4> QED BY <4>3, <4>4
    <3> QED BY <3>1, <3>2, <1>1
  <2>3. h = [n \in 0..m |-> Body(h, n)]
    <3>1. h = [n \in 0..m |-> h[n]]
      OBVIOUS
    <3> HIDE DEF h, Body
    <3> QED BY <2>2, <3>1
  <2>4. Is(m)
    <3> HIDE DEF h, Body
    <3> QED BY <2>3, Zenon
  <2> QED BY <1>1, <2>4
<1>4. Is(Len(s))
  <2>1. 0..Len(s) \subseteq P
    <3> HIDE DEF P
    <3> QED BY <1>1, <1>2, <1>3, UpTo
  <2> HIDE DEF Is
  <2> QED BY <2>1, <1>1
<1> DEFINE f == Filtered(s, T)
<1>5. f = [n \in 0..Len(s) |-> Body(f, n)]
  <2>1. f = CHOOSE g : g = [n \in 0..Len(s) |-> Body(g, n)]
    BY Zenon DEF Filtered
  <2> HIDE DEF f, Body
  <2> QED BY <1>4, <2>1, Zenon
<1>6. \A n \in 0..Len(s) : f[n] = Body(f, n)
  <2> HIDE DEF f, Body
  <2>1. ASSUME NEW n \in 0..Len(s) PROVE [k \in 0..Len(s) |-> Body(f, k)][n] = Body(f, n)
    OBVIOUS
  <2> QED BY <1>5, <2>1
<1> HIDE DEF f
<1> QED BY <1>1, <1>6 DEF f

(* What is left of each prefix is a sequence of what is kept. *)
LEMMA FilteredType ==
  ASSUME NEW S, NEW s \in Seq(S), NEW T
  PROVE  \A n \in 0..Len(s) : Filtered(s, T)[n] \in Seq(S \cap T)
<1> DEFINE P == {n \in 0..Len(s) : Filtered(s, T)[n] \in Seq(S \cap T)}
<1>1. 0 \in P
  <2>1. Filtered(s, T)[0] = <<>> /\ Len(s) \in Nat
    BY FilteredIs
  <2>2. <<>> \in Seq(S \cap T)
    OBVIOUS
  <2>3. 0 \in 0..Len(s)
    BY <2>1
  <2>4. Filtered(s, T)[0] \in Seq(S \cap T)
    BY <2>1, <2>2, Zenon
  <2> QED BY <2>3, <2>4
<1>2. ASSUME NEW n \in 1..Len(s), n - 1 \in P PROVE n \in P
  <2>1. s[n] \in S /\ n \in 0..Len(s)
    OBVIOUS
  <2>2. Filtered(s, T)[n] = IF s[n] \in T THEN Append(Filtered(s, T)[n - 1], s[n])
                           ELSE Filtered(s, T)[n - 1]
    BY FilteredIs
  <2>3. \A u \in Seq(S \cap T), x \in S \cap T : Append(u, x) \in Seq(S \cap T)
    OBVIOUS
  <2> QED BY <1>2, <2>1, <2>2, <2>3
<1>3. 0..Len(s) \subseteq P
  <2>1. Len(s) \in Nat
    OBVIOUS
  <2> HIDE DEF P
  <2> QED BY <1>1, <1>2, <2>1, UpTo
<1> QED BY <1>3

(* What is kept is a sequence of what is there and is to be kept. *)
LEMMA KeptType ==
  ASSUME NEW S, NEW s \in Seq(S), NEW T
  PROVE  Kept(s, T) \in Seq(S \cap T)
<1>1. Len(s) \in 0..Len(s)
  OBVIOUS
<1> QED BY <1>1, FilteredType, Zenon DEF Kept

(* Two sequences with the same elements at the places that are kept. *)
LEMMA KeptAgree ==
  ASSUME NEW S, NEW s \in Seq(S), NEW t \in Seq(S), NEW T, Len(s) = Len(t),
         \A i \in 1..Len(s) : (s[i] \in T <=> t[i] \in T) /\ (s[i] \in T => s[i] = t[i])
  PROVE  Kept(s, T) = Kept(t, T)
<1> DEFINE P == {n \in 0..Len(s) : Filtered(s, T)[n] = Filtered(t, T)[n]}
<1>1. 0 \in P
  BY FilteredIs
<1>2. ASSUME NEW n \in 1..Len(s), n - 1 \in P PROVE n \in P
  BY <1>2, FilteredIs
<1>3. 0..Len(s) \subseteq P
  <2>1. Len(s) \in Nat
    OBVIOUS
  <2> HIDE DEF P
  <2> QED BY <1>1, <1>2, <2>1, UpTo
<1> QED BY <1>3 DEF Kept

(* One element more. *)
LEMMA KeptAppend ==
  ASSUME NEW S, NEW s \in Seq(S), NEW x \in S, NEW T
  PROVE  Kept(Append(s, x), T) = IF x \in T THEN Append(Kept(s, T), x) ELSE Kept(s, T)
<1> DEFINE u == Append(s, x)
           P == {n \in 0..Len(s) : Filtered(s, T)[n] = Filtered(u, T)[n]}
<1>1. u \in Seq(S) /\ Len(u) = Len(s) + 1 /\ u[Len(u)] = x /\ \A n \in 1..Len(s) : u[n] = s[n]
  BY AppendProperties
<1> HIDE DEF u
<1>2. 0 \in P
  BY <1>1, FilteredIs
<1>3. ASSUME NEW n \in 1..Len(s), n - 1 \in P PROVE n \in P
  BY <1>1, <1>3, FilteredIs
<1>4. 0..Len(s) \subseteq P
  <2>1. Len(s) \in Nat
    OBVIOUS
  <2> HIDE DEF P
  <2> QED BY <1>2, <1>3, <2>1, UpTo
<1>5. Filtered(s, T)[Len(s)] = Filtered(u, T)[Len(u) - 1]
  BY <1>1, <1>4
<1>6. Filtered(u, T)[Len(u)] = IF x \in T THEN Append(Filtered(u, T)[Len(u) - 1], x)
                              ELSE Filtered(u, T)[Len(u) - 1]
  BY <1>1, FilteredIs
<1> QED BY <1>5, <1>6 DEF Kept, u

(* Keeping twice is keeping once, when the second set is within the first. *)
LEMMA KeptOfKept ==
  ASSUME NEW S, NEW s \in Seq(S), NEW U, NEW T \in SUBSET U
  PROVE  Kept(Kept(s, U), T) = Kept(s, T)
<1> DEFINE P == {n \in 0..Len(s) : Kept(Filtered(s, U)[n], T) = Filtered(s, T)[n]}
<1>1. 0 \in P
  <2>1. <<>> \in Seq(S) /\ Len(<<>>) = 0
    BY EmptySeq
  <2>2. Filtered(<<>>, T)[0] = <<>>
    <3>1. \A v \in Seq(S) : Filtered(v, T)[0] = <<>>
      BY FilteredIs
    <3> QED BY <2>1, <3>1, Zenon
  <2>3. Kept(<<>>, T) = <<>>
    BY <2>1, <2>2, Zenon DEF Kept
  <2> QED BY <2>3, FilteredIs
<1>2. ASSUME NEW n \in 1..Len(s), n - 1 \in P PROVE n \in P
  <2> DEFINE g == Filtered(s, U)[n - 1]
  <2>1. g \in Seq(S) /\ s[n] \in S /\ n - 1 \in 0..Len(s)
    <3>1. n - 1 \in 0..Len(s) /\ Seq(S \cap U) \subseteq Seq(S) /\ s[n] \in S
      OBVIOUS
    <3> QED BY <3>1, FilteredType
  <2>2. Filtered(s, U)[n] = IF s[n] \in U THEN Append(g, s[n]) ELSE g
    BY FilteredIs
  <2>3. Filtered(s, T)[n] = IF s[n] \in T THEN Append(Kept(g, T), s[n]) ELSE Kept(g, T)
    BY <1>2, FilteredIs
  <2> HIDE DEF g
  <2>4. Kept(Append(g, s[n]), T) = IF s[n] \in T THEN Append(Kept(g, T), s[n]) ELSE Kept(g, T)
    <3>1. \A v \in Seq(S), x \in S :
            Kept(Append(v, x), T) = IF x \in T THEN Append(Kept(v, T), x) ELSE Kept(v, T)
      BY KeptAppend
    <3> QED BY <2>1, <3>1
  <2> QED BY <2>2, <2>3, <2>4
<1>3. 0..Len(s) \subseteq P
  <2>1. Len(s) \in Nat
    OBVIOUS
  <2> HIDE DEF P
  <2> QED BY <1>1, <1>2, <2>1, UpTo
<1> QED BY <1>3 DEF Kept

(* What is kept is in what was there, and what may stay does. *)
LEMMA KeptHas ==
  ASSUME NEW S, NEW s \in Seq(S), NEW T, NEW x \in T
  PROVE  (\E i \in DOMAIN Kept(s, T) : Kept(s, T)[i] = x) <=> \E i \in DOMAIN s : s[i] = x
<1> DEFINE f == Filtered(s, T)
  P == {n \in 0..Len(s) :
          (\E i \in 1..Len(f[n]) : f[n][i] = x) <=> \E i \in 1..n : s[i] = x}
<1>1. 0 \in P
  BY FilteredIs, EmptySeq
<1>2. ASSUME NEW n \in 1..Len(s), n - 1 \in P PROVE n \in P
  <2>1. f[n] = IF s[n] \in T THEN Append(f[n - 1], s[n]) ELSE f[n - 1]
    BY FilteredIs
  <2>2. f[n - 1] \in Seq(S) /\ s[n] \in S /\ n - 1 \in 0..Len(s)
    <3>1. n - 1 \in 0..Len(s) /\ Seq(S \cap T) \subseteq Seq(S) /\ s[n] \in S
      OBVIOUS
    <3> QED BY <3>1, FilteredType
  <2>3. (\E i \in 1..Len(f[n - 1]) : f[n - 1][i] = x) <=> \E i \in 1..(n - 1) : s[i] = x
    BY <1>2
  <2>4. (\E i \in 1..n : s[i] = x) <=> s[n] = x \/ \E i \in 1..(n - 1) : s[i] = x
    BY SMT
  <2> HIDE DEF f
  <2>5. CASE s[n] \in T
    <3> DEFINE g == f[n - 1]
               u == Append(g, s[n])
    <3>1. u \in Seq(S) /\ Len(u) = Len(g) + 1 /\ u[Len(u)] = s[n] /\ (\A i \in 1..Len(g) : u[i] = g[i])
          /\ Len(g) \in Nat
      BY <2>2, AppendProperties
    <3> HIDE DEF g, u
    <3>2. (\E i \in 1..Len(u) : u[i] = x) <=> s[n] = x \/ \E i \in 1..Len(g) : g[i] = x
      BY <3>1, SMT
    <3>3. f[n] = u
      BY <2>1, <2>5 DEF g, u
    <3> QED BY <2>3, <2>4, <3>2, <3>3 DEF g
  <2>6. CASE s[n] \notin T
    BY <2>1, <2>3, <2>4, <2>6
  <2> QED BY <2>5, <2>6
<1>3. 0..Len(s) \subseteq P
  <2>1. Len(s) \in Nat
    OBVIOUS
  <2> HIDE DEF P
  <2> QED BY <1>1, <1>2, <2>1, UpTo
<1>4. DOMAIN s = 1..Len(s) /\ DOMAIN Kept(s, T) = 1..Len(Kept(s, T)) /\ Len(s) \in 0..Len(s)
  BY KeptType
<1> QED BY <1>3, <1>4 DEF Kept

(* An element that is there once is kept at most once. *)
LEMMA KeptOnce ==
  ASSUME NEW S, NEW s \in Seq(S), NEW T, NEW x,
         \A i, j \in DOMAIN s : s[i] = x /\ s[j] = x => i = j
  PROVE  \A i, j \in DOMAIN Kept(s, T) : Kept(s, T)[i] = x /\ Kept(s, T)[j] = x => i = j
<1> DEFINE f == Filtered(s, T)
  P == {n \in 0..Len(s) :
          /\ \A i, j \in 1..Len(f[n]) : f[n][i] = x /\ f[n][j] = x => i = j
          /\ (\E i \in 1..Len(f[n]) : f[n][i] = x) => \E i \in 1..n : s[i] = x}
<1>1. 0 \in P
  BY FilteredIs, EmptySeq
<1>2. ASSUME NEW n \in 1..Len(s), n - 1 \in P PROVE n \in P
  <2>1. f[n] = IF s[n] \in T THEN Append(f[n - 1], s[n]) ELSE f[n - 1]
    BY FilteredIs
  <2>2. f[n - 1] \in Seq(S) /\ s[n] \in S /\ n - 1 \in 0..Len(s) /\ DOMAIN s = 1..Len(s)
    <3>1. n - 1 \in 0..Len(s) /\ Seq(S \cap T) \subseteq Seq(S) /\ s[n] \in S
      OBVIOUS
    <3> QED BY <3>1, FilteredType
  <2> DEFINE g == f[n - 1]
             u == Append(g, s[n])
  <2>3. /\ \A i, j \in 1..Len(g) : g[i] = x /\ g[j] = x => i = j
        /\ (\E i \in 1..Len(g) : g[i] = x) => \E i \in 1..(n - 1) : s[i] = x
    BY <1>2
  <2>4. CASE s[n] \in T
    <3>1. u \in Seq(S) /\ Len(u) = Len(g) + 1 /\ u[Len(u)] = s[n] /\ (\A i \in 1..Len(g) : u[i] = g[i])
          /\ Len(g) \in Nat
      BY <2>2, AppendProperties
    <3>2. f[n] = u
      BY <2>1, <2>4
    <3> HIDE DEF f, g, u
    <3>3. s[n] = x => ~\E i \in 1..Len(g) : g[i] = x
      BY <2>2, <2>3, SMT
    <3>4. \A i \in 1..Len(u) : i \in 1..Len(g) \/ i = Len(u)
      BY <3>1, SMT
    <3>5. \A i, j \in 1..Len(u) : u[i] = x /\ u[j] = x => i = j
      BY <2>3, <3>1, <3>3, <3>4
    <3>6. (\E i \in 1..Len(u) : u[i] = x) => \E i \in 1..n : s[i] = x
      BY <2>3, <3>1, <3>4, SMT
    <3> QED BY <3>2, <3>5, <3>6
  <2>5. CASE s[n] \notin T
    <3>1. f[n] = g
      BY <2>1, <2>5
    <3> HIDE DEF f, g
    <3>2. (\E i \in 1..Len(g) : g[i] = x) => \E i \in 1..n : s[i] = x
      BY <2>3, SMT
    <3> QED BY <2>3, <3>1, <3>2
  <2> QED BY <2>4, <2>5
<1>3. 0..Len(s) \subseteq P
  <2>1. Len(s) \in Nat
    OBVIOUS
  <2> HIDE DEF P
  <2> QED BY <1>1, <1>2, <2>1, UpTo
<1>4. DOMAIN s = 1..Len(s) /\ DOMAIN Kept(s, T) = 1..Len(Kept(s, T)) /\ Len(s) \in 0..Len(s)
  BY KeptType
<1> QED BY <1>3, <1>4 DEF Kept

-----------------------------------------------------------------------------
(* What agents are told of their shares.                                   *)

EntryRecord ==
  [state : {"unborn", "queued", "held", "published", "refused"},
   expired : BOOLEAN, reported : BOOLEAN]
CallRecord ==
  [at : {"idle", "match", "expiry", "load", "mark", "notice"}, entry : SUBSET Entry,
   load : SUBSET Entry, got : SUBSET Entry, says : {"nothing", "held", "waits", "shared"}]

Types ==
  /\ entry \in [Entry -> EntryRecord] /\ call \in [Serve -> CallRecord]
  /\ heard \in [Entry -> Nat] /\ missed \subseteq Entry
  /\ told \in [Serve -> BOOLEAN] /\ toldOf \in [Serve -> Nat] /\ lapse \in Nat

(* The serves that may yet tell of e: it is on their list, or marked.       *)
Telling(e) == {s \in Serve : e \in call[s].load \cup call[s].got}

(* A refusal is listed only while nobody has told of it, and what is in     *)
(* hand or was told is marked.                                             *)
Tally ==
  /\ \A s \in Serve :
       /\ call[s].at = "idle" => call[s] = NoCall
       /\ call[s].at \in {"match", "expiry", "load"} => call[s].load = {} /\ call[s].got = {}
       /\ \A e \in call[s].got : entry[e].reported
  /\ \A e \in Entry :
       /\ heard[e] > 0 => entry[e].reported
       /\ heard[e] + Cardinality(Telling(e)) <= Cardinality(Serve)

(* Whose agent heard of the lapse there is now has its mark.                *)
Lapses ==
  /\ sessionExpired => lapse > 0
  /\ \A s \in Serve : toldOf[s] <= lapse /\ (sessionExpired /\ toldOf[s] = lapse => told[s])

ShareInv == Types /\ NoneLost /\ Tally /\ Lapses /\ NotNagged

USE ShareAssumption

(* At first nothing is queued, told or owed. *)
LEMMA InitShare == Init => ShareInv
<1> SUFFICES ASSUME Init PROVE ShareInv
  OBVIOUS
<1>1. Types
  BY DEF Init, Types, EntryRecord, CallRecord, Unborn, NoCall
<1>2. \A e \in Entry : Telling(e) = {} /\ entry[e] = Unborn
  <2>1. \A e \in Entry, s \in Serve : e \notin call[s].load \cup call[s].got
    BY DEF Init, NoCall
  <2> QED BY <2>1 DEF Telling, Init
<1>3. Cardinality({}) = 0 /\ Cardinality(Serve) \in Nat
  BY FS_EmptySet, FS_CardinalityType DEF ShareAssumption
<1>4. Tally
  <2>1. \A s \in Serve : call[s] = NoCall /\ NoCall.load = {} /\ NoCall.got = {}
    BY DEF Init, NoCall
  <2>2. \A e \in Entry : heard[e] = 0 /\ Cardinality(Telling(e)) = 0
    BY <1>2, <1>3 DEF Init
  <2> QED BY <1>3, <2>1, <2>2 DEF Tally
<1>5. ~sessionExpired
  BY <1>2 DEF sessionExpired, Awaiting, Unborn
<1> QED BY <1>1, <1>2, <1>4, <1>5 DEF Init, ShareInv, NoneLost, Lapses, NotNagged, Unborn

(* What a step writes of an entry makes a record of one. *)
LEMMA EntryUpdates ==
  ASSUME NEW v \in EntryRecord
  PROVE  /\ \A x \in {"queued", "held", "published", "refused"} : [v EXCEPT !.state = x] \in EntryRecord
         /\ \A b \in BOOLEAN : [v EXCEPT !.expired = b] \in EntryRecord
         /\ [v EXCEPT !.reported = TRUE] \in EntryRecord
BY DEF EntryRecord

(* What a step writes of a call makes a record of one. *)
LEMMA CallUpdates ==
  ASSUME NEW c \in CallRecord, NEW at \in {"idle", "match", "expiry", "load", "mark", "notice"},
         NEW some \in SUBSET Entry, NEW more \in SUBSET Entry,
         NEW says \in {"nothing", "held", "waits", "shared"}
  PROVE  /\ [c EXCEPT !.at = at] \in CallRecord
         /\ [c EXCEPT !.at = at, !.says = says] \in CallRecord
         /\ [c EXCEPT !.at = at, !.entry = some] \in CallRecord
         /\ [c EXCEPT !.at = at, !.load = some] \in CallRecord
         /\ [c EXCEPT !.load = some, !.got = more] \in CallRecord
BY DEF CallRecord

(* A step keeps the types of entries, calls and histories. *)
LEMMA TypesNext ==
  ASSUME ShareInv, Next PROVE Types'
<1>0. Types
  BY DEF ShareInv
<1>1. /\ entry \in [Entry -> EntryRecord] /\ call \in [Serve -> CallRecord] /\ lapse \in Nat
      /\ heard \in [Entry -> Nat] /\ missed \in SUBSET Entry
      /\ told \in [Serve -> BOOLEAN] /\ toldOf \in [Serve -> Nat]
  BY <1>0 DEF Types
<1>2. ASSUME NEW e \in Entry, NEW v \in EntryRecord, Queue(e, v)
      PROVE  entry' \in [Entry -> EntryRecord] /\ lapse' \in Nat
  BY <1>1, <1>2 DEF Queue
<1>3. ASSUME NEW s \in Serve, NEW c \in CallRecord, call' = [call EXCEPT ![s] = c]
      PROVE  call' \in [Serve -> CallRecord]
  BY <1>1, <1>3
<1>4. /\ Unborn \in EntryRecord /\ \A e \in Entry : entry[e] \in EntryRecord
      /\ \A s \in Serve : call[s] \in CallRecord
      /\ \A s \in Serve : call[s].entry \subseteq Entry /\ call[s].load \subseteq Entry
                          /\ call[s].got \subseteq Entry
  BY <1>1 DEF EntryRecord, CallRecord, Unborn
<1>5. ASSUME NEW s \in Serve, NEW at \in {"expiry", "load", "notice"}, At(s, at)
      PROVE  call' \in [Serve -> CallRecord]
  <2> DEFINE c == [call[s] EXCEPT !.at = at]
  <2>1. c \in CallRecord
    BY <1>4, CallUpdates
  <2>2. call' = [call EXCEPT ![s] = c]
    BY <1>5 DEF At
  <2> QED BY <1>3, <2>1, <2>2
<1>6. ASSUME NEW s \in Serve, NEW says \in {"held", "waits", "shared"},
             call' = [call EXCEPT ![s].at = "load", ![s].says = says]
      PROVE  call' \in [Serve -> CallRecord]
  <2> DEFINE c == [call[s] EXCEPT !.at = "load", !.says = says]
  <2>1. c \in CallRecord
    BY <1>4, CallUpdates
  <2>2. call' = [call EXCEPT ![s] = c]
    BY <1>6
  <2> QED BY <1>3, <2>1, <2>2
<1>7. ASSUME NEW s \in Serve, NEW e \in Entry, Accept(s, e) PROVE Types'
  <2>1. CASE UNCHANGED <<entry, call, lapse>>
    BY <1>1, <1>7, <2>1 DEF Accept, Types
  <2>2. CASE ~UNCHANGED <<entry, call, lapse>>
    <3>1. Queue(e, [Unborn EXCEPT !.state = "queued"])
            /\ call' = [call EXCEPT ![s].at = "match", ![s].entry = {e}]
      BY <1>7, <2>2 DEF Accept
    <3>2. [Unborn EXCEPT !.state = "queued"] \in EntryRecord
      BY <1>4, EntryUpdates
    <3>3. entry' \in [Entry -> EntryRecord] /\ lapse' \in Nat
      BY <1>2, <3>1, <3>2
    <3>4. call' \in [Serve -> CallRecord]
      <4> DEFINE c == [call[s] EXCEPT !.at = "match", !.entry = {e}]
      <4>1. {e} \in SUBSET Entry /\ call[s] \in CallRecord
        BY <1>4
      <4>2. c \in CallRecord
        BY <4>1, CallUpdates
      <4>3. call' = [call EXCEPT ![s] = c]
        BY <3>1
      <4> QED BY <1>3, <4>2, <4>3
    <3> QED BY <1>1, <1>7, <3>3, <3>4 DEF Accept, Types
  <2> QED BY <2>1, <2>2
<1>8. ASSUME NEW s \in Serve, Match(s) PROVE Types'
  <2>1. CASE At(s, "expiry") /\ UNCHANGED <<entry, lapse>>
    <3>1. call' \in [Serve -> CallRecord]
      BY <1>5, <2>1
    <3> QED BY <1>1, <1>8, <2>1, <3>1 DEF Match, Types
  <2>2. CASE /\ \E e \in call[s].entry :
                  IF entry[e].state = "queued" THEN Queue(e, [entry[e] EXCEPT !.state = "held"])
                  ELSE UNCHANGED <<entry, lapse>>
             /\ call' = [call EXCEPT ![s].at = "load", ![s].says = "held"]
    <3>1. call' \in [Serve -> CallRecord]
      BY <1>6, <2>2
    <3>2. entry' \in [Entry -> EntryRecord] /\ lapse' \in Nat
      <4>1. CASE UNCHANGED <<entry, lapse>>
        BY <1>1, <4>1
      <4>2. CASE ~UNCHANGED <<entry, lapse>>
        <5>1. PICK e \in call[s].entry : Queue(e, [entry[e] EXCEPT !.state = "held"])
          BY <2>2, <4>2, Zenon
        <5>2. e \in Entry /\ [entry[e] EXCEPT !.state = "held"] \in EntryRecord
          BY <1>4, EntryUpdates
        <5> QED BY <1>2, <5>1, <5>2
      <4> QED BY <4>1, <4>2
    <3> QED BY <1>1, <1>8, <3>1, <3>2 DEF Match, Types
  <2> QED BY <1>8, <2>1, <2>2, Zenon DEF Match
<1>9. ASSUME NEW s \in Serve, SayExpired(s) PROVE Types'
  <2>1. told' \in [Serve -> BOOLEAN] /\ toldOf' \in [Serve -> Nat]
    BY <1>1, <1>9 DEF SayExpired, markExpiryTold, Hears
  <2>2. PICK says \in {"waits", "shared"} :
          call' = [call EXCEPT ![s].at = "load", ![s].says = says]
    BY <1>9, Zenon DEF SayExpired
  <2>3. call' \in [Serve -> CallRecord]
    BY <1>6, <2>2
  <2> QED BY <1>1, <1>9, <2>1, <2>3 DEF SayExpired, Types
<1>10. ASSUME NEW s \in Serve, narrated(s) PROVE Types'
  <2>1. call' \in [Serve -> CallRecord]
    BY <1>5, <1>10 DEF narrated
  <2> QED BY <1>1, <1>10, <2>1 DEF narrated, Types
<1>11. ASSUME NEW s \in Serve, TakeUnreported(s) PROVE Types'
  <2> DEFINE c == [call[s] EXCEPT !.at = "mark", !.load = Unreported]
  <2>0. call[s] \in CallRecord
    BY <1>4, Zenon
  <2>1. Unreported \in SUBSET Entry /\ call[s] \in CallRecord
    BY <2>0 DEF Unreported
  <2>2. c \in CallRecord
    <3> DEFINE u == Unreported
               d == call[s]
    <3>1. u \in SUBSET Entry /\ d \in CallRecord
      BY <2>1
    <3> HIDE DEF u, d
    <3>2. [d EXCEPT !.at = "mark", !.load = u] \in CallRecord
      BY <3>1 DEF CallRecord
    <3> QED BY <3>2 DEF u, d
  <2>3. call' = [call EXCEPT ![s] = c]
    BY <1>11 DEF TakeUnreported
  <2>4. call' \in [Serve -> CallRecord]
    BY <1>3, <2>2, <2>3
  <2> QED BY <1>1, <1>11, <2>4 DEF TakeUnreported, Types
<1>12. ASSUME NEW s \in Serve, Mark(s) PROVE Types'
  <2>1. ASSUME NEW e \in call[s].load, entry' = [entry EXCEPT ![e] = Reported(e)],
               call' = [call EXCEPT ![s].load = @ \ {e}, ![s].got = @ \cup {e}]
        PROVE  entry' \in [Entry -> EntryRecord] /\ call' \in [Serve -> CallRecord]
    <3>1. call[s].load \subseteq Entry /\ call[s].got \subseteq Entry /\ e \in Entry
      BY <1>4
    <3>2. Reported(e) \in EntryRecord
      BY <1>4, <3>1, EntryUpdates DEF Reported
    <3> DEFINE c == [call[s] EXCEPT !.load = @ \ {e}, !.got = @ \cup {e}]
    <3>3. call[s].load \ {e} \in SUBSET Entry /\ call[s].got \cup {e} \in SUBSET Entry
      BY <3>1
    <3>4. c \in CallRecord
      BY <1>4, <3>3 DEF CallRecord
    <3>5. call' = [call EXCEPT ![s] = c]
      BY <2>1
    <3>6. entry' \in [Entry -> EntryRecord]
      BY <1>1, <2>1, <3>1, <3>2
    <3> QED BY <1>3, <3>4, <3>5, <3>6
  <2>2. CASE At(s, "notice") /\ UNCHANGED entry
    <3>1. call' \in [Serve -> CallRecord]
      BY <1>5, <2>2
    <3> QED BY <1>1, <1>12, <2>2, <3>1 DEF Mark, Types
  <2>3. CASE ~UNCHANGED entry
    <3>1. entry' \in [Entry -> EntryRecord] /\ call' \in [Serve -> CallRecord]
      BY <1>12, <2>1, <2>3, Zenon DEF Mark
    <3> QED BY <1>1, <1>12, <3>1 DEF Mark, Types
  <2>4. CASE UNCHANGED entry /\ ~At(s, "notice")
    <3>1. entry' \in [Entry -> EntryRecord] /\ call' \in [Serve -> CallRecord]
      BY <1>12, <2>1, <2>4, Zenon DEF Mark
    <3> QED BY <1>1, <1>12, <3>1 DEF Mark, Types
  <2> QED BY <2>2, <2>3, <2>4
<1>13. ASSUME NEW s \in Serve, withRefusals(s) \/ Die(s) PROVE Types'
  <2>1. NoCall \in CallRecord /\ call[s].got \subseteq Entry
    BY <1>4 DEF NoCall, CallRecord
  <2>2. sessionExpired \in BOOLEAN
    BY DEF sessionExpired, Awaiting
  <2>3. call' = [call EXCEPT ![s] = NoCall]
    BY <1>13, Zenon DEF withRefusals, Die
  <2>4. call' \in [Serve -> CallRecord]
    BY <1>3, <2>1, <2>3
  <2>5. told' \in [Serve -> BOOLEAN]
    <3>1. CASE told' = [told EXCEPT ![s] = sessionExpired]
      BY <1>1, <2>2, <3>1
    <3>2. CASE told' = [told EXCEPT ![s] = FALSE]
      BY <1>1, <3>2
    <3> QED BY <1>13, <3>1, <3>2, Zenon DEF withRefusals, Die
  <2>6. toldOf' \in [Serve -> Nat]
    <3>1. CASE toldOf' = [toldOf EXCEPT ![s] = lapse] \/ toldOf' = [toldOf EXCEPT ![s] = 0]
      BY <1>1, <3>1
    <3>2. CASE UNCHANGED toldOf
      BY <1>1, <3>2
    <3> QED BY <1>13, <3>1, <3>2, Zenon DEF withRefusals, Die, Hears
  <2>7. heard' \in [Entry -> Nat] /\ missed' \in SUBSET Entry
    <3>1. CASE withRefusals(s)
      BY <1>1, <3>1 DEF withRefusals, RenderRefusals
    <3>2. CASE Die(s)
      BY <1>1, <2>1, <3>2 DEF Die
    <3> QED BY <1>13, <3>1, <3>2
  <2>8. UNCHANGED <<entry, lapse>>
    BY <1>13 DEF withRefusals, Die
  <2> QED BY <1>1, <2>4, <2>5, <2>6, <2>7, <2>8 DEF Types
<1>14. ASSUME NEW s \in Serve, NEW e \in Entry, Publish(s, e) PROVE Types'
  <2> DEFINE w == entry[e]
  <2>0. w \in EntryRecord
    BY <1>4
  <2>1. /\ \A x \in {"published", "refused"} :
             [w EXCEPT !.state = x, !.expired = FALSE] \in EntryRecord
        /\ \A b \in BOOLEAN : [w EXCEPT !.expired = b] \in EntryRecord
    <3> HIDE DEF w
    <3> QED BY <2>0 DEF EntryRecord
  <2>2. PICK v \in EntryRecord : Queue(e, v)
    BY <1>14, <2>1 DEF Publish
  <2>3. entry' \in [Entry -> EntryRecord] /\ lapse' \in Nat
    BY <1>2, <2>2
  <2> QED BY <1>1, <1>14, <2>3 DEF Publish, Types
<1>15. ASSUME NEW s \in Serve, SessionEnds(s) \/ Rejoin(s) PROVE Types'
  BY <1>1, <1>15 DEF SessionEnds, Rejoin, Types
<1> QED BY <1>7, <1>8, <1>9, <1>10, <1>11, <1>12, <1>13, <1>14, <1>15 DEF Next

(* An expiry is told once to each serve, and counted as it is told. *)
LEMMA LapsesNext ==
  ASSUME ShareInv, Next PROVE Lapses' /\ NotNagged'
<1> USE DEF ShareInv, Types, NotNagged
<1>1. ASSUME NEW e \in Entry, NEW v, Queue(e, v), UNCHANGED <<told, toldOf>> PROVE Lapses'
  BY <1>1 DEF Lapses, Queue, sessionExpired
<1>2. ASSUME UNCHANGED <<entry, told, toldOf, lapse>> PROVE Lapses'
  BY <1>2 DEF Lapses, sessionExpired
<1>3. ASSUME NEW s \in Serve,
             \/ \E e \in Entry : Accept(s, e) \/ Publish(s, e)
             \/ Match(s)
      PROVE  Lapses' /\ UNCHANGED nagged
  <2>1. call[s].entry \subseteq Entry
    BY DEF CallRecord
  <2>2. (\E e \in Entry : \E v : Queue(e, v)) \/ UNCHANGED <<entry, lapse>>
    BY <1>3, <2>1 DEF Accept, Publish, Match
  <2>3. UNCHANGED <<told, toldOf, nagged>>
    BY <1>3 DEF Accept, Publish, Match
  <2> QED BY <1>1, <1>2, <2>2, <2>3
<1>4. ASSUME NEW s \in Serve, SayExpired(s) PROVE Lapses' /\ UNCHANGED nagged
  BY <1>4 DEF SayExpired, markExpiryTold, Hears, Lapses, sessionExpired
<1>5. ASSUME NEW s \in Serve, Mark(s) PROVE Lapses' /\ UNCHANGED nagged
  <2>1. \A e \in Entry : entry'[e].state = entry[e].state /\ entry'[e].expired = entry[e].expired
    <3>1. call[s].load \subseteq Entry
      BY DEF CallRecord
    <3>2. \A e \in Entry : Reported(e).state = entry[e].state /\ Reported(e).expired = entry[e].expired
      BY DEF Reported, EntryRecord
    <3> QED BY <1>5, <3>1, <3>2 DEF Mark
  <2>2. sessionExpired' = sessionExpired
    BY <2>1 DEF sessionExpired, Awaiting
  <2> QED BY <1>5, <2>2 DEF Mark, Lapses
<1>6. ASSUME NEW s \in Serve, withRefusals(s) PROVE Lapses' /\ ~nagged'
  <2>1. sessionExpired' = sessionExpired /\ UNCHANGED <<lapse>>
    BY <1>6 DEF withRefusals, sessionExpired
  <2>2. CASE sessionExpired
    BY <1>6, <2>1, <2>2 DEF withRefusals, Hears, Lapses
  <2>3. CASE ~sessionExpired
    BY <1>6, <2>1, <2>3 DEF withRefusals, Lapses
  <2> QED BY <2>2, <2>3
<1>7. ASSUME NEW s \in Serve, Die(s) PROVE Lapses' /\ UNCHANGED nagged
  BY <1>7 DEF Die, Lapses, sessionExpired
<1>8. ASSUME NEW s \in Serve, narrated(s) \/ TakeUnreported(s) \/ SessionEnds(s) \/ Rejoin(s)
      PROVE  Lapses' /\ UNCHANGED nagged
  BY <1>2, <1>8 DEF narrated, TakeUnreported, SessionEnds, Rejoin
<1> QED BY <1>3, <1>4, <1>5, <1>6, <1>7, <1>8 DEF Next

(* The serves that are about to tell of an entry can be counted. *)
LEMMA TellingCounts ==
  ASSUME NEW e
  PROVE  /\ IsFiniteSet(Telling(e)) /\ Cardinality(Telling(e)) \in Nat
         /\ Cardinality(Telling(e)) <= Cardinality(Serve) /\ Cardinality(Serve) \in Nat
<1>1. IsFiniteSet(Serve) /\ Telling(e) \in SUBSET Serve
  BY DEF ShareAssumption, Telling
<1> QED BY <1>1, FS_Subset, FS_CardinalityType

(* A step that nobody lists, marks, tells or dies in.                      *)
LEMMA QuietKeeps ==
  ASSUME ShareInv, UNCHANGED <<heard, missed>>,
         \A e \in Entry : entry'[e].reported = entry[e].reported,
         \A s \in Serve :
           /\ call'[s].load = call[s].load /\ call'[s].got = call[s].got
           /\ \/ call'[s] = call[s]
              \/ call[s].at \in {"idle", "match", "expiry"} /\ call'[s].at \in {"match", "expiry", "load"}
              \/ call[s].at = "mark" /\ call'[s].at = "notice"
  PROVE  Tally' /\ NoneLost'
<1> USE DEF ShareInv
<1>1. \A e : Telling(e)' = Telling(e)
  BY DEF Telling
<1>2. \A s \in Serve : call[s].at = "idle" => call[s].load = {} /\ call[s].got = {}
  BY DEF Tally, NoCall
<1>3. \A s \in Serve : call[s].got \subseteq Entry
  BY DEF Types, CallRecord
<1> QED BY <1>1, <1>2, <1>3 DEF Tally, NoneLost

(* Each refusal that left the list is told, about to be, or lost with a serve. *)
LEMMA TallyNext ==
  ASSUME ShareInv, Next PROVE Tally' /\ NoneLost'
<1> USE DEF ShareInv
<1>0. \A s \in Serve :
        /\ call[s] \in CallRecord
        /\ call[s].load \subseteq Entry /\ call[s].got \subseteq Entry /\ call[s].entry \subseteq Entry
  BY DEF Types, CallRecord
<1>1. ASSUME NEW s \in Serve, NEW e \in Entry, Accept(s, e) \/ Publish(s, e) PROVE Tally' /\ NoneLost'
  <2>1. \A x \in Entry : entry'[x].reported = entry[x].reported
    <3>1. PICK v : v.reported = entry[e].reported /\ entry' \in {entry, [entry EXCEPT ![e] = v]}
      <4>1. CASE Accept(s, e)
        <5>1. [Unborn EXCEPT !.state = "queued"].reported = entry[e].reported
          BY <4>1 DEF Accept, Unborn
        <5> QED BY <4>1, <5>1 DEF Accept, Queue
      <4>2. CASE Publish(s, e)
        <5>1. /\ \A x : [entry[e] EXCEPT !.expired = x].reported = entry[e].reported
              /\ \A x : [entry[e] EXCEPT !.state = x, !.expired = FALSE].reported = entry[e].reported
          BY DEF Types, EntryRecord
        <5> QED BY <4>2, <5>1 DEF Publish, Queue
      <4> QED BY <1>1, <4>1, <4>2
    <3> QED BY <3>1 DEF Types
  <2>2. UNCHANGED <<heard, missed>>
    BY <1>1 DEF Accept, Publish
  <2>3. UNCHANGED call \/ (call[s].at = "idle"
                            /\ call' = [call EXCEPT ![s].at = "match", ![s].entry = {e}])
    BY <1>1 DEF Accept, Publish, Begin
  <2>4. \A g \in Serve :
          /\ call'[g].load = call[g].load /\ call'[g].got = call[g].got
          /\ \/ call'[g] = call[g]
             \/ call[g].at = "idle" /\ call'[g].at = "match"
    BY <2>3 DEF Types, CallRecord
  <2> QED BY <2>1, <2>2, <2>4, QuietKeeps
<1>2. ASSUME NEW s \in Serve, Match(s) PROVE Tally' /\ NoneLost'
  <2>1. \A x \in Entry : entry'[x].reported = entry[x].reported
    <3>1. \A x \in Entry : [entry[x] EXCEPT !.state = "held"].reported = entry[x].reported
      BY DEF Types, EntryRecord
    <3>2. entry' = entry \/ \E e \in Entry : entry' = [entry EXCEPT ![e] = [entry[e] EXCEPT !.state = "held"]]
      BY <1>0, <1>2 DEF Match, Queue
    <3>3. CASE entry' = entry
      BY <3>3
    <3>4. ASSUME NEW e \in Entry, entry' = [entry EXCEPT ![e] = [entry[e] EXCEPT !.state = "held"]]
          PROVE  \A x \in Entry : entry'[x].reported = entry[x].reported
      BY <3>1, <3>4 DEF Types
    <3> QED BY <3>2, <3>3, <3>4
  <2>2. UNCHANGED <<heard, missed>> /\ call[s].at = "match"
    BY <1>2 DEF Match
  <2>3. call' = [call EXCEPT ![s].at = "expiry"]
          \/ call' = [call EXCEPT ![s].at = "load", ![s].says = "held"]
    BY <1>2 DEF Match, At
  <2>4. \A g \in Serve :
          /\ call'[g].load = call[g].load /\ call'[g].got = call[g].got
          /\ \/ call'[g] = call[g]
             \/ call[g].at = "match" /\ call'[g].at \in {"expiry", "load"}
    BY <2>2, <2>3 DEF Types, CallRecord
  <2> QED BY <2>1, <2>2, <2>4, QuietKeeps
<1>3. ASSUME NEW s \in Serve, SayExpired(s) PROVE Tally' /\ NoneLost'
  <2>1. UNCHANGED <<heard, missed, entry>> /\ call[s].at = "expiry"
    BY <1>3 DEF SayExpired
  <2>2. PICK says \in {"waits", "shared"} : call' = [call EXCEPT ![s].at = "load", ![s].says = says]
    BY <1>3 DEF SayExpired
  <2>3. \A g \in Serve :
          /\ call'[g].load = call[g].load /\ call'[g].got = call[g].got
          /\ \/ call'[g] = call[g]
             \/ call[g].at = "expiry" /\ call'[g].at = "load"
    BY <2>1, <2>2 DEF Types, CallRecord
  <2> QED BY <2>1, <2>3, QuietKeeps
<1>4. ASSUME NEW s \in Serve, narrated(s) PROVE Tally' /\ NoneLost'
  <2>1. UNCHANGED <<heard, missed, entry>> /\ call[s].at = "idle"
          /\ call' = [call EXCEPT ![s].at = "load"]
    BY <1>4 DEF narrated, Begin, At
  <2>2. \A g \in Serve :
          /\ call'[g].load = call[g].load /\ call'[g].got = call[g].got
          /\ \/ call'[g] = call[g]
             \/ call[g].at = "idle" /\ call'[g].at = "load"
    BY <2>1 DEF Types, CallRecord
  <2> QED BY <2>1, <2>2, QuietKeeps
<1>5. ASSUME NEW s \in Serve, TakeUnreported(s) PROVE Tally' /\ NoneLost'
  <2>1. /\ UNCHANGED <<heard, missed, entry>> /\ call[s].load = {} /\ call[s].got = {}
        /\ call' = [call EXCEPT ![s].at = "mark", ![s].load = Unreported]
    BY <1>5 DEF TakeUnreported, Tally
  <2>2. /\ call'[s].at = "mark" /\ call'[s].load = Unreported /\ call'[s].got = {}
        /\ \A g \in Serve : g # s => call'[g] = call[g]
    BY <1>0, <2>1 DEF Types, CallRecord
  <2>3. ASSUME NEW e \in Entry PROVE heard[e] + Cardinality(Telling(e)') <= Cardinality(Serve)
    <3>1. CASE e \in Unreported
      <4>1. heard[e] = 0
        BY <3>1 DEF Unreported, Tally, Types
      <4>2. Telling(e)' \in SUBSET Serve /\ IsFiniteSet(Serve)
        BY DEF Telling, ShareAssumption
      <4>3. Cardinality(Telling(e)') <= Cardinality(Serve) /\ Cardinality(Telling(e)') \in Nat
        BY <4>2, FS_Subset, FS_CardinalityType
      <4> QED BY <4>1, <4>3
    <3>2. CASE e \notin Unreported
      <4>1. Telling(e)' = Telling(e)
        BY <2>1, <2>2, <3>2 DEF Telling
      <4> QED BY <4>1 DEF Tally
    <3> QED BY <3>1, <3>2
  <2>4. /\ \A e \in Entry : heard[e] > 0 => entry[e].reported
        /\ \A g \in Serve :
             /\ call[g].at = "idle" => call[g] = NoCall
             /\ call[g].at \in {"match", "expiry", "load"} => call[g].load = {} /\ call[g].got = {}
             /\ \A e \in call[g].got : entry[e].reported
    BY DEF Tally
  <2>5. \A g \in Serve :
          /\ call'[g].at = "idle" => call'[g] = NoCall
          /\ call'[g].at \in {"match", "expiry", "load"} => call'[g].load = {} /\ call'[g].got = {}
          /\ \A e \in call'[g].got : entry[e].reported
    <3> SUFFICES ASSUME NEW g \in Serve
                 PROVE  /\ call'[g].at = "idle" => call'[g] = NoCall
                        /\ call'[g].at \in {"match", "expiry", "load"} =>
                             call'[g].load = {} /\ call'[g].got = {}
                        /\ \A e \in call'[g].got : entry[e].reported
      OBVIOUS
    <3>1. CASE g = s
      BY <2>2, <3>1
    <3>2. CASE g # s
      <4>1. call'[g] = call[g]
        BY <2>2, <3>2
      <4> QED BY <2>4, <4>1, Zenon
    <3> QED BY <3>1, <3>2
  <2>6. Tally'
    <3>1. entry' = entry /\ heard' = heard
      BY <2>1
    <3> QED BY <2>3, <2>4, <2>5, <3>1, Zenon DEF Tally
  <2>7. \A e \in Entry : (\E g \in Serve : e \in call[g].got) => \E g \in Serve : e \in call'[g].got
    <3> SUFFICES ASSUME NEW e \in Entry, NEW g \in Serve, e \in call[g].got
                 PROVE  e \in call'[g].got
      OBVIOUS
    <3>1. g # s
      BY <2>1
    <3> QED BY <2>2, <3>1
  <2>8. NoneLost'
    <3>1. entry' = entry /\ heard' = heard /\ missed' = missed /\ NoneLost
      BY <2>1
    <3> QED BY <2>7, <3>1, Zenon DEF NoneLost
  <2> QED BY <2>6, <2>8
<1>6. ASSUME NEW s \in Serve, Mark(s) PROVE Tally' /\ NoneLost'
  <2>1. CASE At(s, "notice") /\ UNCHANGED entry
    <3>1. UNCHANGED <<heard, missed>> /\ call[s].at = "mark" /\ call' = [call EXCEPT ![s].at = "notice"]
      BY <1>6, <2>1 DEF Mark, At
    <3>2. \A g \in Serve :
            /\ call'[g].load = call[g].load /\ call'[g].got = call[g].got
            /\ call'[g] = call[g] \/ (call[g].at = "mark" /\ call'[g].at = "notice")
      BY <3>1 DEF Types, CallRecord
    <3> QED BY <2>1, <3>1, <3>2, QuietKeeps
  <2>2. ASSUME NEW e \in call[s].load, entry' = [entry EXCEPT ![e] = Reported(e)],
               call' = [call EXCEPT ![s].load = @ \ {e}, ![s].got = @ \cup {e}]
        PROVE  Tally' /\ NoneLost'
    <3>1. /\ call'[s].load = call[s].load \ {e} /\ call'[s].got = call[s].got \cup {e}
          /\ call'[s].at = "mark" /\ \A g \in Serve : g # s => call'[g] = call[g]
      BY <1>0, <1>6, <2>2 DEF Types, CallRecord, Mark
    <3>2. e \in Entry /\ UNCHANGED <<heard, missed>>
      BY <1>0, <1>6 DEF Mark
    <3>3. \A x : Telling(x)' = Telling(x)
      BY <2>2, <3>1 DEF Telling
    <3>4. entry'[e].reported /\ \A x \in Entry : x # e => entry'[x] = entry[x]
      BY <2>2, <3>2 DEF Reported, Types, EntryRecord
    <3> QED BY <1>0, <3>1, <3>2, <3>3, <3>4 DEF Tally, NoneLost
  <2> QED BY <1>6, <2>1, <2>2 DEF Mark
<1>7. ASSUME NEW s \in Serve, withRefusals(s) \/ Die(s) PROVE Tally' /\ NoneLost'
  <2>1. /\ UNCHANGED entry /\ call'[s] = NoCall /\ \A g \in Serve : g # s => call'[g] = call[g]
        /\ \/ /\ UNCHANGED missed
              /\ \A e \in Entry : heard'[e] = heard[e] + IF e \in call[s].got THEN 1 ELSE 0
           \/ UNCHANGED heard /\ missed' = missed \cup call[s].got
    BY <1>7 DEF withRefusals, Die, RenderRefusals, Types
  <2>2. NoCall.at = "idle" /\ NoCall.load = {} /\ NoCall.got = {}
    BY DEF NoCall
  <2>3. \A e : Telling(e)' = Telling(e) \ {s}
    BY <2>1, <2>2 DEF Telling
  <2>4. ASSUME NEW e \in Entry
        PROVE  /\ heard'[e] > 0 => entry'[e].reported
               /\ heard'[e] + Cardinality(Telling(e)') <= Cardinality(Serve)
               /\ entry'[e].reported =>
                    heard'[e] > 0 \/ e \in missed' \/ \E g \in Serve : e \in call'[g].got
    <3>1. Cardinality(Telling(e)') = Cardinality(Telling(e)) - IF s \in Telling(e) THEN 1 ELSE 0
      <4>1. Cardinality(Telling(e) \ {s})
              = IF s \in Telling(e) THEN Cardinality(Telling(e)) - 1 ELSE Cardinality(Telling(e))
        BY TellingCounts, FS_RemoveElement
      <4> QED BY <2>3, <4>1, TellingCounts
    <3>2. e \in call[s].got => s \in Telling(e) /\ entry[e].reported
      BY DEF Telling, Tally
    <3>3. heard[e] \in Nat /\ heard[e] + Cardinality(Telling(e)) <= Cardinality(Serve)
            /\ (heard[e] > 0 => entry[e].reported)
      BY DEF Tally, Types
    <3>4. entry[e].reported => heard[e] > 0 \/ e \in missed \/ \E g \in Serve : e \in call[g].got
      BY DEF NoneLost
    <3>5. heard'[e] + Cardinality(Telling(e)') <= Cardinality(Serve)
      BY <2>1, <3>1, <3>2, <3>3, TellingCounts
    <3>6. heard'[e] > 0 => entry'[e].reported
      BY <2>1, <3>2, <3>3
    <3>7. entry'[e].reported =>
            heard'[e] > 0 \/ e \in missed' \/ \E g \in Serve : e \in call'[g].got
      BY <2>1, <3>3, <3>4
    <3> QED BY <3>5, <3>6, <3>7
  <2> QED BY <2>1, <2>2, <2>4 DEF Tally, NoneLost
<1>8. ASSUME NEW s \in Serve, SessionEnds(s) \/ Rejoin(s) PROVE Tally' /\ NoneLost'
  BY <1>8, QuietKeeps DEF SessionEnds, Rejoin
<1> QED BY <1>1, <1>2, <1>3, <1>4, <1>5, <1>6, <1>7, <1>8 DEF Next

(* A step of a serve or of the worker keeps the invariant. *)
LEMMA NextShare == ShareInv /\ [Next]_shareVars => ShareInv'
<1> SUFFICES ASSUME ShareInv, [Next]_shareVars PROVE ShareInv'
  OBVIOUS
<1>1. CASE Next
  BY <1>1, TypesNext, LapsesNext, TallyNext DEF ShareInv
<1>2. CASE UNCHANGED shareVars
  BY <1>2 DEF shareVars, ShareInv, Types, NoneLost, Tally, Telling, Lapses, NotNagged,
    sessionExpired, Awaiting
<1> QED BY <1>1, <1>2

(* Whatever serves overlap, die or cannot write: a refusal that left the    *)
(* list was told, is about to be, or went with a serve that died; no agent *)
(* hears of one twice, and none is told again of an expiry it knows.       *)
THEOREM SharesAreTold == SpecShare => []ShareIsTold
<1>1. ASSUME ShareInv PROVE EachOnce
  <2>1. ASSUME NEW e \in Entry
        PROVE  /\ heard[e] <= Cardinality(Serve)
               /\ \A s \in Serve : e \in call[s].got => heard[e] < Cardinality(Serve)
    <3>1. heard[e] \in Nat /\ heard[e] + Cardinality(Telling(e)) <= Cardinality(Serve)
      BY <1>1 DEF ShareInv, Tally, Types
    <3>2. ASSUME NEW s \in Serve, e \in call[s].got PROVE Cardinality(Telling(e)) # 0
      <4>1. s \in Telling(e)
        BY <3>2 DEF Telling
      <4> QED BY <4>1, TellingCounts, FS_EmptySet
    <3> QED BY <3>1, <3>2, TellingCounts
  <2> QED BY <2>1 DEF EachOnce
<1>2. ShareInv => ShareIsTold
  BY <1>1 DEF ShareInv, ShareIsTold
<1> QED BY <1>2, InitShare, NextShare, PTL DEF SpecShare

HIDE ShareAssumption

-----------------------------------------------------------------------------
(* The session on file, and those who renew it.                            *)

Signed == [api : Landfalls, chain : Nat \ {0}, token : Nat, fresh : BOOLEAN]
Steps == {"idle", "read", "refresh", "asked", "save", "write", "check", "slug", "poll",
          "revoke", "remove"}
Kinds == {"none", "join", "act", "login", "logout"}

Where == [kind : Kinds, at : Steps, held : Signed \cup {NoSession}, open : BOOLEAN]

Places ==
  /\ credentials \in Signed \cup {NoFile, Torn}
  /\ chains \in Seq(Nat) /\ Len(chains) <= MaxLogins
  /\ proc \in [Proc -> Where]

Renews(q) == proc[q].at \in {"asked", "save", "write"}
Saves(q) == proc[q].at \in {"save", "write"}

(* Sessions are of a chain the server has, and what is renewed has a token. *)
Sessions ==
  /\ credentials.chain <= Len(chains)
  /\ \A q \in Proc : /\ proc[q].held.chain <= Len(chains)
                     /\ Renews(q) => proc[q].held.token # 0

(* No token is ahead of its chain. *)
Reached ==
  /\ credentials.token # 0 => credentials.token <= chains[credentials.chain]
  /\ \A q \in Proc : Renews(q) => proc[q].held.token <= chains[proc[q].held.chain]

(* Of each chain one process at most has a token to save, and it is the     *)
(* live one; what others of that chain have asked with is spent,            *)
OneSaver ==
  /\ \A q \in Proc : Saves(q) => Alive(proc[q].held)
  /\ \A q, r \in Proc :
       Saves(q) /\ Saves(r) /\ proc[q].held.chain = proc[r].held.chain => q = r
OthersSpent ==
  \A q, r \in Proc :
    proc[q].at = "asked" /\ Saves(r) /\ proc[q].held.chain = proc[r].held.chain =>
      ~Alive(proc[q].held)

(* and so is what the file has of it: what is spent there is about to be    *)
(* written over, and whoever writes has truncated it.                       *)
FileFollows ==
  /\ credentials.token # 0 /\ ~Alive(credentials) =>
       \E q \in Proc : proc[q].at = "save" /\ proc[q].held.chain = credentials.chain
  /\ \A q \in Proc :
       Saves(q) /\ proc[q].held.chain = credentials.chain =>
         ~Alive(credentials) /\ proc[q].at # "write"
TornIsMended ==
  credentials = Torn => \E q \in Proc : proc[q].at = "write" /\ proc[q].open

Sound == Reached /\ OneSaver /\ OthersSpent /\ FileFollows /\ TornIsMended

(* Nobody can bring a session back once the file was removed and nothing    *)
(* was under way.                                                           *)
StaysOut ==
  out = "alone" => credentials = NoFile /\ \A q \in Proc : ~Renews(q) /\ proc[q].at # "poll"

AuthInv == Places /\ Sessions /\ StaysOut /\ (~slip => Sound)

USE AuthAssumption

(* No session, and a file that is torn, carry no chain and no token. *)
LEMMA NoSessionFacts ==
  /\ NoSession.chain = 0 /\ NoSession.token = 0 /\ Torn.chain = 0 /\ Torn.token = 0
  /\ Torn # NoSession /\ NoSession \notin Signed /\ Torn \notin Signed
<1>1. NoSession.api = "hosted" /\ Torn.api = "torn"
  BY DEF NoSession, Torn
<1>2. NoSession.chain = 0 /\ NoSession.token = 0 /\ Torn.chain = 0 /\ Torn.token = 0
  BY DEF NoSession, Torn
<1>3. \A s \in Signed : s.chain # 0
  BY DEF Signed
<1>4. Torn # NoSession
  BY <1>1
<1> QED BY <1>2, <1>3, <1>4

(* The file that a machine starts with is sound. *)
LEMMA InitAuthed == InitAuth => AuthInv
<1> SUFFICES ASSUME InitAuth PROVE AuthInv
  OBVIOUS
<1>1. Len(chains) = 1 /\ chains[1] = 1 /\ chains \in Seq(Nat)
  <2>1. chains = <<1>>
    BY DEF InitAuth
  <2> QED BY <2>1
<1>2. credentials \in Signed \cup {NoFile}
  BY DEF InitAuth, Signed
<1>3. credentials.chain <= 1 /\ (credentials.token # 0 => credentials.token = 1 /\ credentials.chain = 1)
  BY NoSessionFacts DEF InitAuth, NoFile
<1>4. \A q \in Proc : proc[q] = Idle
  BY DEF InitAuth
<1>5. \A q \in Proc : proc[q].at = "idle" /\ proc[q].held = NoSession
  <2>1. Idle.at = "idle" /\ Idle.held = NoSession
    BY DEF Idle
  <2> QED BY <1>4, <2>1, Zenon
<1>6. proc \in [Proc -> Where]
  <2>1. Idle \in Where
    BY DEF Idle, Kinds, Steps, Where
  <2>2. proc = [q \in Proc |-> Idle]
    BY DEF InitAuth
  <2> QED BY <2>1, <2>2
<1>7. Places
  <2>1. credentials \in Signed \cup {NoFile, Torn}
    BY <1>2, Zenon
  <2>2. Len(chains) <= MaxLogins
    BY <1>1
  <2> QED BY <1>1, <1>6, <2>1, <2>2, Zenon DEF Places
<1>8. Sessions /\ StaysOut
  BY <1>1, <1>3, <1>5, NoSessionFacts DEF Sessions, StaysOut, Renews, InitAuth, NoFile
<1>9. credentials # Torn
  BY <1>2, NoSessionFacts DEF NoFile
<1>10. Sound
  BY <1>1, <1>3, <1>5, <1>9 DEF Sound, Reached, OneSaver, OthersSpent, FileFollows, TornIsMended, Renews, Saves, Alive
<1> QED BY <1>7, <1>8, <1>10 DEF AuthInv

-----------------------------------------------------------------------------
(* The chains: one more, or one token more of one. *)

(* A sign-in opens a chain, and leaves the others. *)
LEMMA ChainAdded ==
  ASSUME chains \in Seq(Nat)
  PROVE  /\ Append(chains, 1) \in Seq(Nat) /\ Len(Append(chains, 1)) = Len(chains) + 1
         /\ Append(chains, 1)[Len(chains) + 1] = 1
         /\ \A k \in Nat \ {0} : k <= Len(chains) => Append(chains, 1)[k] = chains[k]
<1>1. Len(chains) \in Nat
  BY LenProperties
<1> QED BY <1>1, AppendProperties

(* A renewal moves one chain, and leaves the others. *)
LEMMA ChainSet ==
  ASSUME chains \in Seq(Nat), NEW k \in Nat \ {0}, k <= Len(chains), NEW v \in Nat
  PROVE  LET c == [chains EXCEPT ![k] = v] IN
         /\ c \in Seq(Nat) /\ Len(c) = Len(chains) /\ c[k] = v
         /\ \A j \in Nat \ {0} : j <= Len(chains) /\ j # k => c[j] = chains[j]
<1>1. Len(chains) \in Nat /\ k \in 1..Len(chains) /\ DOMAIN chains = 1..Len(chains)
  BY LenProperties
<1>2. [chains EXCEPT ![k] = v] \in Seq(Nat) /\ Len([chains EXCEPT ![k] = v]) = Len(chains)
  BY <1>1, ExceptSeq
<1> QED BY <1>1, <1>2

(* A chain that there is has a number. *)
LEMMA ChainFacts ==
  ASSUME chains \in Seq(Nat)
  PROVE  /\ Len(chains) \in Nat
         /\ \A k \in Nat \ {0} : k <= Len(chains) => chains[k] \in Nat
<1>1. Len(chains) \in Nat
  BY LenProperties
<1> QED BY <1>1, ElementOfSeq

-----------------------------------------------------------------------------
(* A process that is not renewing goes on, or stops, or one stops that was  *)
(* refused; whatever it leaves, the rest is as sound as it was.             *)
LEMMA Rests ==
  ASSUME AuthInv, NEW p \in Proc, NEW v \in Where, UNCHANGED <<credentials, chains>>,
         proc' = [proc EXCEPT ![p] = v], v.at \notin {"asked", "save", "write"},
         v.held.chain <= Len(chains), slip' \/ (~slip /\ ~Saves(p)),
         out' = "no" \/ (out' = out /\ v.at # "poll")
  PROVE  AuthInv'
<1> USE DEF AuthInv, Places, Sessions, StaysOut, Renews, Saves
<1>1. proc' \in [Proc -> Where] /\ proc'[p] = v /\ \A q \in Proc : q # p => proc'[q] = proc[q]
  OBVIOUS
<1>2. Places' /\ Sessions'
  BY <1>1
<1>3. StaysOut'
  BY <1>1
<1>4. ASSUME ~slip' PROVE Sound'
  <2> USE DEF Sound, Alive
  <2>1. ~slip /\ ~Saves(p)
    BY <1>4
  <2>2. Reached' /\ OneSaver' /\ OthersSpent'
    BY <1>1, <2>1 DEF Reached, OneSaver, OthersSpent
  <2>3. FileFollows' /\ TornIsMended'
    BY <1>1, <2>1 DEF FileFollows, TornIsMended
  <2> QED BY <2>2, <2>3
<1> QED BY <1>2, <1>3, <1>4

(* What AtStep makes of a process. *)
LEMMA StepsTo ==
  ASSUME Places, NEW p \in Proc, NEW step \in Steps, NEW s \in Signed \cup {NoSession},
         AtStep(p, step, s)
  PROVE  \E v \in Where : /\ proc' = [proc EXCEPT ![p] = v]
                          /\ v.at = step /\ v.held = s
<1> DEFINE v == [proc[p] EXCEPT !.at = step, !.held = s]
<1>1. proc[p] \in Where
  BY DEF Places
<1>2. v \in Where /\ v.at = step /\ v.held = s
  BY <1>1 DEF Where
<1>3. proc' = [proc EXCEPT ![p] = v]
  BY DEF AtStep
<1> QED BY <1>2, <1>3

(* What is left of a process that ends. *)
LEMMA EndsIdle ==
  ASSUME Places, NEW p \in Proc, Ends(p)
  PROVE  /\ proc' = [proc EXCEPT ![p] = Idle]
         /\ Idle \in Where /\ Idle.at = "idle" /\ Idle.held = NoSession
<1>1. Idle \in Where /\ Idle.at = "idle" /\ Idle.held = NoSession
  BY DEF Idle, Where, Kinds, Steps
<1> QED BY <1>1 DEF Ends

(* What is read of the file is the session on it, or none. *)
LEMMA ReadCacheFacts ==
  ASSUME Places, Sessions
  PROVE  /\ ReadCache \in Signed \cup {NoSession}
         /\ ReadCache.chain <= Len(chains)
         /\ ReadCache = NoSession \/ ReadCache = credentials
<1>1. Len(chains) \in Nat
  BY ChainFacts DEF Places
<1> QED BY <1>1, NoSessionFacts DEF ReadCache, Places, Sessions, NoFile

(* A process that tells the person to sign in had nothing to save. *)
LEMMA Told ==
  ASSUME AuthInv, NEW p \in Proc, ~Saves(p), TellsToSignIn(p) PROVE AuthInv'
<1>1. Len(chains) \in Nat
  BY ChainFacts DEF AuthInv, Places
<1>2. /\ proc' = [proc EXCEPT ![p] = Idle]
      /\ Idle \in Where /\ Idle.at = "idle" /\ Idle.held = NoSession
  BY EndsIdle DEF TellsToSignIn, AuthInv
<1>3. UNCHANGED <<credentials, chains, slip, out>>
  BY DEF TellsToSignIn
<1>4. slip' \/ (~slip /\ ~Saves(p))
  BY <1>3, Zenon
<1>5. Idle.at \notin {"asked", "save", "write"} /\ Idle.at # "poll" /\ Idle.held.chain <= Len(chains)
  BY <1>1, <1>2, NoSessionFacts
<1>6. UNCHANGED <<credentials, chains>> /\ out' = out
  BY <1>3
<1> QED BY <1>2, <1>4, <1>5, <1>6, Rests

(* A command starts: it has read nothing yet. *)
LEMMA Begins ==
  ASSUME AuthInv, NEW p \in Proc, NEW kind \in {"join", "act", "login", "logout"},
         StartCommand(p, kind)
  PROVE  AuthInv'
<1> DEFINE v == [Idle EXCEPT !.kind = kind, !.at = IF kind = "login" THEN "poll" ELSE "read"]
<1>1. v \in Where /\ v.at \in {"poll", "read"} /\ (v.at = "poll" => kind = "login")
      /\ v.held = NoSession
  BY DEF Idle, Where, Kinds, Steps
<1>2. proc' = [proc EXCEPT ![p] = v] /\ UNCHANGED <<credentials, chains>>
  BY DEF StartCommand
<1>3. (kind = "login" => out' = "no") /\ (kind # "login" => out' = out)
  BY Zenon DEF StartCommand
<1>4. slip' \/ (~slip /\ ~Saves(p))
  <2>1. proc[p].at = "idle" /\ slip' = slip
    BY DEF StartCommand
  <2>2. ~Saves(p)
    BY <2>1 DEF Saves
  <2> QED BY <2>1, <2>2, Zenon
<1>5. v.held.chain <= Len(chains)
  BY <1>1, NoSessionFacts, ChainFacts DEF AuthInv, Places
<1>6. v.at \notin {"asked", "save", "write"} /\ (out' = "no" \/ (out' = out /\ v.at # "poll"))
  BY <1>1, <1>3
<1> HIDE DEF v
<1> QED BY <1>1, <1>2, <1>4, <1>5, <1>6, Rests

(* A process takes another step that renews nothing. *)
LEMMA Steps1 ==
  ASSUME AuthInv, NEW p \in Proc, NEW step \in Steps \ {"asked", "save", "write", "poll"},
         NEW s \in Signed \cup {NoSession}, s.chain <= Len(chains),
         AtStep(p, step, s), UNCHANGED <<credentials, chains, slip, out>>, ~Saves(p)
  PROVE  AuthInv'
<1>1. PICK v \in Where : proc' = [proc EXCEPT ![p] = v] /\ v.at = step /\ v.held = s
  BY StepsTo DEF AuthInv
<1>2. slip' \/ (~slip /\ ~Saves(p))
  BY Zenon
<1> QED BY <1>1, <1>2, Rests

(* A process stops that had nothing to save, or stops with a slip. *)
LEMMA Stops ==
  ASSUME AuthInv, NEW p \in Proc, Ends(p), UNCHANGED <<credentials, chains>>, out' = out,
         slip' \/ (~slip /\ ~Saves(p))
  PROVE  AuthInv'
<1>1. /\ proc' = [proc EXCEPT ![p] = Idle]
      /\ Idle \in Where /\ Idle.at = "idle" /\ Idle.held = NoSession
  BY EndsIdle DEF AuthInv
<1>2. Len(chains) \in Nat
  BY ChainFacts DEF AuthInv, Places
<1>3. Idle.held.chain <= Len(chains)
  BY <1>1, <1>2, NoSessionFacts
<1> QED BY <1>1, <1>3, Rests

(* The file is read: what is read is asked with, used, or given up. *)
LEMMA Reads ==
  ASSUME AuthInv, NEW p \in Proc, GetCachedAccessToken(p) PROVE AuthInv'
<1>1. proc[p].at = "read"
  BY DEF GetCachedAccessToken
<1>2. ~Saves(p)
  BY <1>1 DEF Saves
<1>3. CASE ReadCache = NoSession
  BY <1>2, <1>3, Told, Zenon DEF GetCachedAccessToken
<1>4. CASE ReadCache # NoSession
  <2> DEFINE step == IF credentials.fresh THEN Uses(p) ELSE "refresh"
  <2>1. AtStep(p, step, credentials) /\ UNCHANGED <<credentials, chains, Ghosts>>
    BY <1>4, Zenon DEF GetCachedAccessToken
  <2>2. step \in Steps \ {"asked", "save", "write", "poll"}
    BY DEF Uses, Steps
  <2>3. credentials \in Signed \cup {NoSession} /\ credentials.chain <= Len(chains)
    BY <1>4, ReadCacheFacts DEF AuthInv
  <2>4. UNCHANGED <<credentials, chains, slip, out>>
    BY <2>1 DEF Ghosts
  <2> HIDE DEF step
  <2> QED BY <1>2, <2>1, <2>2, <2>3, <2>4, Steps1
<1> QED BY <1>3, <1>4

(* The file is read again under the renewal, and the server is asked. *)
LEMMA Asks ==
  ASSUME AuthInv, NEW p \in Proc, RefreshAccessToken(p) PROVE AuthInv'
<1>1. proc[p].at = "refresh"
  BY DEF RefreshAccessToken
<1>2. ~Saves(p)
  BY <1>1 DEF Saves
<1> DEFINE s == ReadCache
<1>3. s \in Signed \cup {NoSession} /\ s.chain <= Len(chains) /\ (s = NoSession \/ s = credentials)
  BY ReadCacheFacts DEF AuthInv
<1>4. CASE s.token = 0
  <2>1. TellsToSignIn(p)
    BY <1>4, Zenon DEF RefreshAccessToken, ToRefresh
  <2> QED BY <1>2, <2>1, Told
<1>5. CASE s.token # 0
  <2>1. AtStep(p, "asked", s) /\ UNCHANGED <<credentials, chains, Ghosts>>
    BY <1>5, Zenon DEF RefreshAccessToken, ToRefresh
  <2>2. s = credentials /\ s \in Signed
    BY <1>3, <1>5, NoSessionFacts
  <2>3. PICK v \in Where : proc' = [proc EXCEPT ![p] = v] /\ v.at = "asked" /\ v.held = s
    BY <2>1, <2>2, StepsTo DEF AuthInv, Steps
  <2>4. UNCHANGED <<credentials, chains, out>> /\ (slip' = slip)
    BY <2>1 DEF Ghosts
  <2> HIDE DEF s
  <2> USE DEF AuthInv, Places, Sessions, StaysOut, Renews, Saves
  <2>5. proc' \in [Proc -> Where] /\ proc'[p] = v /\ \A q \in Proc : q # p => proc'[q] = proc[q]
    BY <2>3
  <2>6. Places' /\ Sessions'
    BY <1>3, <1>5, <2>3, <2>4, <2>5
  <2>7. StaysOut'
    BY <1>5, <2>2, <2>4, NoSessionFacts DEF NoFile
  <2>8. ASSUME ~slip PROVE Sound'
    <3> USE DEF Sound, Alive
    <3>1. Reached'
      BY <1>5, <2>2, <2>3, <2>4, <2>5, <2>8 DEF Reached
    <3>2. OneSaver'
      BY <2>3, <2>4, <2>5, <2>8 DEF OneSaver
    <3>3. OthersSpent'
      BY <2>2, <2>3, <2>4, <2>5, <2>8 DEF OthersSpent, FileFollows
    <3>4. FileFollows' /\ TornIsMended'
      BY <1>1, <2>3, <2>4, <2>5, <2>8 DEF FileFollows, TornIsMended
    <3> QED BY <3>1, <3>2, <3>3, <3>4
  <2>9. ~slip' => ~slip
    BY <2>4, Zenon
  <2> QED BY <2>6, <2>7, <2>8, <2>9
<1> QED BY <1>4, <1>5

(* What a process holds, and what the file does, in numbers. *)
Numbered ==
  /\ \A q \in Proc : /\ proc[q].held.chain \in Nat /\ proc[q].held.chain <= Len(chains)
                     /\ proc[q].held.token \in Nat
                     /\ Renews(q) => proc[q].held.chain # 0
  /\ credentials.chain \in Nat /\ credentials.chain <= Len(chains)
  /\ credentials.token \in Nat /\ (credentials.token # 0 => credentials.chain # 0)

(* Every session that is held or on file has numbers for chain and token. *)
LEMMA AllNumbered == AuthInv => Numbered
<1> SUFFICES ASSUME AuthInv PROVE Numbered
  OBVIOUS
<1> USE DEF AuthInv, Places, Sessions
<1>1. \A s \in Signed : s.chain \in Nat \ {0} /\ s.token \in Nat
  BY DEF Signed
<1>2. \A q \in Proc : proc[q].held \in Signed \cup {NoSession}
  BY DEF Where
<1> QED BY <1>1, <1>2, NoSessionFacts DEF Numbered, NoFile

(* A renewal gives the next token of the same chain. *)
LEMMA NextToken ==
  ASSUME NEW s \in Signed
  PROVE  Rotated(s) \in Signed /\ Rotated(s).chain = s.chain /\ Rotated(s).token = s.token + 1
<1> DEFINE n == s.token + 1
<1>1. n \in Nat
  BY DEF Signed
<1>2. Rotated(s) = [s EXCEPT !.token = n, !.fresh = TRUE]
  BY DEF Rotated
<1> HIDE DEF n
<1>3. Rotated(s) \in Signed /\ Rotated(s).chain = s.chain /\ Rotated(s).token = n
  BY <1>1, <1>2 DEF Signed
<1> QED BY <1>3 DEF n

(* The token that was asked with is spent, and one process alone has the next. *)
LEMMA RotatesSound ==
  ASSUME Sound, Numbered, NEW p \in Proc, NEW k \in Nat \ {0}, NEW t \in Nat \ {0},
         proc[p].at = "asked", chains[k] = t, chains'[k] = t + 1,
         \A j \in Nat \ {0} : j <= Len(chains) /\ j # k => chains'[j] = chains[j],
         credentials' = credentials,
         proc[p].held.chain = k, proc[p].held.token = t,
         proc'[p].at = "save", proc'[p].held.chain = k, proc'[p].held.token = t + 1,
         \A q \in Proc : q # p => proc'[q] = proc[q]
  PROVE  Sound'
<1>1. /\ Reached /\ OneSaver /\ OthersSpent /\ FileFollows /\ TornIsMended
      /\ Saves(p)' /\ Renews(p) /\ Renews(p)' /\ ~Saves(p)
      /\ \A q \in Proc \ {p} : (Saves(q)' <=> Saves(q)) /\ (Renews(q)' <=> Renews(q))
  BY DEF Sound, Saves, Renews
<1>2. \A q \in Proc : q # p /\ Saves(q) => proc[q].held.chain # k
  BY <1>1 DEF OthersSpent, Alive
<1>3. /\ \A q \in Proc : Renews(q) => proc[q].held.chain \in Nat \ {0} /\ proc[q].held.chain <= Len(chains)
      /\ credentials.token # 0 => credentials.chain \in Nat \ {0} /\ credentials.chain <= Len(chains)
  BY DEF Numbered, Renews
<1>4. Reached'
  <2>0. /\ credentials.token # 0 => credentials.token <= chains[credentials.chain]
        /\ \A q \in Proc : Renews(q) => proc[q].held.token <= chains[proc[q].held.chain]
    BY <1>1 DEF Reached
  <2>1. credentials.token # 0 => credentials.token <= chains'[credentials.chain]
    <3>1. CASE credentials.chain = k
      BY <2>0, <3>1 DEF Numbered
    <3>2. CASE credentials.chain # k
      BY <1>3, <2>0, <3>2
    <3> QED BY <3>1, <3>2
  <2>2. ASSUME NEW q \in Proc, Renews(q)' PROVE proc'[q].held.token <= chains'[proc'[q].held.chain]
    <3>1. CASE q = p
      BY <3>1
    <3>2. ASSUME q # p PROVE proc'[q] = proc[q] /\ Renews(q)
      BY <1>1, <2>2, <3>2
    <3>3. CASE q # p /\ proc[q].held.chain = k
      <4>1. proc[q].held.token <= t /\ proc[q].held.token \in Nat
        BY <2>0, <3>2, <3>3 DEF Numbered, Renews
      <4> QED BY <3>2, <3>3, <4>1
    <3>4. CASE q # p /\ proc[q].held.chain # k
      BY <1>3, <2>0, <3>2, <3>4
    <3> QED BY <3>1, <3>3, <3>4
  <2> QED BY <2>1, <2>2 DEF Reached
<1>5. \A q \in Proc \ {p} : proc'[q] = proc[q]
  OBVIOUS
<1>6. ASSUME NEW q \in Proc \ {p}, Renews(q)
      PROVE  Alive(proc[q].held)' <=> Alive(proc[q].held) /\ proc[q].held.chain # k
  <2>1. proc'[q] = proc[q] /\ proc[q].held.token \in Nat
    BY <1>5 DEF Numbered
  <2>2. CASE proc[q].held.chain = k
    <3>1. proc[q].held.token <= t
      BY <1>1, <1>6, <2>2 DEF Reached
    <3> QED BY <2>1, <2>2, <3>1 DEF Alive
  <2>3. CASE proc[q].held.chain # k
    <3>1. chains'[proc[q].held.chain] = chains[proc[q].held.chain]
      BY <1>3, <1>6, <2>3
    <3> QED BY <2>1, <2>3, <3>1 DEF Alive
  <2> QED BY <2>2, <2>3
<1>7. Alive(credentials)' <=> Alive(credentials) /\ credentials.chain # k
  <2>1. credentials.token \in Nat
    BY DEF Numbered
  <2>2. CASE credentials.chain = k
    <3>1. credentials.token # 0 => credentials.token <= t
      BY <1>1, <2>2 DEF Reached
    <3> QED BY <2>1, <2>2, <3>1 DEF Alive
  <2>3. CASE credentials.chain # k
    <3>1. credentials.token # 0 => chains'[credentials.chain] = chains[credentials.chain]
      BY <1>3, <2>3
    <3> QED BY <2>3, <3>1 DEF Alive
  <2> QED BY <2>2, <2>3
<1>8. Alive(proc[p].held)' /\ \A q \in Proc : Saves(q) => Renews(q)
  BY DEF Alive, Saves, Renews
<1>9. OneSaver'
  <2>0. /\ \A q \in Proc : Saves(q) => Alive(proc[q].held)
        /\ \A q, r \in Proc :
             Saves(q) /\ Saves(r) /\ proc[q].held.chain = proc[r].held.chain => q = r
    BY <1>1, Zenon DEF OneSaver
  <2>1. ASSUME NEW q \in Proc, Saves(q)' PROVE Alive(proc[q].held)'
    <3>1. CASE q = p
      BY <1>8, <3>1
    <3>2. CASE q # p
      <4>1. q \in Proc \ {p} /\ Saves(q)
        BY <1>1, <2>1, <3>2
      <4>2. Renews(q) /\ Alive(proc[q].held) /\ proc[q].held.chain # k
        BY <1>2, <1>8, <2>0, <3>2, <4>1
      <4> QED BY <1>6, <4>1, <4>2
    <3> QED BY <3>1, <3>2
  <2>2. ASSUME NEW q \in Proc, NEW r \in Proc, Saves(q)', Saves(r)',
               proc'[q].held.chain = proc'[r].held.chain
        PROVE  q = r
    <3>1. \A x \in {q, r} : x # p => Saves(x) /\ proc'[x] = proc[x] /\ proc[x].held.chain # k
      BY <1>1, <1>2, <1>5, <2>2
    <3>2. CASE q # p /\ r # p
      BY <2>0, <2>2, <3>1, <3>2
    <3>3. CASE q = p \/ r = p
      BY <2>2, <3>1, <3>3
    <3> QED BY <3>2, <3>3
  <2> QED BY <2>1, <2>2 DEF OneSaver
<1>10. OthersSpent'
  <2> SUFFICES ASSUME NEW q \in Proc, NEW r \in Proc, proc'[q].at = "asked", Saves(r)',
                      proc'[q].held.chain = proc'[r].held.chain
               PROVE  ~Alive(proc[q].held)'
    BY DEF OthersSpent
  <2>1. q \in Proc \ {p} /\ proc'[q] = proc[q] /\ Renews(q)
    BY <1>5 DEF Renews
  <2>2. CASE r = p
    BY <1>6, <2>1, <2>2
  <2>3. CASE r # p
    <3>1. Saves(r) /\ proc'[r] = proc[r]
      BY <1>1, <1>5, <2>3
    <3>2. ~Alive(proc[q].held)
      BY <1>1, <2>1, <3>1 DEF OthersSpent
    <3> QED BY <1>6, <2>1, <3>2
  <2> QED BY <2>2, <2>3
<1>11. FileFollows'
  <2>1. ASSUME credentials'.token # 0, ~Alive(credentials)'
        PROVE  \E q \in Proc : proc'[q].at = "save" /\ proc'[q].held.chain = credentials'.chain
    <3>1. CASE credentials.chain = k
      BY <3>1
    <3>2. CASE credentials.chain # k
      <4>1. PICK q \in Proc : proc[q].at = "save" /\ proc[q].held.chain = credentials.chain
        BY <1>1, <1>7, <2>1, <3>2 DEF FileFollows
      <4>2. proc'[q] = proc[q]
        BY <1>5, <4>1
      <4> QED BY <4>1, <4>2
    <3> QED BY <3>1, <3>2
  <2>2. ASSUME NEW q \in Proc, Saves(q)', proc'[q].held.chain = credentials'.chain
        PROVE  ~Alive(credentials)' /\ proc'[q].at # "write"
    <3>1. CASE q = p
      BY <1>7, <2>2, <3>1
    <3>2. CASE q # p
      <4>1. Saves(q) /\ proc'[q] = proc[q]
        BY <1>1, <1>5, <2>2, <3>2
      <4>2. ~Alive(credentials) /\ proc[q].at # "write"
        BY <1>1, <2>2, <4>1 DEF FileFollows
      <4> QED BY <1>7, <4>1, <4>2
    <3> QED BY <3>1, <3>2
  <2> QED BY <2>1, <2>2 DEF FileFollows
<1>12. TornIsMended'
  <2>1. ASSUME credentials = Torn PROVE \E q \in Proc : proc'[q].at = "write" /\ proc'[q].open
    <3>1. PICK q \in Proc : proc[q].at = "write" /\ proc[q].open
      BY <1>1, <2>1 DEF TornIsMended
    <3>2. proc'[q] = proc[q]
      BY <1>5, <3>1
    <3> QED BY <3>1, <3>2
  <2> QED BY <2>1 DEF TornIsMended
<1> QED BY <1>4, <1>9, <1>10, <1>11, <1>12 DEF Sound

(* The server takes the token, and its process has the next one to save. *)
LEMMA Rotates ==
  ASSUME AuthInv, NEW p \in Proc, proc[p].at = "asked", Alive(proc[p].held),
         chains' = [chains EXCEPT ![proc[p].held.chain] = @ + 1],
         AtStep(p, "save", Rotated(proc[p].held)),
         UNCHANGED <<credentials, slip, out>>
  PROVE  AuthInv'
<1> USE DEF AuthInv, Places, Sessions, StaysOut, Renews, Saves
<1> DEFINE s == proc[p].held
           k == s.chain
           t == chains[k]
<1>1. s \in Signed /\ s.token # 0 /\ k \in Nat \ {0} /\ k <= Len(chains) /\ t = s.token
  <2>1. s \in Signed \cup {NoSession} /\ s.token # 0 /\ s.chain <= Len(chains)
    BY DEF Where
  <2>2. s \in Signed /\ chains[s.chain] = s.token
    BY <2>1, NoSessionFacts DEF Alive
  <2> QED BY <2>1, <2>2 DEF Signed
<1>2. t \in Nat
  BY <1>1 DEF Signed
<1>3. /\ chains' \in Seq(Nat) /\ Len(chains') = Len(chains) /\ chains'[k] = t + 1
      /\ \A j \in Nat \ {0} : j <= Len(chains) /\ j # k => chains'[j] = chains[j]
  BY <1>1, <1>2, ChainSet
<1>4. /\ Rotated(s) \in Signed /\ Rotated(s).chain = k /\ Rotated(s).token = t + 1
  BY <1>1, NextToken
<1>5. PICK v \in Where : proc' = [proc EXCEPT ![p] = v] /\ v.at = "save" /\ v.held = Rotated(s)
  BY <1>4, StepsTo DEF Steps
<1>6. proc' \in [Proc -> Where] /\ proc'[p] = v /\ \A q \in Proc : q # p => proc'[q] = proc[q]
  BY <1>5
<1>7. Places' /\ Sessions'
  <2>1. Places'
    BY <1>3, <1>6 DEF Places
  <2>2. credentials'.chain <= Len(chains') /\ v.held.chain <= Len(chains') /\ v.held.token # 0
    BY <1>1, <1>2, <1>3, <1>4, <1>5
  <2>3. ASSUME NEW q \in Proc
        PROVE  /\ proc'[q].held.chain <= Len(chains')
               /\ Renews(q)' => proc'[q].held.token # 0
    <3>1. CASE q = p
      BY <1>6, <2>2, <3>1
    <3>2. CASE q # p
      BY <1>3, <1>6, <3>2
    <3> QED BY <3>1, <3>2
  <2> QED BY <2>1, <2>2, <2>3
<1>8. StaysOut'
  BY <1>1, <1>6
<1>9. ASSUME ~slip PROVE Sound'
  <2>1. Sound /\ Numbered
    BY <1>9, AllNumbered
  <2>2. /\ v.held.chain = k /\ v.held.token = t + 1 /\ v.at = "save"
        /\ t \in Nat \ {0} /\ s.chain = k /\ s.token = t /\ chains[k] = t
    BY <1>1, <1>2, <1>4, <1>5
  <2> QED BY <1>1, <1>3, <1>6, <2>1, <2>2, RotatesSound
<1>10. ~slip' => ~slip
  BY Zenon
<1> QED BY <1>7, <1>8, <1>9, <1>10

(* A reply or a request is lost, and the process ends. *)
LEMMA Loses ==
  ASSUME AuthInv, NEW p \in Proc, Ends(p), slip' = TRUE, chains' \in Seq(Nat),
         Len(chains') = Len(chains), UNCHANGED <<credentials, out>>
  PROVE  AuthInv'
<1> USE DEF AuthInv, Places, Sessions, StaysOut, Renews, Saves
<1>1. /\ proc' = [proc EXCEPT ![p] = Idle]
      /\ Idle \in Where /\ Idle.at = "idle" /\ Idle.held = NoSession
  BY EndsIdle
<1>2. Len(chains) \in Nat
  BY ChainFacts
<1>3. proc' \in [Proc -> Where] /\ proc'[p] = Idle /\ \A q \in Proc : q # p => proc'[q] = proc[q]
  BY <1>1
<1>4. Places' /\ Sessions' /\ StaysOut'
  BY <1>1, <1>2, <1>3, NoSessionFacts
<1> QED BY <1>4, Zenon

(* The server answers a renewal: a new token, a refusal, or no answer. *)
LEMMA Refreshes ==
  ASSUME AuthInv, NEW p \in Proc, Refreshed(p) PROVE AuthInv'
<1> DEFINE s == proc[p].held
<1>1. proc[p].at = "asked"
  BY DEF Refreshed
<1>2. ~Saves(p)
  BY <1>1 DEF Saves
<1>3. CASE /\ Alive(s) /\ chains' = [chains EXCEPT ![s.chain] = @ + 1]
           /\ AtStep(p, "save", Rotated(s)) /\ UNCHANGED <<credentials, mishaps, Ghosts>>
  BY <1>1, <1>3, Rotates DEF Ghosts
<1>4. CASE TellsToSignIn(p)
  BY <1>2, <1>4, Told
<1>5. CASE /\ chains' \in {chains} \cup
                IF Alive(s) THEN {[chains EXCEPT ![s.chain] = @ + 1]} ELSE {}
           /\ slip' = TRUE /\ Ends(p) /\ UNCHANGED <<credentials, out, misled, astray>>
  <2>1. CASE chains' = chains
    BY <1>5, <2>1, Loses DEF AuthInv, Places
  <2>2. CASE Alive(s) /\ chains' = [chains EXCEPT ![s.chain] = @ + 1]
    <3>1. s \in Signed /\ s.chain \in Nat \ {0} /\ s.chain <= Len(chains) /\ chains[s.chain] + 1 \in Nat
      BY <2>2, NoSessionFacts DEF Where, Alive, Signed, AuthInv, Places, Sessions
    <3>2. chains' \in Seq(Nat) /\ Len(chains') = Len(chains)
      BY <2>2, <3>1, ChainSet DEF AuthInv, Places
    <3> QED BY <1>5, <3>2, Loses
  <2> QED BY <1>5, <2>1, <2>2
<1> QED BY <1>3, <1>4, <1>5, Zenon DEF Refreshed

(* A sign-in is a chain nobody has heard of. *)
LEMMA SignsIn ==
  ASSUME AuthInv, NEW p \in Proc, NEW s \in Signed, proc[p].at = "poll",
         Len(chains) < MaxLogins, chains' = Append(chains, 1),
         s.chain = Len(chains) + 1, s.token = 1, AtStep(p, "save", s),
         UNCHANGED <<credentials, slip, out>>
  PROVE  AuthInv'
<1>1. PICK v \in Where : proc' = [proc EXCEPT ![p] = v] /\ v.at = "save" /\ v.held = s
  BY StepsTo DEF AuthInv, Steps
<1>2. proc' \in [Proc -> Where] /\ proc'[p] = v /\ \A q \in Proc : q # p => proc'[q] = proc[q]
  BY <1>1 DEF AuthInv, Places
<1>3. /\ chains' \in Seq(Nat) /\ Len(chains') = Len(chains) + 1 /\ Len(chains) \in Nat
      /\ chains'[Len(chains) + 1] = 1
      /\ \A j \in Nat \ {0} : j <= Len(chains) => chains'[j] = chains[j]
  BY ChainAdded, ChainFacts DEF AuthInv, Places
<1>4. Numbered
  BY AllNumbered
<1> USE DEF Renews, Saves
<1>5. Places'
  BY <1>2, <1>3 DEF AuthInv, Places
<1>6. Sessions'
  BY <1>1, <1>2, <1>3, <1>4 DEF AuthInv, Sessions, Numbered
<1>7. StaysOut'
  BY DEF AuthInv, StaysOut
<1>8. ASSUME Sound PROVE Sound'
  <2> USE <1>1, <1>2, <1>3, <1>8 DEF Sound, Alive
  <2>1. Reached'
    BY <1>4 DEF Reached, Numbered
  <2>2. OneSaver'
    BY <1>4 DEF OneSaver, Numbered
  <2>3. OthersSpent'
    BY <1>4 DEF OthersSpent, Numbered
  <2>4. FileFollows'
    BY <1>4 DEF FileFollows, Numbered
  <2>5. TornIsMended'
    BY DEF TornIsMended
  <2> QED BY <2>1, <2>2, <2>3, <2>4, <2>5
<1>9. ~slip' => ~slip
  BY Zenon
<1> QED BY <1>5, <1>6, <1>7, <1>8, <1>9 DEF AuthInv

(* A sign-in whose reply is lost. *)
LEMMA SignInLost ==
  ASSUME AuthInv, NEW p \in Proc, proc[p].at = "poll", Len(chains) < MaxLogins,
         chains' = Append(chains, 1), Ends(p), UNCHANGED <<credentials, slip, out>>
  PROVE  AuthInv'
<1>1. /\ proc' = [proc EXCEPT ![p] = Idle]
      /\ Idle \in Where /\ Idle.at = "idle" /\ Idle.held = NoSession
  BY EndsIdle DEF AuthInv
<1>2. proc' \in [Proc -> Where] /\ proc'[p] = Idle /\ \A q \in Proc : q # p => proc'[q] = proc[q]
  BY <1>1 DEF AuthInv, Places
<1>3. /\ chains' \in Seq(Nat) /\ Len(chains') = Len(chains) + 1 /\ Len(chains) \in Nat
      /\ \A j \in Nat \ {0} : j <= Len(chains) => chains'[j] = chains[j]
  BY ChainAdded, ChainFacts DEF AuthInv, Places
<1>4. Numbered
  BY AllNumbered
<1> USE DEF Renews, Saves
<1>5. Places'
  BY <1>2, <1>3 DEF AuthInv, Places
<1>6. Sessions'
  BY <1>1, <1>2, <1>3, <1>4, NoSessionFacts DEF AuthInv, Sessions, Numbered
<1>7. StaysOut'
  BY DEF AuthInv, StaysOut
<1>8. ASSUME Sound PROVE Sound'
  <2>1. \A q \in Proc : Renews(q)' \/ Renews(q) \/ Saves(q)' \/ Saves(q) => proc'[q] = proc[q]
    BY <1>1, <1>2
  <2>2. \A q \in Proc : Renews(q) => chains'[proc[q].held.chain] = chains[proc[q].held.chain]
    BY <1>3, <1>4 DEF Numbered
  <2>3. credentials.token # 0 => chains'[credentials.chain] = chains[credentials.chain]
    BY <1>3, <1>4 DEF Numbered
  <2>4. \A q \in Proc : Renews(q) => (Alive(proc[q].held)' <=> Alive(proc[q].held))
    BY <2>1, <2>2 DEF Alive
  <2>5. Alive(credentials)' <=> Alive(credentials)
    BY <2>3 DEF Alive
  <2>6. Reached'
    BY <1>8, <2>1, <2>2, <2>3 DEF Sound, Reached
  <2>7. OneSaver' /\ OthersSpent'
    BY <1>8, <2>1, <2>4 DEF Sound, OneSaver, OthersSpent
  <2>8. FileFollows'
    BY <1>8, <2>1, <2>5 DEF Sound, FileFollows
  <2>9. TornIsMended'
    BY <1>8, <2>1 DEF Sound, TornIsMended
  <2> QED BY <2>6, <2>7, <2>8, <2>9 DEF Sound
<1>9. ~slip' => ~slip
  BY Zenon
<1> QED BY <1>5, <1>6, <1>7, <1>8, <1>9 DEF AuthInv

(* A sign-in is handed over: a chain of its own, that nobody else has. *)
LEMMA Polls ==
  ASSUME AuthInv, NEW p \in Proc, PollForHandoff(p) PROVE AuthInv'
<1>1. proc[p].at = "poll" /\ UNCHANGED <<credentials, slip, out>>
  BY DEF PollForHandoff, Ghosts
<1>2. ASSUME NEW api \in Landfalls, Len(chains) < MaxLogins, chains' = Append(chains, 1),
             AtStep(p, "save", [api |-> api, chain |-> Len(chains) + 1, token |-> 1,
                                fresh |-> TRUE])
      PROVE  AuthInv'
  <2> DEFINE s == [api |-> api, chain |-> Len(chains) + 1, token |-> 1, fresh |-> TRUE]
  <2>1. Len(chains) + 1 \in Nat \ {0}
    BY ChainFacts DEF AuthInv, Places
  <2>2. s \in Signed /\ s.chain = Len(chains) + 1 /\ s.token = 1
    BY <2>1 DEF Signed
  <2>3. AtStep(p, "save", s)
    BY <1>2
  <2> HIDE DEF s
  <2> QED BY <1>1, <1>2, <2>2, <2>3, SignsIn
<1>3. CASE Ends(p) /\ UNCHANGED <<chains, mishaps>>
  <2>1. slip' \/ (~slip /\ ~Saves(p))
    <3>1. ~Saves(p)
      BY <1>1 DEF Saves
    <3>2. slip' = slip
      BY <1>1
    <3> QED BY <3>1, <3>2, Zenon
  <2> QED BY <1>1, <1>3, <2>1, Stops
<1>4. CASE Len(chains) < MaxLogins /\ chains' = Append(chains, 1) /\ Ends(p)
  BY <1>1, <1>4, SignInLost
<1> QED BY <1>2, <1>3, <1>4, Zenon DEF PollForHandoff

(* The file is truncated by the one who is to write it. *)
LEMMA Opens ==
  ASSUME AuthInv, NEW p \in Proc, Open(p) PROVE AuthInv'
<1> DEFINE v == [proc[p] EXCEPT !.at = "write", !.open = TRUE]
<1>1. proc[p].at = "save" /\ credentials' = Torn /\ chains' = chains /\ out' = out /\ slip' = slip
  BY DEF Open, Ghosts
<1>2. v \in Where /\ v.at = "write" /\ v.open /\ v.held = proc[p].held
  BY DEF AuthInv, Places, Where, Steps
<1>3. proc' = [proc EXCEPT ![p] = v]
  BY DEF Open, AuthInv, Places, Where
<1> HIDE DEF v
<1>4. proc' \in [Proc -> Where] /\ proc'[p] = v /\ \A q \in Proc : q # p => proc'[q] = proc[q]
  BY <1>2, <1>3 DEF AuthInv, Places
<1>5. Numbered
  BY AllNumbered
<1> USE DEF Renews, Saves
<1>6. Places' /\ Sessions'
  BY <1>1, <1>2, <1>4, <1>5, NoSessionFacts, ChainFacts DEF AuthInv, Places, Sessions, Numbered
<1>7. StaysOut'
  BY <1>1, <1>4 DEF AuthInv, StaysOut
<1>8. ASSUME Sound PROVE Sound'
  <2> USE <1>1, <1>2, <1>4, <1>8, NoSessionFacts DEF Sound, Alive
  <2>1. Reached' /\ OneSaver' /\ OthersSpent'
    BY DEF Reached, OneSaver, OthersSpent
  <2>2. FileFollows' /\ TornIsMended'
    BY <1>5 DEF FileFollows, TornIsMended, Numbered
  <2> QED BY <2>1, <2>2
<1>9. ~slip' => ~slip
  BY <1>1, Zenon
<1> QED BY <1>6, <1>7, <1>8, <1>9 DEF AuthInv

(* The file is written whole: what it had of that chain was spent. *)
LEMMA Writes ==
  ASSUME AuthInv, NEW p \in Proc, SaveSession(p) PROVE AuthInv'
<1> DEFINE v == IF proc[p].kind = "login" THEN Idle
                ELSE [proc[p] EXCEPT !.at = Uses(p), !.open = FALSE]
<1>1. proc[p].at = "write" /\ chains' = chains /\ out' = out
  BY DEF SaveSession
<1>2. v \in Where /\ v.at \in {"idle", "check", "slug"} /\ v.held \in {NoSession, proc[p].held}
  BY EndsIdle DEF AuthInv, Places, Where, Steps, Uses, Idle, Kinds
<1>3. proc' = [proc EXCEPT ![p] = v]
  BY Zenon DEF SaveSession
<1> HIDE DEF v
<1>4. proc' \in [Proc -> Where] /\ proc'[p] = v /\ \A q \in Proc : q # p => proc'[q] = proc[q]
  BY <1>2, <1>3 DEF AuthInv, Places
<1>5. Numbered
  BY AllNumbered
<1>6. credentials' \in {proc[p].held, credentials, Torn}
  BY DEF SaveSession
<1>7. ~slip' => ~slip /\ credentials' # Torn /\ credentials' \in {proc[p].held, credentials}
  <2>1. ~slip' => ~slip /\ credentials' # Torn
    BY Zenon DEF SaveSession
  <2> QED BY <1>6, <2>1
<1> USE DEF Renews, Saves
<1>8. proc[p].held \in Signed
  BY <1>1, NoSessionFacts DEF AuthInv, Places, Where, Sessions
<1>9. Places' /\ Sessions'
  <2>1. Places'
    BY <1>1, <1>4, <1>6, <1>8 DEF AuthInv, Places
  <2>2. credentials'.chain <= Len(chains)
    BY <1>5, <1>6, NoSessionFacts DEF Numbered
  <2>3. \A q \in Proc : /\ proc'[q].held.chain <= Len(chains)
                        /\ Renews(q)' => proc'[q].held.token # 0
    BY <1>2, <1>4, <1>5, NoSessionFacts DEF AuthInv, Sessions, Numbered
  <2> QED BY <1>1, <2>1, <2>2, <2>3 DEF Sessions
<1>10. StaysOut'
  BY <1>1 DEF AuthInv, StaysOut
<1>11. ASSUME Sound, credentials' # Torn, credentials' \in {proc[p].held, credentials}
       PROVE  Sound'
  <2> USE <1>1, <1>2, <1>4, <1>11 DEF Sound, Alive
  <2>1. Reached'
    BY DEF Reached
  <2>2. OneSaver' /\ OthersSpent' /\ TornIsMended'
    BY DEF OneSaver, OthersSpent, TornIsMended
  <2>3. FileFollows'
    <3>1. CASE credentials' = proc[p].held
      BY <3>1 DEF FileFollows, OneSaver
    <3>2. CASE credentials' = credentials
      BY <3>2 DEF FileFollows
    <3> QED BY <3>1, <3>2
  <2> QED BY <2>1, <2>2, <2>3
<1> QED BY <1>7, <1>9, <1>10, <1>11 DEF AuthInv

(* The file is removed under those who still hold a session. *)
LEMMA Removes ==
  ASSUME AuthInv, NEW p \in Proc, credentials' = NoFile, chains' = chains, slip' = slip,
         proc' = [q \in Proc |-> IF q = p THEN Idle ELSE [proc[q] EXCEPT !.open = FALSE]],
         out' = "alone" => \A q \in Proc \ {p} : ~Busy(q)
  PROVE  AuthInv'
<1>1. Idle \in Where /\ Idle.at = "idle" /\ Idle.held = NoSession
  BY DEF Idle, Where, Kinds, Steps
<1>2. \A q \in Proc : q # p => /\ proc'[q] \in Where
                              /\ proc'[q].at = proc[q].at /\ proc'[q].held = proc[q].held
  <2> SUFFICES ASSUME NEW q \in Proc, q # p
               PROVE  /\ proc'[q] \in Where
                      /\ proc'[q].at = proc[q].at /\ proc'[q].held = proc[q].held
    OBVIOUS
  <2>1. proc'[q] = [proc[q] EXCEPT !.open = FALSE] /\ proc[q] \in Where
    BY DEF AuthInv, Places
  <2> QED BY <2>1 DEF Where
<1>3. proc' \in [Proc -> Where] /\ proc'[p] = Idle
  BY <1>1, <1>2
<1>4. Numbered
  BY AllNumbered
<1> USE DEF Renews, Saves, NoFile
<1>5. Places' /\ Sessions'
  BY <1>1, <1>2, <1>3, <1>4, NoSessionFacts, ChainFacts DEF AuthInv, Places, Sessions, Numbered
<1>6. StaysOut'
  BY <1>1, <1>2, <1>3 DEF StaysOut, Busy
<1>7. ASSUME Sound PROVE Sound'
  <2> USE <1>1, <1>2, <1>3, <1>7, NoSessionFacts DEF Sound, Alive
  <2>1. Reached' /\ OneSaver' /\ OthersSpent'
    BY DEF Reached, OneSaver, OthersSpent
  <2>2. FileFollows' /\ TornIsMended'
    BY <1>4 DEF FileFollows, TornIsMended, Numbered
  <2> QED BY <2>1, <2>2
<1>8. ~slip' => ~slip
  BY Zenon
<1> QED BY <1>5, <1>6, <1>7, <1>8 DEF AuthInv

(* `logout` reads, revokes and removes. *)
LEMMA LogsOut ==
  ASSUME AuthInv, NEW p \in Proc, Logout(p) PROVE AuthInv'
<1>1. CASE /\ proc[p].at = "read"
           /\ AtStep(p, IF ReadCache = NoSession THEN "remove" ELSE "revoke", ReadCache)
           /\ UNCHANGED <<credentials, chains, slip, out>>
  <2> DEFINE step == IF ReadCache = NoSession THEN "remove" ELSE "revoke"
  <2>1. ~Saves(p) /\ step \in Steps \ {"asked", "save", "write", "poll"}
    BY <1>1 DEF Saves, Steps
  <2>2. ReadCache \in Signed \cup {NoSession} /\ ReadCache.chain <= Len(chains)
    BY ReadCacheFacts DEF AuthInv
  <2>3. AtStep(p, step, ReadCache)
    BY <1>1
  <2> HIDE DEF step
  <2> QED BY <1>1, <2>1, <2>2, <2>3, Steps1
<1>2. CASE /\ proc[p].at = "revoke"
           /\ chains' \in {chains, [chains EXCEPT ![proc[p].held.chain] = 0]}
           /\ AtStep(p, "remove", NoSession)
           /\ slip' = TRUE
           /\ UNCHANGED <<credentials, out>>
  <2>1. PICK v \in Where : proc' = [proc EXCEPT ![p] = v] /\ v.at = "remove" /\ v.held = NoSession
    BY <1>2, StepsTo DEF AuthInv, Steps
  <2>2. proc' \in [Proc -> Where] /\ proc'[p] = v /\ \A q \in Proc : q # p => proc'[q] = proc[q]
    BY <2>1 DEF AuthInv, Places
  <2>3. chains' \in Seq(Nat) /\ Len(chains') = Len(chains) /\ Len(chains) \in Nat
    <3>1. CASE chains' = chains
      BY <3>1, ChainFacts DEF AuthInv, Places
    <3>2. CASE chains' = [chains EXCEPT ![proc[p].held.chain] = 0] /\ proc[p].held.chain # 0
      BY <3>2, AllNumbered, ChainSet, ChainFacts DEF AuthInv, Places, Numbered
    <3>3. CASE chains' = [chains EXCEPT ![proc[p].held.chain] = 0] /\ proc[p].held.chain = 0
      <4>1. Len(chains) \in Nat /\ DOMAIN chains = 1..Len(chains)
        BY LenProperties DEF AuthInv, Places
      <4>2. chains' = chains
        BY <3>3, <4>1 DEF AuthInv, Places
      <4> QED BY <4>1, <4>2 DEF AuthInv, Places
    <3> QED BY <1>2, <3>1, <3>2, <3>3
  <2>4. Places' /\ Sessions' /\ StaysOut'
    BY <1>2, <2>1, <2>2, <2>3, NoSessionFacts
       DEF AuthInv, Places, Sessions, StaysOut, Renews
  <2> QED BY <1>2, <2>4, Zenon DEF AuthInv
<1>3. CASE /\ credentials' = NoFile
           /\ out' = IF \E q \in Proc \ {p} : Busy(q) /\ proc[q].kind = "login" THEN "no"
                     ELSE IF \E q \in Proc \ {p} : Busy(q) THEN "overlapped"
                     ELSE "alone"
           /\ proc' = [q \in Proc |-> IF q = p THEN Idle ELSE [proc[q] EXCEPT !.open = FALSE]]
           /\ UNCHANGED <<chains, slip>>
  <2>1. out' = "alone" => \A q \in Proc \ {p} : ~Busy(q)
    BY <1>3
  <2> QED BY <1>3, <2>1, Removes
<1> QED BY <1>1, <1>2, <1>3, Zenon DEF Logout

(* The organization is resolved, and the command ends. *)
LEMMA Resolves ==
  ASSUME AuthInv, NEW p \in Proc, ResolveConfig(p) \/ ResolveTarget(p) PROVE AuthInv'
<1>1. /\ proc[p].at \in {"check", "slug"} /\ Ends(p)
      /\ UNCHANGED <<credentials, chains>> /\ out' = out /\ slip' = slip
  BY DEF ResolveConfig, ResolveTarget
<1>2. ~Saves(p)
  BY <1>1 DEF Saves
<1>3. slip' \/ (~slip /\ ~Saves(p))
  BY <1>1, <1>2, Zenon
<1> QED BY <1>1, <1>3, Stops

(* A process dies, with a slip if it was at a renewal or a write. *)
LEMMA Dies ==
  ASSUME AuthInv, NEW p \in Proc, Killed(p) PROVE AuthInv'
<1>1. Ends(p) /\ UNCHANGED <<credentials, chains>> /\ out' = out
  BY DEF Killed
<1>2. slip' \/ (~slip /\ ~Busy(p))
  BY Zenon DEF Killed
<1>3. Saves(p) => Busy(p)
  BY DEF Saves, Busy
<1> QED BY <1>1, <1>2, <1>3, Stops

(* The access token on file lapses; the chain is untouched. *)
LEMMA Expires ==
  ASSUME AuthInv, Expire PROVE AuthInv'
<1>1. /\ UNCHANGED <<chains, proc>> /\ out' = out /\ slip' = slip
      /\ credentials' = [credentials EXCEPT !.fresh = FALSE] /\ ReadCache # NoSession
  BY DEF Expire, Ghosts
<1>2. credentials \in Signed
  BY <1>1, ReadCacheFacts DEF AuthInv
<1>3. /\ credentials' \in Signed /\ credentials'.chain = credentials.chain
      /\ credentials'.token = credentials.token
  BY <1>1, <1>2 DEF Signed
<1>4. credentials # NoFile /\ credentials' # Torn
  BY <1>2, <1>3, NoSessionFacts DEF NoFile
<1>5. Places' /\ Sessions' /\ StaysOut'
  BY <1>1, <1>3, <1>4 DEF AuthInv, Places, Sessions, StaysOut, Renews
<1>6. ASSUME Sound PROVE Sound'
  BY <1>1, <1>3, <1>4, <1>6 DEF Sound, Reached, OneSaver, OthersSpent, FileFollows,
    TornIsMended, Renews, Saves, Alive
<1>7. ~slip' => ~slip
  BY <1>1, Zenon
<1> QED BY <1>5, <1>6, <1>7 DEF AuthInv

(* A step of any process keeps the invariant. *)
LEMMA NextAuthed == AuthInv /\ [NextAuth]_authVars => AuthInv'
<1> SUFFICES ASSUME AuthInv, [NextAuth]_authVars PROVE AuthInv'
  OBVIOUS
<1>1. CASE UNCHANGED authVars
  BY <1>1 DEF authVars, AuthInv, Places, Sessions, StaysOut, Sound, Reached, OneSaver,
    OthersSpent, FileFollows, TornIsMended, Renews, Saves, Alive
<1>2. ASSUME NEW p \in Proc, NEW kind \in {"join", "act", "login", "logout"},
             StartCommand(p, kind)
      PROVE  AuthInv'
  BY <1>2, Begins
<1>3. ASSUME NEW p \in Proc, GetCachedAccessToken(p) PROVE AuthInv'
  BY <1>3, Reads
<1>4. ASSUME NEW p \in Proc, RefreshAccessToken(p) PROVE AuthInv'
  BY <1>4, Asks
<1>5. ASSUME NEW p \in Proc, Refreshed(p) PROVE AuthInv'
  BY <1>5, Refreshes
<1>6. ASSUME NEW p \in Proc, PollForHandoff(p) PROVE AuthInv'
  BY <1>6, Polls
<1>7. ASSUME NEW p \in Proc, Open(p) PROVE AuthInv'
  BY <1>7, Opens
<1>8. ASSUME NEW p \in Proc, SaveSession(p) PROVE AuthInv'
  BY <1>8, Writes
<1>9. ASSUME NEW p \in Proc, ResolveConfig(p) \/ ResolveTarget(p) PROVE AuthInv'
  BY <1>9, Resolves
<1>10. ASSUME NEW p \in Proc, Logout(p) PROVE AuthInv'
  BY <1>10, LogsOut
<1>11. ASSUME NEW p \in Proc, Killed(p) PROVE AuthInv'
  BY <1>11, Dies
<1>12. CASE Expire
  BY <1>12, Expires
<1> QED BY <1>1, <1>2, <1>3, <1>4, <1>5, <1>6, <1>7, <1>8, <1>9, <1>10, <1>11, <1>12
        DEF NextAuth

(* However commands, renewals, sign-ins and sign-outs overlap on the one    *)
(* file: once nobody is at it, it is whole, and its token is the live one  *)
(* of its chain, unless a reply or a process was lost or two writes or a   *)
(* sign-out overlapped; and who signed out with nobody past a renewal      *)
(* stays signed out.                                                       *)
THEOREM SessionsAreKept == SpecAuth => []SignInKeeps
<1>1. AuthInv => SignInKeeps
  <2> SUFFICES ASSUME AuthInv PROVE SessionSurvives /\ SignedOutStays
    BY DEF SignInKeeps
  <2>1. SignedOutStays
    BY DEF AuthInv, StaysOut, SignedOutStays
  <2>2. ASSUME Quiet, ~slip
        PROVE  credentials # Torn /\ (credentials.token # 0 => Alive(credentials))
    <3>1. \A q \in Proc : proc[q].at \notin {"save", "write"}
      BY <2>2 DEF Quiet, Busy
    <3>2. FileFollows /\ TornIsMended
      BY <2>2 DEF AuthInv, Sound
    <3> QED BY <3>1, <3>2 DEF FileFollows, TornIsMended
  <2> QED BY <2>1, <2>2 DEF SessionSurvives
<1> QED BY <1>1, InitAuthed, NextAuthed, PTL DEF SpecAuth

HIDE AuthAssumption

-----------------------------------------------------------------------------
(* `landfall connect`.                                                     *)

Words ==
  {"nothing", "fix your AWS tools", "by hand", "run again", "no ARN", "nothing was changed",
   "registering failed", "connected", "not healthy"}

(* A run of `landfall connect`, and what holds of the runs under way.      *)
Runs ==
  [at : {"idle", "preflight", "template", "deploy", "read", "prompt", "list", "register",
         "health"},
   name : Names, account : Names, id : Nat, tf : BOOLEAN, free : BOOLEAN, clean : BOOLEAN,
   says : Words]

RunsAre ==
  /\ role \in [Account -> Nat] /\ run \in [Run -> Runs] /\ ids \in Nat
  /\ \A p \in Run : Going(p) => run[p].account \in Account
  /\ \A p \in Run : run[p].at = "prompt" => run[p].tf

(* A run that nothing disturbed is the only one, *)
Alone == \A p, q \in Run : Going(p) /\ run[p].clean /\ Going(q) => p = q
(* the role it made trusts its id, *)
RoleIsOurs ==
  \A p \in Run :
    run[p].at \in {"read", "list", "register", "health"} /\ run[p].clean /\ ~run[p].tf =>
      role[run[p].account] = run[p].id
(* a name that was free is free until it registers, *)
StillFree ==
  \A p \in Run : Going(p) /\ run[p].at # "health" /\ run[p].clean /\ run[p].free =>
                   run[p].name \notin DOMAIN conns
(* and then the connection of that name is the run's own. *)
ConnIsOurs ==
  \A p \in Run : run[p].at = "health" /\ run[p].clean =>
    /\ run[p].name \in DOMAIN conns
    /\ conns[run[p].name].account = run[p].account /\ conns[run[p].name].id = run[p].id

ConnectInv == RunsAre /\ Alone /\ RoleIsOurs /\ StillFree /\ ConnIsOurs /\ ConnectResumes

USE ConnectAssumption

(* At first there is no role, no connection and no run. *)
LEMMA InitConnected == InitConnect => ConnectInv
<1> SUFFICES ASSUME InitConnect PROVE ConnectInv
  OBVIOUS
<1>1. NoRun \in Runs /\ NoRun.at = "idle" /\ NoRun.says = "nothing"
  BY DEF NoRun, Runs, Names, Words
<1>2. run = [p \in Run |-> NoRun] /\ role = [a \in Account |-> 0] /\ ids = 0
  BY DEF InitConnect
<1>3. run \in [Run -> Runs] /\ \A p \in Run : run[p].at = "idle" /\ run[p].says = "nothing"
  BY <1>1, <1>2, Zenon
<1> QED BY <1>2, <1>3 DEF ConnectInv, RunsAre, Going, Alone, RoleIsOurs, StillFree, ConnIsOurs,
          ConnectResumes

(* A step of a run that is under way: only the run itself has to answer    *)
(* for what becomes of the role and of the connections, for no other that  *)
(* is under way is undisturbed.                                            *)
LEMMA OwnStep ==
  ASSUME ConnectInv, NEW p \in Run, Going(p), NEW v \in Runs, run' = [run EXCEPT ![p] = v],
         role' \in [Account -> Nat], ids' \in Nat,
         v.at # "idle" => v.account \in Account /\ (v.clean => run[p].clean),
         v.at = "prompt" => v.tf,
         v.at \in {"read", "list", "register", "health"} /\ v.clean /\ ~v.tf =>
           role'[v.account] = v.id,
         v.at \notin {"idle", "health"} /\ v.clean /\ v.free => v.name \notin DOMAIN conns',
         v.at = "health" /\ v.clean =>
           /\ v.name \in DOMAIN conns'
           /\ conns'[v.name].account = v.account /\ conns'[v.name].id = v.id,
         v.at = "idle" /\ v.clean /\ v.free /\ ~v.tf => v.says = "connected"
  PROVE  ConnectInv'
<1> USE DEF ConnectInv, RunsAre, Going
<1>1. run' \in [Run -> Runs] /\ run'[p] = v /\ \A q \in Run : q # p => run'[q] = run[q]
  OBVIOUS
<1>2. \A q \in Run : q # p => run[q].at = "idle" \/ ~run[q].clean
  BY DEF Alone
<1>3. RunsAre' /\ Alone'
  BY <1>1, <1>2 DEF Alone
<1>4. RoleIsOurs' /\ StillFree'
  BY <1>1, <1>2 DEF RoleIsOurs, StillFree
<1>5. ConnIsOurs'
  BY <1>1, <1>2 DEF ConnIsOurs
<1>6. ConnectResumes'
  BY <1>1, <1>2 DEF ConnectResumes
<1> QED BY <1>3, <1>4, <1>5, <1>6

(* A run that ends without a connection that works was disturbed, or its   *)
(* name was taken, or the person made the role.                            *)
LEMMA RunEnds ==
  ASSUME ConnectInv, NEW p \in Run, Going(p), NEW words \in Words, NEW c \in BOOLEAN,
         run' = Ended(p, words, c), role' \in [Account -> Nat], ids' \in Nat,
         c /\ run[p].free /\ ~run[p].tf => words = "connected"
  PROVE  ConnectInv'
<1> DEFINE v == [NoRun EXCEPT !.free = run[p].free, !.tf = run[p].tf, !.clean = c,
                              !.says = words]
<1>1. run[p] \in Runs
  BY DEF ConnectInv, RunsAre
<1>2. v \in Runs /\ v.at = "idle" /\ v.free = run[p].free /\ v.tf = run[p].tf
        /\ v.clean = c /\ v.says = words
  BY <1>1 DEF NoRun, Runs, Names, Words
<1>3. run' = [run EXCEPT ![p] = v]
  BY DEF Ended
<1> HIDE DEF v
<1> QED BY <1>2, <1>3, OwnStep

(* A run that goes on to its next step. *)
LEMMA RunGoesOn ==
  ASSUME ConnectInv, NEW p \in Run, Going(p), NEW step \in {"template", "deploy", "read", "list",
           "register", "health"},
         Onto(p, step), role' \in [Account -> Nat], ids' \in Nat,
         step \in {"read", "list", "register", "health"} /\ run[p].clean /\ ~run[p].tf =>
           role'[run[p].account] = run[p].id,
         step # "health" /\ run[p].clean /\ run[p].free => run[p].name \notin DOMAIN conns',
         step = "health" /\ run[p].clean =>
           /\ run[p].name \in DOMAIN conns'
           /\ conns'[run[p].name].account = run[p].account
           /\ conns'[run[p].name].id = run[p].id
  PROVE  ConnectInv'
<1> DEFINE v == [run[p] EXCEPT !.at = step]
<1>1. run[p] \in Runs /\ run[p].account \in Account
  BY DEF ConnectInv, RunsAre
<1>2. v \in Runs /\ v.at = step /\ v.name = run[p].name /\ v.account = run[p].account
        /\ v.id = run[p].id /\ v.free = run[p].free /\ v.tf = run[p].tf
        /\ v.clean = run[p].clean /\ v.says = run[p].says
  BY <1>1 DEF Runs
<1>3. run' = [run EXCEPT ![p] = v]
  BY DEF Onto
<1> HIDE DEF v
<1> QED BY <1>1, <1>2, <1>3, OwnStep

(* A run that a fault ends says so, and is not undisturbed any more. *)
LEMMA RunBreaks ==
  ASSUME ConnectInv, NEW p \in Run, Going(p), NEW words \in Words, Breaks(p, words),
         role' \in [Account -> Nat], ids' \in Nat
  PROVE  ConnectInv'
BY RunEnds DEF Breaks

-----------------------------------------------------------------------------
(* A run that is disturbed while it is under way is not clean any more. *)
LEMMA Disturbed ==
  ASSUME run \in [Run -> Runs], NEW q \in Run
  PROVE  LET v == [run[q] EXCEPT !.clean = @ /\ ~Going(q)] IN
         /\ v \in Runs /\ v.at = run[q].at /\ v.tf = run[q].tf /\ v.free = run[q].free
         /\ v.says = run[q].says /\ v.account = run[q].account
         /\ (v.clean => run[q].clean /\ ~Going(q))
<1> DEFINE c == run[q].clean /\ ~Going(q)
<1>1. run[q] \in Runs
  OBVIOUS
<1>2. c \in BOOLEAN /\ (c => run[q].clean /\ ~Going(q))
  OBVIOUS
<1>3. [run[q] EXCEPT !.clean = @ /\ ~Going(q)] = [run[q] EXCEPT !.clean = c]
  OBVIOUS
<1> HIDE DEF c
<1>4. LET v == [run[q] EXCEPT !.clean = c] IN
        /\ v \in Runs /\ v.at = run[q].at /\ v.tf = run[q].tf /\ v.free = run[q].free
        /\ v.says = run[q].says /\ v.account = run[q].account /\ v.clean = c
  BY <1>1, <1>2 DEF Runs
<1> QED BY <1>2, <1>3, <1>4, Zenon

(* A new run disturbs those that are under way. *)
LEMMA ConnectStarts ==
  ASSUME ConnectInv, NEW p \in Run, NEW a \in Account, NEW n \in {a, Other}, NEW tf \in BOOLEAN,
         StartConnect(p, a, n, tf)
  PROVE  ConnectInv'
<1> DEFINE v == [at |-> IF tf THEN "prompt" ELSE "preflight", name |-> n, account |-> a,
                 id |-> ids + 1, tf |-> tf, free |-> n \notin DOMAIN conns,
                 clean |-> \A q \in Run : ~Going(q), says |-> "nothing"]
<1>1. ids \in Nat /\ run \in [Run -> Runs] /\ role \in [Account -> Nat]
  BY DEF ConnectInv, RunsAre
<1>2. (n \notin DOMAIN conns) \in BOOLEAN /\ (\A q \in Run : ~Going(q)) \in BOOLEAN
  OBVIOUS
<1>3. v \in Runs
  <2>1. \A at \in {"prompt", "preflight"} : \A t, free, clean \in BOOLEAN :
          [at |-> at, name |-> n, account |-> a, id |-> ids + 1, tf |-> t, free |-> free,
           clean |-> clean, says |-> "nothing"] \in Runs
    <3>1. n \in Names /\ a \in Names /\ ids + 1 \in Nat /\ "nothing" \in Words
      BY <1>1 DEF Names, Words
    <3> QED BY <3>1, Zenon DEF Runs
  <2>2. (IF tf THEN "prompt" ELSE "preflight") \in {"prompt", "preflight"}
    OBVIOUS
  <2> QED BY <1>2, <2>1, <2>2, Zenon
<1>4. v.at \in {"prompt", "preflight"} /\ (v.at = "prompt" => v.tf) /\ v.account \in Account
        /\ v.says = "nothing"
  OBVIOUS
<1>5. v.name = n /\ (v.free => n \notin DOMAIN conns) /\ (v.clean => \A q \in Run : ~Going(q))
  OBVIOUS
<1>6. UNCHANGED <<role, conns>> /\ ids' = ids + 1 /\ run' = [Overlaps(p) EXCEPT ![p] = v]
  BY DEF StartConnect
<1> HIDE DEF v
<1>7. run'[p] = v
  BY <1>6 DEF Overlaps
<1>8. \A q \in Run : q # p => run'[q] = [run[q] EXCEPT !.clean = @ /\ ~Going(q)]
  BY <1>6 DEF Overlaps
<1>9. \A q \in Run : [run[q] EXCEPT !.clean = @ /\ ~Going(q)] \in Runs
  BY <1>1, Disturbed
<1>10. run' \in [Run -> Runs]
  <2>1. run' = [q \in Run |-> IF q = p THEN v ELSE [run[q] EXCEPT !.clean = @ /\ ~Going(q)]]
    BY <1>6 DEF Overlaps
  <2> QED BY <2>1, <1>3, <1>9, Zenon
<1>11. \A q \in Run : q # p =>
         /\ run'[q].at = run[q].at /\ run'[q].tf = run[q].tf /\ run'[q].free = run[q].free
         /\ run'[q].says = run[q].says /\ run'[q].account = run[q].account
         /\ (run'[q].clean => run[q].clean /\ ~Going(q))
  BY <1>1, <1>8, Disturbed
<1> USE DEF ConnectInv, Going
<1>12. RunsAre'
  BY <1>1, <1>4, <1>6, <1>7, <1>10, <1>11 DEF RunsAre
<1>13. Alone'
  BY <1>5, <1>7, <1>11 DEF Alone
<1>14. RoleIsOurs' /\ StillFree' /\ ConnIsOurs'
  BY <1>4, <1>5, <1>6, <1>7, <1>11 DEF RoleIsOurs, StillFree, ConnIsOurs
<1>15. ConnectResumes'
  BY <1>4, <1>7, <1>11 DEF ConnectResumes
<1> QED BY <1>12, <1>13, <1>14, <1>15

(* The steps that change nothing but where the run is. *)
LEMMA StepsPass ==
  ASSUME ConnectInv, NEW p \in Run, awsPreflight(p) \/ fetchTemplate(p) \/ readRoleArn(p)
  PROVE  ConnectInv'
<1> USE DEF ConnectInv, RunsAre, Going
<1>1. UNCHANGED <<role, conns, ids>>
  BY DEF awsPreflight, fetchTemplate, readRoleArn
<1>2. Going(p) /\ \/ run[p].at = "preflight" /\ Step(p, "template", "fix your AWS tools")
                  \/ run[p].at = "template" /\ Step(p, "deploy", "by hand")
                  \/ run[p].at = "read" /\ Step(p, "list", "run again")
  BY DEF awsPreflight, fetchTemplate, readRoleArn
<1>3. run[p].clean /\ run[p].free => run[p].name \notin DOMAIN conns
  BY <1>2 DEF StillFree
<1>4. run[p].at = "read" /\ run[p].clean /\ ~run[p].tf => role[run[p].account] = run[p].id
  BY DEF RoleIsOurs
<1>5. CASE \E words \in Words : Breaks(p, words)
  BY <1>1, <1>2, <1>5, RunBreaks DEF Words
<1>6. CASE Onto(p, "template")
  BY <1>1, <1>2, <1>3, <1>6, RunGoesOn
<1>7. CASE Onto(p, "deploy")
  BY <1>1, <1>2, <1>3, <1>7, RunGoesOn
<1>8. CASE run[p].at = "read" /\ Onto(p, "list")
  BY <1>1, <1>2, <1>3, <1>4, <1>8, RunGoesOn
<1> QED BY <1>2, <1>5, <1>6, <1>7, <1>8 DEF Step, Words

(* What a deployment makes of an account's role. *)
LEMMA DeployMakes ==
  ASSUME ConnectInv, NEW p \in Run, Going(p)
  PROVE  LET d == deploy(run[p].account, run[p].id) IN
         d \in [Account -> Nat] /\ d[run[p].account] = run[p].id
<1>1. run[p] \in Runs /\ run[p].account \in Account /\ role \in [Account -> Nat]
  BY DEF ConnectInv, RunsAre
<1> QED BY <1>1 DEF deploy, Runs

(* The role is made or updated, and trusts the id of this run. *)
LEMMA RoleDeployed ==
  ASSUME ConnectInv, NEW p \in Run, deployRoleStack(p)
  PROVE  ConnectInv'
<1>1. Going(p) /\ UNCHANGED <<conns, ids>> /\ ids \in Nat /\ role \in [Account -> Nat]
  BY DEF deployRoleStack, Going, ConnectInv, RunsAre
<1>2. run[p].clean /\ run[p].free => run[p].name \notin DOMAIN conns
  BY DEF ConnectInv, StillFree, deployRoleStack, Going
<1>3. CASE role' = deploy(run[p].account, run[p].id) /\ Onto(p, "read")
  BY <1>1, <1>2, <1>3, DeployMakes, RunGoesOn
<1>4. CASE role' \in {role, deploy(run[p].account, run[p].id)} /\ Breaks(p, "run again")
  BY <1>1, <1>4, DeployMakes, RunBreaks DEF Words
<1> QED BY <1>3, <1>4 DEF deployRoleStack

(* The person made the role, or pasted one, or gave up. *)
LEMMA PromptAnswered ==
  ASSUME ConnectInv, NEW p \in Run, Prompt(p)
  PROVE  ConnectInv'
<1>1. Going(p) /\ UNCHANGED <<conns, ids>> /\ ids \in Nat /\ role \in [Account -> Nat]
        /\ run[p].tf /\ run[p].clean \in BOOLEAN
  BY DEF Prompt, Going, ConnectInv, RunsAre, Runs
<1>2. run[p].clean /\ run[p].free => run[p].name \notin DOMAIN conns
  BY DEF ConnectInv, StillFree, Prompt, Going
<1>3. role' \in [Account -> Nat]
  BY <1>1, DeployMakes DEF Prompt
<1>4. CASE Onto(p, "list")
  BY <1>1, <1>2, <1>3, <1>4, RunGoesOn
<1>5. CASE Says(p, "no ARN")
  BY <1>1, <1>3, <1>5, RunEnds DEF Says, Words
<1> QED BY <1>4, <1>5 DEF Prompt

(* The names that are taken are looked at. *)
LEMMA NameChecked ==
  ASSUME ConnectInv, NEW p \in Run, Collides(p)
  PROVE  ConnectInv'
<1>1. Going(p) /\ UNCHANGED <<role, conns, ids>> /\ ids \in Nat /\ role \in [Account -> Nat]
        /\ run[p] \in Runs /\ run[p].account \in Account /\ run[p].at = "list"
  BY DEF Collides, Going, ConnectInv, RunsAre
<1>2. run[p].clean /\ run[p].free => run[p].name \notin DOMAIN conns
  BY <1>1 DEF ConnectInv, StillFree
<1>3. run[p].clean /\ ~run[p].tf => role[run[p].account] = run[p].id
  BY <1>1 DEF ConnectInv, RoleIsOurs
<1>4. CASE run[p].name \in DOMAIN conns /\ Says(p, "nothing was changed")
  <2>1. run[p].clean \in BOOLEAN
    BY <1>1 DEF Runs
  <2> QED BY <1>1, <1>2, <1>4, <2>1, RunEnds DEF Says, Words
<1>5. CASE Onto(p, "register")
  BY <1>1, <1>2, <1>3, <1>5, RunGoesOn
<1>6. CASE run' = [run EXCEPT ![p].at = "register", ![p].clean = FALSE]
  <2> DEFINE v == [run[p] EXCEPT !.at = "register", !.clean = FALSE]
  <2>1. v \in Runs /\ v.at = "register" /\ v.account = run[p].account /\ ~v.clean
    BY <1>1 DEF Runs
  <2>2. run' = [run EXCEPT ![p] = v]
    BY <1>6
  <2> HIDE DEF v
  <2> QED BY <1>1, <2>1, <2>2, OwnStep
<1> QED BY <1>4, <1>5, <1>6 DEF Collides

(* The name is registered, when nobody has it. *)
LEMMA NameRegistered ==
  ASSUME ConnectInv, NEW p \in Run, Register(p)
  PROVE  ConnectInv'
<1>1. Going(p) /\ UNCHANGED <<role, ids>> /\ ids \in Nat /\ role \in [Account -> Nat]
        /\ run[p] \in Runs /\ run[p].at = "register"
  BY DEF Register, Going, ConnectInv, RunsAre
<1>2. run[p].clean /\ run[p].free => run[p].name \notin DOMAIN conns
  BY <1>1 DEF ConnectInv, StillFree, Going
<1>3. run[p].clean /\ ~run[p].tf => role[run[p].account] = run[p].id
  BY <1>1 DEF ConnectInv, RoleIsOurs
<1>4. CASE conns' = Registered(p) /\ Onto(p, "health")
  <2>1. /\ run[p].name \in DOMAIN conns'
        /\ conns'[run[p].name].account = run[p].account /\ conns'[run[p].name].id = run[p].id
    BY <1>4 DEF Registered
  <2> QED BY <1>1, <1>3, <1>4, <2>1, RunGoesOn
<1>5. CASE run[p].name \in DOMAIN conns /\ Says(p, "registering failed")
  <2>1. run[p].clean \in BOOLEAN
    BY <1>1 DEF Runs
  <2> QED BY <1>1, <1>2, <1>5, <2>1, RunEnds DEF Says, Words
<1>6. CASE Breaks(p, "registering failed")
  BY <1>1, <1>6, RunBreaks DEF Words
<1> QED BY <1>4, <1>5, <1>6 DEF Register

(* The connection is tried: it works when nothing disturbed the run. *)
LEMMA HealthChecked ==
  ASSUME ConnectInv, NEW p \in Run, HealthCheck(p)
  PROVE  ConnectInv'
<1>1. Going(p) /\ UNCHANGED <<role, conns, ids>> /\ ids \in Nat /\ role \in [Account -> Nat]
        /\ run[p].at = "health" /\ run[p].clean \in BOOLEAN
  BY DEF HealthCheck, Going, ConnectInv, RunsAre, Runs
<1>2. run[p].clean /\ ~run[p].tf => Healthy(run[p].name)
  BY <1>1 DEF ConnectInv, RoleIsOurs, ConnIsOurs, Healthy
<1>3. CASE Says(p, "connected")
  BY <1>1, <1>3, RunEnds DEF Says, Words
<1>4. CASE ~Healthy(run[p].name) /\ Says(p, "not healthy")
  BY <1>1, <1>2, <1>4, RunEnds DEF Says, Words
<1>5. CASE Breaks(p, "not healthy")
  BY <1>1, <1>5, RunBreaks DEF Words
<1> QED BY <1>3, <1>4, <1>5 DEF HealthCheck

(* A connection that is removed disturbs every run. *)
LEMMA ConnectionRemoved ==
  ASSUME ConnectInv, NEW n \in Names, Remove(n)
  PROVE  ConnectInv'
<1> USE DEF ConnectInv, Going
<1>1. UNCHANGED <<role, ids>> /\ run \in [Run -> Runs]
  BY DEF Remove, RunsAre
<1>2. \A q \in Run : run'[q] = [run[q] EXCEPT !.clean = @ /\ ~Going(q)]
  BY DEF Remove
<1>3. \A q \in Run : [run[q] EXCEPT !.clean = @ /\ ~Going(q)] \in Runs
  BY <1>1, Disturbed
<1>4. run' \in [Run -> Runs]
  BY <1>3, Zenon DEF Remove
<1>5. \A q \in Run :
         /\ run'[q].at = run[q].at /\ run'[q].tf = run[q].tf /\ run'[q].free = run[q].free
         /\ run'[q].says = run[q].says /\ run'[q].account = run[q].account
         /\ (run'[q].clean => run[q].clean /\ ~Going(q))
  BY <1>1, <1>2, Disturbed
<1>6. RunsAre' /\ Alone'
  BY <1>1, <1>4, <1>5 DEF RunsAre, Alone
<1>7. RoleIsOurs' /\ StillFree' /\ ConnIsOurs' /\ ConnectResumes'
  BY <1>5 DEF RoleIsOurs, StillFree, ConnIsOurs, ConnectResumes
<1> QED BY <1>6, <1>7

(* A step of any run, or of the person, keeps the invariant. *)
LEMMA ConnectStep == ConnectInv /\ [NextConnect]_connectVars => ConnectInv'
<1> SUFFICES ASSUME ConnectInv, [NextConnect]_connectVars PROVE ConnectInv'
  OBVIOUS
<1>1. CASE UNCHANGED connectVars
  BY <1>1 DEF connectVars, ConnectInv, RunsAre, Going, Alone, RoleIsOurs, StillFree, ConnIsOurs,
     ConnectResumes
<1>2. ASSUME NEW p \in Run, NEW a \in Account, NEW n \in {a, Other}, NEW tf \in BOOLEAN,
             StartConnect(p, a, n, tf)
      PROVE  ConnectInv'
  BY <1>2, ConnectStarts
<1>3. ASSUME NEW p \in Run, awsPreflight(p) \/ fetchTemplate(p) \/ readRoleArn(p)
      PROVE  ConnectInv'
  BY <1>3, StepsPass
<1>4. ASSUME NEW p \in Run, deployRoleStack(p) PROVE ConnectInv'
  BY <1>4, RoleDeployed
<1>5. ASSUME NEW p \in Run, Prompt(p) PROVE ConnectInv'
  BY <1>5, PromptAnswered
<1>6. ASSUME NEW p \in Run, Collides(p) PROVE ConnectInv'
  BY <1>6, NameChecked
<1>7. ASSUME NEW p \in Run, Register(p) PROVE ConnectInv'
  BY <1>7, NameRegistered
<1>8. ASSUME NEW p \in Run, HealthCheck(p) PROVE ConnectInv'
  BY <1>8, HealthChecked
<1>9. ASSUME NEW n \in Names, Remove(n) PROVE ConnectInv'
  BY <1>9, ConnectionRemoved
<1> QED BY <1>1, <1>2, <1>3, <1>4, <1>5, <1>6, <1>7, <1>8, <1>9, Zenon DEF NextConnect

(* Whatever earlier runs left half done, `landfall connect` that is run     *)
(* again for a name that is not taken, undisturbed and without a fault,     *)
(* ends with a connection that works: its own role trusts its own id until  *)
(* the health check, for any number of runs and accounts.                   *)
THEOREM RunningAgainConnects == SpecConnect => []ConnectResumes
<1>1. ConnectInv => ConnectResumes
  BY DEF ConnectInv
<1> QED BY <1>1, InitConnected, ConnectStep, PTL DEF SpecConnect

HIDE ConnectAssumption

-----------------------------------------------------------------------------
(* What a person does from a terminal.                                     *)

(* Who may be signed in, and a command of a person.  The teammate whose    *)
(* link the room was joined by is never the one signed in.                 *)
Logins == {NoLogin} \cup [who : Owner, org : Org, live : BOOLEAN]
Subjects == People \cup {Guest, NoOne}
PersonSteps ==
  {"idle", "pick", "session", "token", "slug", "room", "send", "sent", "refused", "no room",
   "sign in", "no answer"}
PersonCommands ==
  [at : PersonSteps, kind : {"none", "vote", "approve"}, room : Room \cup {"none"},
   subject : Subjects, token : Logins, by : Subjects, seen : SUBSET People, held : BOOLEAN]
RoomStates ==
  [open : BOOLEAN, mine : BOOLEAN, agent : BOOLEAN, over : BOOLEAN, subject : People \cup {Guest}]

PersonIs ==
  /\ login \in Logins /\ cmd \in PersonCommands
  /\ rooms \in [Room -> RoomStates]

(* The folder's agent is in one room at most. *)
OneAgent == \A q, r \in Room : rooms[q].agent /\ rooms[r].agent => q = r

(* The sign-in on file was seen by the command that is under way; what it  *)
(* read of it is of someone it saw,                                        *)
SeenIsSo == Waits => login.who \in cmd.seen /\ (cmd.held => login.live)
TokenIsSeen ==
  cmd.at \in {"slug", "send"} /\ cmd.by = NoOne => cmd.token.who \in cmd.seen \ {Mate}
(* of the same organization when the sign-in was held throughout, and then *)
(* only another organization sends the command to the room's session.      *)
TokenIsHeld ==
  /\ cmd.at = "slug" /\ cmd.held => cmd.token.org = login.org
  /\ cmd.at = "room" /\ cmd.held => cmd.token.org # orgOf[cmd.room]
(* The room's session is for votes, and once it may be used. *)
ByTheRoom ==
  /\ cmd.at \in {"pick", "session", "room"} => cmd.kind = "vote"
  /\ cmd.at \in {"token", "slug"} => cmd.kind \in {"vote", "approve"}
  /\ cmd.at \in {"pick", "session", "token", "slug", "room"} => cmd.by = NoOne
  /\ cmd.at = "send" /\ cmd.by # NoOne =>
       /\ cmd.kind = "vote"
       /\ cmd.by \in (cmd.seen \ {Mate}) \cup (IF cmd.subject = Guest THEN {Guest} ELSE {})
  /\ cmd.at = "session" => cmd.room \in Room

Commanded ==
  SeenIsSo /\ TokenIsSeen /\ TokenIsHeld /\ ByTheRoom /\ ActsAsThePerson /\ SignedInActs

PersonInv == PersonIs /\ OneAgent /\ Commanded

USE PersonAssumption

(* Only an owner of the machine can be signed in. *)
LEMMA NoLoginFacts ==
  /\ NoLogin \in Logins /\ NoLogin.who = Mate /\ NoLogin.org = "none" /\ ~NoLogin.live
  /\ \A l \in Logins : /\ l.who \in People /\ l.live \in BOOLEAN
                       /\ l # NoLogin => l.who \in Owner
                       /\ l.live => l.who \in Owner /\ l.org \in Org
<1>1. NoLogin \in Logins /\ NoLogin.who = Mate /\ NoLogin.org = "none" /\ NoLogin.live = FALSE
  BY DEF NoLogin, Logins
<1>2. \A l \in Logins : l # NoLogin => l.who \in Owner /\ l.org \in Org /\ l.live \in BOOLEAN
  BY DEF Logins
<1>3. NoLogin.live \in BOOLEAN /\ ~NoLogin.live
  BY <1>1, Zenon
<1> QED BY <1>1, <1>2, <1>3, Zenon DEF People

(* A command that has not started acts as nobody. *)
LEMMA NoCmdFacts ==
  /\ NoCmd \in PersonCommands /\ NoCmd.at = "idle" /\ NoCmd.by = NoOne
<1>1. NoLogin \in Logins
  BY NoLoginFacts
<1>2. NoOne \in Subjects /\ {} \in SUBSET People
  BY DEF Subjects
<1> QED BY <1>1, <1>2 DEF NoCmd, PersonCommands, PersonSteps

(* At first nobody is signed in, and the agent is in no room. *)
LEMMA InitActs == InitPerson => PersonInv
<1> SUFFICES ASSUME InitPerson PROVE PersonInv
  OBVIOUS
<1>1. login = NoLogin /\ cmd = NoCmd
  BY DEF InitPerson
<1>2. rooms \in [Room -> RoomStates] /\ \A r \in Room : rooms[r].agent = FALSE
  BY DEF InitPerson, RoomStates
<1>3. PersonIs /\ OneAgent
  BY <1>1, <1>2, NoLoginFacts, NoCmdFacts DEF PersonIs, OneAgent
<1>4. cmd.at = "idle"
  BY <1>1, NoCmdFacts
<1>5. Commanded
  BY <1>4 DEF Commanded, SeenIsSo, TokenIsSeen, TokenIsHeld, ByTheRoom, ActsAsThePerson,
     SignedInActs, Waits
<1> QED BY <1>3, <1>5 DEF PersonInv

(* The room that a vote goes to. *)
LEMMA RoomIsShown == OneAgent => SameRoomAsShown
<1> SUFFICES ASSUME OneAgent, Mine # {},
                    (\E r \in Mine : rooms[r].agent) \/ (\A r \in Mine : ~rooms[r].over)
             PROVE  pickPersonRoom = pickRoom
  BY DEF SameRoomAsShown
<1> DEFINE agents == {r \in Mine : rooms[r].agent}
           over == {r \in Mine : rooms[r].over}
           rest == IF agents = {} THEN Mine ELSE agents
<1>1. rest \ {} = rest /\ rest # {}
  OBVIOUS
<1>2. pickPersonRoom = FirstOf(rest)
  BY <1>1, Zenon DEF pickPersonRoom, currentRooms
<1>3. rest \ over = {} \/ rest \ over = rest
  <2>1. CASE agents = {}
    BY <2>1
  <2>2. CASE agents # {}
    <3>1. PICK r \in Mine : rooms[r].agent
      BY <2>2
    <3>2. agents = {r}
      BY <3>1 DEF OneAgent, Mine
    <3> QED BY <2>2, <3>2
  <2> QED BY <2>1, <2>2
<1>4. pickRoom = FirstOf(IF rest \ over = {} THEN rest ELSE rest \ over)
  BY Zenon DEF pickRoom, currentRooms
<1> QED BY <1>2, <1>3, <1>4

(* The room that is picked for a folder is a room. *)
LEMMA FolderRoom == Mine # {} => pickPersonRoom \in Room
<1> SUFFICES ASSUME Mine # {} PROVE pickPersonRoom \in Room
  OBVIOUS
<1>1. \A S : S # {} => FirstOf(S) \in S
  BY DEF FirstOf
<1> DEFINE agents == {r \in Mine : rooms[r].agent}
           rest == IF agents = {} THEN Mine ELSE agents
<1>2. rest \ {} = rest /\ rest # {} /\ rest \subseteq Room
  BY DEF Mine
<1>3. pickPersonRoom = FirstOf(rest)
  BY <1>2, Zenon DEF pickPersonRoom, currentRooms
<1> QED BY <1>1, <1>2, <1>3

-----------------------------------------------------------------------------
(* The command alone takes a step. *)
LEMMA CommandSteps ==
  ASSUME PersonInv, UNCHANGED <<rooms, newest, login>>, cmd' \in PersonCommands, Commanded'
  PROVE  PersonInv'
BY DEF PersonInv, PersonIs, OneAgent

(* It goes on, with the same of everything else. *)
LEMMA StepsOn ==
  ASSUME PersonInv, NEW step \in PersonSteps, To(step)
  PROVE  /\ cmd' \in PersonCommands /\ cmd'.at = step /\ cmd'.kind = cmd.kind
         /\ cmd'.room = cmd.room /\ cmd'.subject = cmd.subject /\ cmd'.token = cmd.token
         /\ cmd'.by = cmd.by /\ cmd'.seen = cmd.seen /\ cmd'.held = cmd.held
BY DEF PersonInv, PersonIs, PersonCommands, To

(* What a command that is no further than its token, or that is over,      *)
(* still owes.                                                             *)
LEMMA CommandRests ==
  ASSUME PersonInv, UNCHANGED <<rooms, newest, login>>, cmd' \in PersonCommands,
         cmd'.at \in {"pick", "session", "token", "no room"},
         cmd'.seen = cmd.seen, cmd'.held = cmd.held, cmd'.by = cmd.by, cmd'.kind = cmd.kind,
         Waits, cmd.at \in {"pick", "session"},
         cmd'.at = "session" => cmd'.room \in Room
  PROVE  PersonInv'
<1>1. Commanded'
  BY DEF PersonInv, Commanded, SeenIsSo, TokenIsSeen, TokenIsHeld, ByTheRoom, ActsAsThePerson,
     SignedInActs, Waits
<1> QED BY <1>1, CommandSteps

(* A command starts, and has seen who is signed in. *)
LEMMA WriteStarts ==
  ASSUME PersonInv, NEW kind \in {"vote", "approve"}, StartWrite(kind)
  PROVE  PersonInv'
<1> DEFINE v == [NoCmd EXCEPT !.at = IF kind = "approve" THEN "token" ELSE "pick",
                              !.kind = kind, !.seen = {login.who}, !.held = login.live]
<1>1. login \in Logins /\ login.who \in People /\ login.live \in BOOLEAN
  BY NoLoginFacts DEF PersonInv, PersonIs
<1>2. NoCmd \in PersonCommands /\ NoCmd.by = NoOne
  BY NoCmdFacts
<1>3. v \in PersonCommands /\ v.at = (IF kind = "approve" THEN "token" ELSE "pick")
        /\ v.kind = kind /\ v.seen = {login.who} /\ v.held = login.live /\ v.by = NoOne
  BY <1>1, <1>2 DEF PersonCommands, PersonSteps
<1>4. UNCHANGED <<rooms, newest, login>> /\ cmd' = v
  BY DEF StartWrite
<1> HIDE DEF v
<1>5. Commanded'
  BY <1>1, <1>3, <1>4 DEF Commanded, SeenIsSo, TokenIsSeen, TokenIsHeld, ByTheRoom,
     ActsAsThePerson, SignedInActs, Waits
<1> QED BY <1>3, <1>4, <1>5, CommandSteps

(* The room is picked, or there is none. *)
LEMMA RoomPicked ==
  ASSUME PersonInv, NEW sel \in Room \cup {"none"}, Pick(sel)
  PROVE  PersonInv'
<1>1. UNCHANGED <<rooms, newest, login>> /\ cmd.at = "pick" /\ Waits /\ cmd \in PersonCommands
  BY DEF Pick, Waits, PersonInv, PersonIs
<1>2. CASE \E r \in Room : cmd' = [cmd EXCEPT !.at = "session", !.room = r]
  <2>1. PICK r \in Room : cmd' = [cmd EXCEPT !.at = "session", !.room = r]
    BY <1>2
  <2>2. /\ cmd' \in PersonCommands /\ cmd'.at = "session" /\ cmd'.room = r
        /\ cmd'.seen = cmd.seen /\ cmd'.held = cmd.held /\ cmd'.by = cmd.by
        /\ cmd'.kind = cmd.kind
    BY <1>1, <2>1 DEF PersonCommands, PersonSteps
  <2> QED BY <1>1, <2>2, CommandRests
<1>3. CASE Fails("no room")
  BY <1>1, <1>3, StepsOn, CommandRests DEF Fails, PersonSteps
<1>4. Mine # {} => pickPersonRoom \in Room
  BY FolderRoom
<1> QED BY <1>2, <1>3, <1>4 DEF Pick

(* The daemon is asked for the room's session. *)
LEMMA SessionAsked ==
  ASSUME PersonInv, daemonRoomSession
  PROVE  PersonInv'
<1>1. UNCHANGED <<rooms, newest, login>> /\ cmd.at = "session" /\ Waits /\ cmd \in PersonCommands
        /\ rooms[cmd.room].subject \in Subjects
  BY DEF daemonRoomSession, Waits, PersonInv, PersonIs, Commanded, ByTheRoom, RoomStates, Subjects
<1>2. CASE cmd' = [cmd EXCEPT !.at = "token", !.subject = rooms[cmd.room].subject]
  <2>1. /\ cmd' \in PersonCommands /\ cmd'.at = "token"
        /\ cmd'.seen = cmd.seen /\ cmd'.held = cmd.held /\ cmd'.by = cmd.by
        /\ cmd'.kind = cmd.kind
    BY <1>1, <1>2 DEF PersonCommands, PersonSteps
  <2> QED BY <1>1, <2>1, CommandRests
<1>3. CASE Fails("no room")
  BY <1>1, <1>3, StepsOn, CommandRests DEF Fails, PersonSteps
<1> QED BY <1>2, <1>3 DEF daemonRoomSession

(* The token is read: of someone who is signed in now. *)
LEMMA TokenRead ==
  ASSUME PersonInv, OAuthToken
  PROVE  PersonInv'
<1> USE DEF PersonInv, Commanded
<1>1. UNCHANGED <<rooms, newest, login>> /\ cmd.at = "token" /\ cmd \in PersonCommands
        /\ login \in Logins
  BY DEF OAuthToken, PersonIs
<1>2. login.who \in cmd.seen /\ (cmd.held => login.live) /\ cmd.by = NoOne
        /\ cmd.kind \in {"vote", "approve"}
  BY <1>1 DEF SeenIsSo, Waits, ByTheRoom
<1>3. CASE login.live /\ cmd' = [cmd EXCEPT !.at = "slug", !.token = login]
  <2>1. /\ cmd' \in PersonCommands /\ cmd'.at = "slug" /\ cmd'.token = login
        /\ cmd'.seen = cmd.seen /\ cmd'.held = cmd.held /\ cmd'.by = cmd.by
        /\ cmd'.kind = cmd.kind
    BY <1>1, <1>3 DEF PersonCommands, PersonSteps
  <2>2. login.who # Mate
    BY <1>1, <1>3, NoLoginFacts
  <2>3. Commanded'
    BY <1>1, <1>2, <2>1, <2>2 DEF SeenIsSo, TokenIsSeen, TokenIsHeld, ByTheRoom,
       ActsAsThePerson, SignedInActs, Waits
  <2> QED BY <1>1, <2>1, <2>3, CommandSteps
<1>4. CASE ~login.live /\ (IF cmd.kind = "approve" THEN Fails("sign in") ELSE To("room"))
  <2>1. PICK step \in {"sign in", "room"} : To(step) /\ (step = "room" => cmd.kind = "vote")
    BY <1>2, <1>4 DEF Fails
  <2>2. /\ cmd' \in PersonCommands /\ cmd'.at = step /\ cmd'.kind = cmd.kind
        /\ cmd'.by = cmd.by /\ cmd'.seen = cmd.seen /\ cmd'.held = cmd.held
    BY <2>1, StepsOn DEF PersonSteps
  <2>3. Commanded'
    BY <1>1, <1>2, <1>4, <2>1, <2>2 DEF SeenIsSo, TokenIsSeen, TokenIsHeld, ByTheRoom,
       ActsAsThePerson, SignedInActs, Waits
  <2> QED BY <1>1, <2>2, <2>3, CommandSteps
<1> QED BY <1>3, <1>4 DEF OAuthToken

(* The organization that was read when the sign-in was held throughout.    *)
LEMMA SlugRead ==
  ASSUME PersonInv, OAuthSlug
  PROVE  PersonInv'
<1> USE DEF PersonInv, Commanded
<1>1. UNCHANGED <<rooms, newest, login>> /\ cmd.at = "slug" /\ cmd \in PersonCommands
        /\ login \in Logins
  BY DEF OAuthSlug, PersonIs
<1>2. login.who \in cmd.seen /\ (cmd.held => login.live) /\ cmd.by = NoOne
        /\ cmd.token.who \in cmd.seen \ {Mate} /\ (cmd.held => cmd.token.org = login.org)
  BY <1>1 DEF SeenIsSo, Waits, ByTheRoom, TokenIsSeen, TokenIsHeld
<1>3. cmd.held => login.org \in Org /\ login.org # "none"
  BY <1>1, <1>2, NoLoginFacts
<1>4. CASE cmd.kind = "approve" /\ login.org = "none" /\ Fails("sign in")
  <2>1. /\ cmd' \in PersonCommands /\ cmd'.at = "sign in"
        /\ cmd'.seen = cmd.seen /\ cmd'.held = cmd.held
    BY <1>4, StepsOn DEF PersonSteps, Fails
  <2>2. Commanded'
    BY <1>1, <1>2, <1>3, <1>4, <2>1 DEF SeenIsSo, TokenIsSeen, TokenIsHeld, ByTheRoom,
       ActsAsThePerson, SignedInActs, Waits
  <2> QED BY <1>1, <2>1, <2>2, CommandSteps
<1>5. ASSUME cmd.kind = "approve", NEW r \in Room,
             cmd' = [cmd EXCEPT !.room = r, !.at = IF orgOf[r] = login.org THEN "send" ELSE "refused"]
      PROVE  PersonInv'
  <2>1. /\ cmd' \in PersonCommands
        /\ cmd'.at = (IF orgOf[r] = login.org THEN "send" ELSE "refused")
        /\ cmd'.room = r /\ cmd'.by = cmd.by /\ cmd'.token = cmd.token
        /\ cmd'.seen = cmd.seen /\ cmd'.held = cmd.held /\ cmd'.kind = cmd.kind
    BY <1>1, <1>5 DEF PersonCommands, PersonSteps
  <2>2. Commanded'
    BY <1>1, <1>2, <1>3, <1>5, <2>1 DEF SeenIsSo, TokenIsSeen, TokenIsHeld, ByTheRoom,
       ActsAsThePerson, SignedInActs, Waits
  <2> QED BY <1>1, <2>1, <2>2, CommandSteps
<1>6. CASE cmd.kind = "vote" /\ To(IF login.org \in {"none", orgOf[cmd.room]} THEN "send" ELSE "room")
  <2> DEFINE step == IF login.org \in {"none", orgOf[cmd.room]} THEN "send" ELSE "room"
  <2>1. step \in PersonSteps /\ step \in {"send", "room"} /\ (step = "room" => login.org # orgOf[cmd.room])
    BY DEF PersonSteps
  <2>2. /\ cmd' \in PersonCommands /\ cmd'.at = step /\ cmd'.kind = cmd.kind
        /\ cmd'.room = cmd.room /\ cmd'.token = cmd.token
        /\ cmd'.by = cmd.by /\ cmd'.seen = cmd.seen /\ cmd'.held = cmd.held
    BY <1>6, <2>1, StepsOn
  <2> HIDE DEF step
  <2>3. Commanded'
    BY <1>1, <1>2, <1>6, <2>1, <2>2 DEF SeenIsSo, TokenIsSeen, TokenIsHeld, ByTheRoom,
       ActsAsThePerson, SignedInActs, Waits
  <2> QED BY <1>1, <2>2, <2>3, CommandSteps
<1> QED BY <1>4, <1>5, <1>6 DEF OAuthSlug

(* The room's session is used for the guest, or for the one signed in. *)
LEMMA RoomActs ==
  ASSUME PersonInv, actAsPerson
  PROVE  PersonInv'
<1> USE DEF PersonInv, Commanded
<1>1. UNCHANGED <<rooms, newest, login>> /\ cmd.at = "room" /\ cmd \in PersonCommands
        /\ login \in Logins
  BY DEF actAsPerson, PersonIs
<1>2. login.who \in cmd.seen /\ (cmd.held => login.live) /\ cmd.kind = "vote"
        /\ (cmd.held => cmd.token.org # orgOf[cmd.room])
  BY <1>1 DEF SeenIsSo, Waits, ByTheRoom, TokenIsHeld
<1>3. CASE /\ cmd.subject = Guest \/ IsThePerson(cmd.subject)
           /\ cmd' = [cmd EXCEPT !.at = "send", !.by = cmd.subject]
  <2>1. /\ cmd' \in PersonCommands /\ cmd'.at = "send" /\ cmd'.by = cmd.subject
        /\ cmd'.subject = cmd.subject
        /\ cmd'.seen = cmd.seen /\ cmd'.held = cmd.held /\ cmd'.kind = cmd.kind
    BY <1>1, <1>3 DEF PersonCommands, PersonSteps
  <2>2. cmd.subject # NoOne
    BY <1>3 DEF IsThePerson, Guest, NoOne
  <2>3. cmd.subject = Guest \/ cmd.subject \in cmd.seen \ {Mate}
    BY <1>1, <1>2, <1>3, NoLoginFacts DEF IsThePerson
  <2>4. Commanded'
    BY <1>1, <1>2, <2>1, <2>2, <2>3 DEF SeenIsSo, TokenIsSeen, TokenIsHeld, ByTheRoom,
       ActsAsThePerson, SignedInActs, Waits
  <2> QED BY <1>1, <2>1, <2>4, CommandSteps
<1>4. CASE Fails("sign in")
  <2>1. /\ cmd' \in PersonCommands /\ cmd'.at = "sign in" /\ cmd'.token = cmd.token
        /\ cmd'.room = cmd.room /\ cmd'.seen = cmd.seen /\ cmd'.held = cmd.held
    BY <1>4, StepsOn DEF PersonSteps, Fails
  <2>2. Commanded'
    BY <1>1, <1>2, <2>1 DEF SeenIsSo, TokenIsSeen, TokenIsHeld, ByTheRoom,
       ActsAsThePerson, SignedInActs, Waits
  <2> QED BY <1>1, <2>1, <2>2, CommandSteps
<1> QED BY <1>3, <1>4 DEF actAsPerson

(* A write that is sent is recorded as someone the command has seen. *)
LEMMA WriteSent ==
  ASSUME PersonInv, PersonWrite \/ Approve
  PROVE  PersonInv'
<1> USE DEF PersonInv, Commanded
<1>1. UNCHANGED <<rooms, newest, login>> /\ cmd.at = "send" /\ cmd \in PersonCommands
  BY DEF PersonWrite, Approve, PersonIs
<1>2. cmd.by = NoOne => cmd.token.who \in cmd.seen \ {Mate}
  BY <1>1 DEF TokenIsSeen
<1>3. cmd.by # NoOne =>
        /\ cmd.kind = "vote"
        /\ cmd.by \in (cmd.seen \ {Mate}) \cup (IF cmd.subject = Guest THEN {Guest} ELSE {})
  BY <1>1 DEF ByTheRoom
<1>4. ASSUME NEW by, Send(by),
             by \in (cmd.seen \ {Mate}) \cup (IF cmd.subject = Guest THEN {Guest} ELSE {})
      PROVE  PersonInv'
  <2>1. PICK end \in {"sent", "no answer"} : cmd' = [cmd EXCEPT !.at = end, !.by = by]
    BY <1>4 DEF Send, Answers
  <2>2. by \in Subjects
    BY <1>1, <1>4 DEF PersonCommands, Subjects
  <2>3. /\ cmd' \in PersonCommands /\ cmd'.at = end /\ cmd'.by = by
        /\ cmd'.subject = cmd.subject /\ cmd'.seen = cmd.seen
    BY <1>1, <2>1, <2>2 DEF PersonCommands, PersonSteps
  <2>4. Commanded'
    BY <1>1, <1>4, <2>3 DEF SeenIsSo, TokenIsSeen, TokenIsHeld, ByTheRoom,
       ActsAsThePerson, SignedInActs, Waits
  <2> QED BY <1>1, <2>3, <2>4, CommandSteps
<1>5. CASE Fails("refused") /\ cmd.token.org # orgOf[cmd.room]
  <2>1. /\ cmd' \in PersonCommands /\ cmd'.at = "refused" /\ cmd'.token = cmd.token
        /\ cmd'.room = cmd.room /\ cmd'.seen = cmd.seen
    BY <1>5, StepsOn DEF PersonSteps, Fails
  <2>2. Commanded'
    BY <1>1, <1>5, <2>1 DEF SeenIsSo, TokenIsSeen, TokenIsHeld, ByTheRoom,
       ActsAsThePerson, SignedInActs, Waits
  <2> QED BY <1>1, <2>1, <2>2, CommandSteps
<1>6. CASE PersonWrite
  BY <1>2, <1>3, <1>4, <1>5, <1>6 DEF PersonWrite
<1>7. CASE Approve
  <2>1. cmd.by = NoOne
    BY <1>3, <1>7 DEF Approve
  <2> QED BY <1>2, <1>4, <1>5, <1>7, <2>1 DEF Approve
<1> QED BY <1>6, <1>7

-----------------------------------------------------------------------------
(* The sign-in changes: the command that is under way has seen that too.   *)
LEMMA LoginChanges ==
  ASSUME PersonInv, NEW l \in Logins, SignIn(l)
  PROVE  PersonInv'
<1> USE DEF PersonInv, Commanded
<1>1. UNCHANGED <<rooms, newest>> /\ login' = l /\ cmd \in PersonCommands /\ l.who \in People
  BY NoLoginFacts DEF SignIn, PersonIs
<1> DEFINE seen == IF Waits THEN cmd.seen \cup {l.who} ELSE cmd.seen
           held == IF Waits THEN cmd.held /\ Held(l) ELSE cmd.held
<1>2. cmd' = [cmd EXCEPT !.seen = seen, !.held = held]
  BY Zenon DEF SignIn
<1>3. seen \in SUBSET People /\ cmd.seen \subseteq seen
  BY <1>1 DEF PersonCommands
<1>4. cmd.held \in BOOLEAN
  BY <1>1 DEF PersonCommands
<1>5. held \in BOOLEAN
  BY <1>4, Zenon
<1>6. Waits => l.who \in seen
  OBVIOUS
<1>7. Waits /\ held => cmd.held /\ l.live /\ l.org = login.org
  BY DEF Held
<1>8. ~Waits => seen = cmd.seen /\ held = cmd.held
  BY Zenon
<1> HIDE DEF seen, held
<1>9. /\ cmd' \in PersonCommands /\ cmd'.at = cmd.at /\ cmd'.kind = cmd.kind
      /\ cmd'.room = cmd.room /\ cmd'.subject = cmd.subject /\ cmd'.token = cmd.token
      /\ cmd'.by = cmd.by /\ cmd'.seen = seen /\ cmd'.held = held
  BY <1>1, <1>2, <1>3, <1>5 DEF PersonCommands
<1>10. PersonIs' /\ OneAgent'
  BY <1>1, <1>9 DEF PersonIs, OneAgent
<1>11. SeenIsSo'
  BY <1>1, <1>6, <1>7, <1>9 DEF SeenIsSo, Waits
<1>12. TokenIsSeen' /\ ByTheRoom'
  BY <1>3, <1>9 DEF TokenIsSeen, ByTheRoom
<1>13. TokenIsHeld'
  BY <1>1, <1>7, <1>9 DEF TokenIsHeld, Waits
<1>14. ActsAsThePerson' /\ SignedInActs'
  BY <1>3, <1>8, <1>9 DEF ActsAsThePerson, SignedInActs, Waits
<1> QED BY <1>10, <1>11, <1>12, <1>13, <1>14

(* A sign-in, an expiry and a sign-out are changes of the login. *)
LEMMA SignInChanges ==
  ASSUME PersonInv,
         \/ \E l \in [who : Owner, org : Org, live : {TRUE}] : SignIn(l)
         \/ SignInExpires \/ SignOut
  PROVE  PersonInv'
<1>1. login \in Logins
  BY DEF PersonInv, PersonIs
<1>2. CASE \E l \in [who : Owner, org : Org, live : {TRUE}] : SignIn(l)
  <2>1. [who : Owner, org : Org, live : {TRUE}] \subseteq Logins
    BY DEF Logins
  <2> QED BY <1>2, <2>1, LoginChanges
<1>3. CASE SignInExpires
  <2>1. [login EXCEPT !.live = FALSE] \in Logins
    BY <1>1, <1>3 DEF SignInExpires, Logins
  <2> QED BY <1>3, <2>1, LoginChanges DEF SignInExpires
<1>4. CASE SignOut
  BY <1>4, NoLoginFacts, LoginChanges DEF SignOut
<1> QED BY <1>2, <1>3, <1>4

(* The rooms change, and with them no more than where the agent is. *)
LEMMA RoomsChange ==
  ASSUME PersonInv, NEW r \in Room, ResolveRoom(r) \/ Attach(r) \/ Close(r) \/ Active(r)
  PROVE  PersonInv'
<1> USE DEF PersonInv
<1>1. UNCHANGED <<login, cmd>> /\ rooms \in [Room -> RoomStates] /\ rooms[r] \in RoomStates
  BY DEF ResolveRoom, Attach, Close, Active, Rooms, PersonIs
<1>2. Commanded'
  BY <1>1 DEF Commanded, SeenIsSo, TokenIsSeen, TokenIsHeld, ByTheRoom,
     ActsAsThePerson, SignedInActs, Waits
<1>3. rooms' \in [Room -> RoomStates] /\ OneAgent'
  <2>1. CASE ResolveRoom(r)
    <3> DEFINE v == [rooms[r] EXCEPT !.over = TRUE]
    <3>1. v \in RoomStates /\ v.agent = rooms[r].agent
      BY <1>1 DEF RoomStates
    <3>2. rooms' = [rooms EXCEPT ![r] = v]
      BY <2>1 DEF ResolveRoom, Rooms
    <3> HIDE DEF v
    <3> QED BY <1>1, <3>1, <3>2 DEF OneAgent
  <2>2. CASE Close(r)
    <3> DEFINE v == [rooms[r] EXCEPT !.open = FALSE, !.agent = FALSE]
    <3>1. v \in RoomStates /\ v.agent = FALSE
      BY <1>1 DEF RoomStates
    <3>2. rooms' = [rooms EXCEPT ![r] = v]
      BY <2>2 DEF Close, Rooms
    <3> HIDE DEF v
    <3> QED BY <1>1, <3>1, <3>2 DEF OneAgent
  <2>3. CASE Attach(r)
    <3>1. \A q \in Room :
            LET v == [rooms[q] EXCEPT !.agent = q = r, !.mine = @ \/ q = r]
            IN  v \in RoomStates /\ (v.agent => q = r)
      <4> TAKE q \in Room
      <4>1. rooms[q] \in RoomStates
        BY <1>1
      <4>2. rooms[q].mine \in BOOLEAN
        BY <4>1 DEF RoomStates
      <4>3. (rooms[q].mine \/ q = r) \in BOOLEAN /\ (q = r) \in BOOLEAN
        OBVIOUS
      <4>4. \A a, m \in BOOLEAN :
              LET v == [rooms[q] EXCEPT !.agent = a, !.mine = m]
              IN  v \in RoomStates /\ v.agent = a
        BY <4>1 DEF RoomStates
      <4> QED BY <4>3, <4>4, Zenon
    <3>2. rooms' = [q \in Room |-> [rooms[q] EXCEPT !.agent = q = r, !.mine = @ \/ q = r]]
      BY <2>3 DEF Attach
    <3>3. rooms' \in [Room -> RoomStates] /\ \A q \in Room : rooms'[q].agent => q = r
      BY <3>1, <3>2, Zenon
    <3> QED BY <3>3 DEF OneAgent
  <2>4. CASE Active(r)
    BY <1>1, <2>4 DEF Active, OneAgent
  <2> QED BY <2>1, <2>2, <2>3, <2>4
<1> QED BY <1>1, <1>2, <1>3 DEF PersonIs

(* A step of the command or of the rest of the machine keeps the invariant. *)
LEMMA PersonStep == PersonInv /\ [NextPerson]_personVars => PersonInv'
<1> SUFFICES ASSUME PersonInv, [NextPerson]_personVars PROVE PersonInv'
  OBVIOUS
<1>1. CASE UNCHANGED personVars
  BY <1>1 DEF personVars, PersonInv, PersonIs, OneAgent, Commanded, SeenIsSo, TokenIsSeen,
     TokenIsHeld, ByTheRoom, ActsAsThePerson, SignedInActs, Waits
<1>2. ASSUME NEW kind \in {"vote", "approve"}, StartWrite(kind) PROVE PersonInv'
  BY <1>2, WriteStarts
<1>3. ASSUME NEW sel \in Room \cup {"none"}, Pick(sel) PROVE PersonInv'
  BY <1>3, RoomPicked
<1>4. CASE daemonRoomSession
  BY <1>4, SessionAsked
<1>5. CASE OAuthToken
  BY <1>5, TokenRead
<1>6. CASE OAuthSlug
  BY <1>6, SlugRead
<1>7. CASE actAsPerson
  BY <1>7, RoomActs
<1>8. CASE PersonWrite \/ Approve
  BY <1>8, WriteSent
<1>9. CASE \/ \E l \in [who : Owner, org : Org, live : {TRUE}] : SignIn(l)
           \/ SignInExpires \/ SignOut
  BY <1>9, SignInChanges
<1>10. ASSUME NEW r \in Room, ResolveRoom(r) \/ Attach(r) \/ Close(r) \/ Active(r)
       PROVE  PersonInv'
  BY <1>10, RoomsChange
<1> QED BY <1>1, <1>2, <1>3, <1>4, <1>5, <1>6, <1>7, <1>8, <1>9, <1>10, Zenon DEF NextPerson

(* However the sign-in and the rooms change between the steps of a vote or  *)
(* an approval: it is recorded as someone who was signed in here while it   *)
(* ran, or as the guest; a person signed in to the room's organization      *)
(* throughout is neither refused nor sent to sign in; and a vote goes to    *)
(* the room that is shown.                                                  *)
THEOREM ActsAreThePersons == SpecPerson => []PersonActs
<1>1. PersonInv => PersonActs
  BY RoomIsShown DEF PersonInv, Commanded, PersonActs
<1> QED BY <1>1, InitActs, PersonStep, PTL DEF SpecPerson

HIDE PersonAssumption

-----------------------------------------------------------------------------
(* The policy of the hooks.                                                *)

(* What the hooks may say, and what they may have read. *)
Intents == {Nothing} \cup {IntentFor(rule) : rule \in Rule}
Loaded == {<<>>} \cup {LoadPolicy(f) : f \in Files}
Prints(f) == {IntentFor(LoadPolicy(f)[i]) : i \in DOMAIN LoadPolicy(f)}
HookStates ==
  [at : {"idle", "read", "target", "ask", "wait", "send"}, line : Line \cup {<<>>},
   rules : Loaded, told : SUBSET Intents, knows : BOOLEAN, intent : Intents,
   old : {"cooked", "raw"}]
Declared == [intent : Intents, told : SUBSET Intents, knows : BOOLEAN]

PolicyIs ==
  /\ file \in Files /\ hook \in [Hook -> HookStates] /\ sent \in Seq(Declared)
  /\ yeses \in Nat /\ key \in {"none", "y", "n", "enter"} /\ tty \in {"cooked", "raw"}

(* What was printed is of the file as it is now, or counts for nothing. *)
PrintedIsNow == printed \in {{Nothing}, Prints(file)}

(* A hook that will ask has a rule of the file that is about its command,  *)
(* and would say what was printed of it.                                   *)
IsAsking(h) == hook[h].at \in {"target", "ask", "wait", "send"}
Reasons(v) ==
  \E i \in DOMAIN v.rules :
    v.rules[i].command = ProgramName(v.line) /\ IntentFor(v.rules[i]) = v.intent
AsksWithReason ==
  \A h \in Hook : IsAsking(h) =>
    Reasons(hook[h]) /\ (hook[h].knows => hook[h].intent \in hook[h].told)

Sending == {h \in Hook : hook[h].at = "send"}

PolicyInv == PolicyIs /\ PrintedIsNow /\ AsksWithReason /\ OneYesEach /\ PrintedIsSent

USE PolicyAssumption

(* The rules of a file, by their places in it. *)
LEMMA LoadedAre ==
  ASSUME NEW f \in Files
  PROVE  /\ LoadPolicy(f) \in Loaded /\ DOMAIN LoadPolicy(f) \in SUBSET Nat
         /\ \A i \in DOMAIN LoadPolicy(f) : LoadPolicy(f)[i] \in Rule
<1>1. f.rules \in Seq(Rule)
  BY EmptySeq DEF Files
<1>2. DOMAIN LoadPolicy(f) \subseteq DOMAIN f.rules
        /\ \A i \in DOMAIN LoadPolicy(f) : LoadPolicy(f)[i] = f.rules[i]
  BY DEF LoadPolicy
<1>3. DOMAIN f.rules \subseteq Nat /\ \A i \in DOMAIN f.rules : f.rules[i] \in Rule
  BY <1>1
<1> QED BY <1>2, <1>3, Zenon DEF Loaded

(* The rule that a command is matched with is a rule for that program. *)
LEMMA MatchIsOne ==
  ASSUME NEW f \in Files, NEW line, Matching(LoadPolicy(f), line) # {}
  PROVE  \E i \in DOMAIN LoadPolicy(f) :
           /\ MatchCommand(LoadPolicy(f), line) = LoadPolicy(f)[i]
           /\ LoadPolicy(f)[i].command = ProgramName(line)
<1> DEFINE S == Matching(LoadPolicy(f), line)
           i == CHOOSE n \in S : \A j \in S : n <= j
<1>1. S \in SUBSET Nat
  BY LoadedAre DEF Matching
<1>2. i \in S
  BY <1>1, LeastOf, Zenon
<1>3. MatchCommand(LoadPolicy(f), line) = LoadPolicy(f)[i]
  BY Zenon DEF MatchCommand
<1> HIDE DEF i
<1>4. i \in DOMAIN LoadPolicy(f) /\ RuleMatches(LoadPolicy(f)[i], line)
  BY <1>2 DEF Matching
<1> QED BY <1>3, <1>4, Zenon DEF RuleMatches

(* What is printed of a file are intents. *)
LEMMA PrintsAre ==
  ASSUME NEW f \in Files
  PROVE  Prints(f) \in SUBSET Intents
BY LoadedAre, Zenon DEF Prints, Intents

(* What is left of a hook that ends. *)
LEMMA NoHookFacts ==
  NoHook \in HookStates /\ NoHook.at = "idle"
<1>1. <<>> \in Loaded /\ Nothing \in Intents /\ {} \in SUBSET Intents
  BY DEF Loaded, Intents
<1> QED BY <1>1 DEF NoHook, HookStates

(* The hooks that are about to send can be counted. *)
LEMMA SendersAreFew == IsFiniteSet(Sending) /\ Cardinality(Sending) \in Nat
<1>1. IsFiniteSet(Sending)
  BY FS_Subset DEF Sending
<1> QED BY <1>1, FS_CardinalityType

(* At first no hook runs, and nothing was printed or sent. *)
LEMMA InitKept == InitPolicy => PolicyInv
<1> SUFFICES ASSUME InitPolicy PROVE PolicyInv
  OBVIOUS
<1>1. hook = [h \in Hook |-> NoHook] /\ sent = <<>> /\ yeses = 0 /\ key = "none"
        /\ tty = "cooked" /\ file \in Files /\ printed = {Nothing}
  BY DEF InitPolicy
<1>2. hook \in [Hook -> HookStates] /\ \A h \in Hook : hook[h].at = "idle"
  BY <1>1, NoHookFacts, Zenon
<1>3. sent \in Seq(Declared) /\ Len(sent) = 0 /\ DOMAIN sent = {}
  BY <1>1
<1>4. {h \in Hook : hook[h].at = "send"} = {}
  BY <1>2
<1>5. Cardinality({}) = 0
  BY FS_EmptySet
<1>6. OneYesEach
  <2>1. Cardinality({h \in Hook : hook[h].at = "send"}) = 0
    BY <1>4, <1>5, Zenon
  <2> QED BY <1>1, <1>3, <2>1 DEF OneYesEach
<1>7. PolicyIs /\ PrintedIsNow
  BY <1>1, <1>2, <1>3 DEF PolicyIs, PrintedIsNow
<1>8. AsksWithReason /\ PrintedIsSent
  BY <1>2, <1>3 DEF AsksWithReason, IsAsking, PrintedIsSent
<1> QED BY <1>6, <1>7, <1>8 DEF PolicyInv

-----------------------------------------------------------------------------
(* A hook moves, and neither comes to send nor has sent. *)
LEMMA HookMoves ==
  ASSUME PolicyInv, NEW h \in Hook, NEW v \in HookStates, hook' = [hook EXCEPT ![h] = v],
         hook[h].at # "send", v.at # "send", UNCHANGED <<file, printed, sent, yeses>>,
         key' = key \/ key' = "none", tty' \in {"cooked", "raw"},
         v.at \in {"target", "ask", "wait"} => Reasons(v) /\ (v.knows => v.intent \in v.told)
  PROVE  PolicyInv'
<1> USE DEF PolicyInv, PolicyIs
<1>1. hook' \in [Hook -> HookStates] /\ hook'[h] = v /\ \A q \in Hook : q # h => hook'[q] = hook[q]
  OBVIOUS
<1>2. Sending' = Sending
  BY <1>1 DEF Sending
<1>3. OneYesEach'
  <2>1. Len(sent) \in Nat /\ Cardinality(Sending) \in Nat
    BY LenProperties, SendersAreFew
  <2>2. Len(sent) + Cardinality(Sending) + (IF key = "y" THEN 1 ELSE 0) <= yeses
    BY Zenon DEF OneYesEach, Sending
  <2>3. Len(sent) + Cardinality(Sending) + (IF key' = "y" THEN 1 ELSE 0) <= yeses
    BY <2>1, <2>2
  <2>4. Len(sent') + Cardinality(Sending') + (IF key' = "y" THEN 1 ELSE 0) <= yeses'
    BY <1>2, <2>3, Zenon
  <2> QED BY <2>4, Zenon DEF OneYesEach, Sending
<1>4. AsksWithReason'
  BY <1>1 DEF AsksWithReason, IsAsking
<1>5. PrintedIsNow' /\ PrintedIsSent'
  BY DEF PrintedIsNow, PrintedIsSent
<1>6. PolicyIs'
  BY <1>1
<1> QED BY <1>3, <1>4, <1>5, <1>6

(* A hook ends that was not about to send. *)
LEMMA HookEnds ==
  ASSUME PolicyInv, NEW h \in Hook, EndsHook(h), hook[h].at # "send",
         UNCHANGED <<file, printed, sent, yeses>>, key' = key \/ key' = "none",
         tty' \in {"cooked", "raw"}
  PROVE  PolicyInv'
BY NoHookFacts, HookMoves DEF EndsHook

(* A hook that asks goes on asking, with what it has read. *)
LEMMA HookGoesOn ==
  ASSUME PolicyInv, NEW h \in Hook, IsAsking(h), NEW v \in HookStates,
         hook' = [hook EXCEPT ![h] = v],
         hook[h].at # "send", v.at \in {"ask", "wait"}, v.line = hook[h].line,
         v.rules = hook[h].rules, v.told = hook[h].told, v.knows = hook[h].knows,
         v.intent = hook[h].intent,
         UNCHANGED <<file, printed, sent, yeses, key>>, tty' \in {"cooked", "raw"}
  PROVE  PolicyInv'
<1>1. Reasons(v) /\ (v.knows => v.intent \in v.told)
  BY DEF PolicyInv, AsksWithReason, Reasons
<1> QED BY <1>1, HookMoves

(* A hook starts: it has read nothing yet. *)
LEMMA CommandRuns ==
  ASSUME PolicyInv, NEW h \in Hook, NEW line \in Line, ShellCommandOf(h, line)
  PROVE  PolicyInv'
<1> DEFINE v == [hook[h] EXCEPT !.at = IF line = <<>> THEN "idle" ELSE "read", !.line = line]
<1>1. hook[h] \in HookStates /\ tty \in {"cooked", "raw"}
  BY DEF PolicyInv, PolicyIs
<1>2. v \in HookStates /\ v.at \in {"idle", "read"}
  BY <1>1 DEF HookStates
<1>3. hook' = [hook EXCEPT ![h] = v]
  BY DEF ShellCommandOf
<1>4. hook[h].at # "send" /\ UNCHANGED <<file, printed, sent, yeses, key, tty>>
  BY DEF ShellCommandOf
<1> HIDE DEF v
<1> QED BY <1>1, <1>2, <1>3, <1>4, HookMoves

(* The policy is read: the rule that matches is what the hook would say. *)
LEMMA PolicyRead ==
  ASSUME PolicyInv, NEW h \in Hook, ReadPolicy(h)
  PROVE  PolicyInv'
<1> DEFINE rules == LoadPolicy(file)
           knows == printed # {Nothing}
           v == [hook[h] EXCEPT !.at = "target", !.rules = rules,
                   !.intent = IntentFor(MatchCommand(rules, hook[h].line)),
                   !.told = printed, !.knows = knows]
<1>1. hook[h] \in HookStates /\ tty \in {"cooked", "raw"} /\ file \in Files
  BY DEF PolicyInv, PolicyIs
<1>2. hook[h].at # "send" /\ UNCHANGED <<file, printed, sent, yeses, key, tty>>
  BY DEF ReadPolicy
<1>3. CASE EndsHook(h)
  BY <1>1, <1>2, <1>3, HookEnds
<1>4. CASE Matching(rules, hook[h].line) # {} /\ hook' = [hook EXCEPT ![h] = v]
  <2>1. PICK i \in DOMAIN rules :
          /\ MatchCommand(rules, hook[h].line) = rules[i]
          /\ rules[i].command = ProgramName(hook[h].line)
    BY <1>1, <1>4, MatchIsOne
  <2>2. rules \in Loaded /\ rules[i] \in Rule
    BY <1>1, LoadedAre
  <2>3. IntentFor(rules[i]) \in Intents
    BY <2>2, Zenon DEF Intents
  <2>4. printed \in SUBSET Intents
    BY <1>1, PrintsAre DEF PolicyInv, PrintedIsNow, Intents
  <2>5. knows \in BOOLEAN
    OBVIOUS
  <2>6. knows => IntentFor(rules[i]) \in printed
    BY DEF PolicyInv, PrintedIsNow, Prints
  <2> HIDE DEF rules, knows
  <2>7. v = [hook[h] EXCEPT !.at = "target", !.rules = rules, !.intent = IntentFor(rules[i]),
                            !.told = printed, !.knows = knows]
    BY <2>1
  <2> HIDE DEF v
  <2>9. /\ v \in HookStates /\ v.at = "target" /\ v.rules = rules
        /\ v.intent = IntentFor(rules[i])
        /\ v.told = printed /\ v.line = hook[h].line /\ v.knows = knows
    BY <1>1, <2>2, <2>3, <2>4, <2>5, <2>7 DEF HookStates
  <2>10. v.knows => v.intent \in v.told
    BY <2>6, <2>9, Zenon
  <2>11. Reasons(v)
    BY <2>1, <2>9 DEF Reasons
  <2>12. v.at # "send" /\ v.at \in {"target", "ask", "wait"}
    BY <2>9
  <2> QED BY <1>1, <1>2, <1>4, <2>9, <2>10, <2>11, <2>12, HookMoves
<1> QED BY <1>3, <1>4, Zenon DEF ReadPolicy

(* The room is resolved, or the hook ends. *)
LEMMA TargetResolved ==
  ASSUME PolicyInv, NEW h \in Hook, ResolveHookTarget(h)
  PROVE  PolicyInv'
<1> DEFINE v == [hook[h] EXCEPT !.at = "ask"]
<1>1. hook[h] \in HookStates /\ tty \in {"cooked", "raw"}
  BY DEF PolicyInv, PolicyIs
<1>2. hook[h].at # "send" /\ IsAsking(h) /\ UNCHANGED <<file, printed, sent, yeses, key, tty>>
  BY DEF ResolveHookTarget, IsAsking
<1>3. CASE EndsHook(h)
  BY <1>1, <1>2, <1>3, HookEnds
<1>4. CASE hook' = Now(h, "ask")
  <2>1. /\ v \in HookStates /\ v.at = "ask" /\ v.line = hook[h].line
        /\ v.rules = hook[h].rules /\ v.told = hook[h].told /\ v.knows = hook[h].knows
        /\ v.intent = hook[h].intent
    BY <1>1 DEF HookStates
  <2>2. hook' = [hook EXCEPT ![h] = v]
    BY <1>4 DEF Now
  <2> HIDE DEF v
  <2> QED BY <1>1, <1>2, <2>1, <2>2, HookGoesOn
<1> QED BY <1>3, <1>4 DEF ResolveHookTarget

(* The question is put on the terminal, or there is none. *)
LEMMA TerminalAsked ==
  ASSUME PolicyInv, NEW h \in Hook, ConfirmOnTTY(h)
  PROVE  PolicyInv'
<1> DEFINE v == [hook[h] EXCEPT !.at = "wait", !.old = tty]
<1>1. hook[h] \in HookStates /\ tty \in {"cooked", "raw"}
  BY DEF PolicyInv, PolicyIs
<1>2. hook[h].at # "send" /\ IsAsking(h) /\ UNCHANGED <<file, printed, sent, yeses, key>>
  BY DEF ConfirmOnTTY, IsAsking
<1>3. tty' \in {"cooked", "raw"}
  BY <1>1 DEF ConfirmOnTTY
<1>4. CASE EndsHook(h)
  BY <1>2, <1>3, <1>4, HookEnds
<1>5. CASE hook' = [hook EXCEPT ![h].at = "wait", ![h].old = tty]
  <2>1. /\ v \in HookStates /\ v.at = "wait" /\ v.line = hook[h].line
        /\ v.rules = hook[h].rules /\ v.told = hook[h].told /\ v.knows = hook[h].knows
        /\ v.intent = hook[h].intent
    BY <1>1 DEF HookStates
  <2>2. hook' = [hook EXCEPT ![h] = v]
    BY <1>5
  <2> HIDE DEF v
  <2> QED BY <1>2, <1>3, <2>1, <2>2, HookGoesOn
<1> QED BY <1>4, <1>5 DEF ConfirmOnTTY

(* The `y` that was typed is of the one hook that took it. *)
LEMMA KeyTaken ==
  ASSUME PolicyInv, NEW h \in Hook, readKeystroke(h)
  PROVE  PolicyInv'
<1> DEFINE v == [hook[h] EXCEPT !.at = "send"]
<1> USE DEF PolicyInv, PolicyIs
<1>1. hook[h] \in HookStates /\ hook[h].old \in {"cooked", "raw"}
  BY DEF HookStates
<1>2. hook[h].at = "wait" /\ IsAsking(h) /\ UNCHANGED <<file, printed, sent, yeses>>
        /\ tty' \in {"cooked", "raw"}
  BY <1>1 DEF readKeystroke, IsAsking
<1>3. CASE EndsHook(h) /\ (key' = key \/ key' = "none")
  BY <1>2, <1>3, HookEnds
<1>4. CASE key = "y" /\ key' = "none" /\ hook' = Now(h, "send")
  <2>1. /\ v \in HookStates /\ v.at = "send" /\ v.line = hook[h].line
        /\ v.rules = hook[h].rules /\ v.told = hook[h].told /\ v.knows = hook[h].knows
        /\ v.intent = hook[h].intent
    BY <1>1 DEF HookStates
  <2>2. hook' = [hook EXCEPT ![h] = v]
    BY <1>4 DEF Now
  <2> HIDE DEF v
  <2>3. hook' \in [Hook -> HookStates] /\ hook'[h] = v /\ \A q \in Hook : q # h => hook'[q] = hook[q]
    BY <2>1, <2>2
  <2>4. Sending' = Sending \cup {h} /\ h \notin Sending
    BY <1>2, <2>1, <2>3 DEF Sending
  <2>5. OneYesEach'
    <3>1. Len(sent) \in Nat /\ Cardinality(Sending) \in Nat /\ IsFiniteSet(Sending)
      BY LenProperties, SendersAreFew
    <3>2. Cardinality(Sending') = Cardinality(Sending) + 1
      BY <2>4, <3>1, FS_AddElement
    <3>3. Len(sent) + Cardinality(Sending) + (IF key = "y" THEN 1 ELSE 0) <= yeses
      BY Zenon DEF OneYesEach, Sending
    <3>4. Len(sent) + Cardinality(Sending') + (IF key' = "y" THEN 1 ELSE 0) <= yeses
      BY <1>4, <3>1, <3>2, <3>3
    <3>5. Len(sent') + Cardinality(Sending') + (IF key' = "y" THEN 1 ELSE 0) <= yeses'
      BY <1>2, <3>4, Zenon
    <3> QED BY <3>5, Zenon DEF OneYesEach, Sending
  <2>6. AsksWithReason'
    BY <1>2, <2>1, <2>3 DEF AsksWithReason, IsAsking, Reasons
  <2>7. PrintedIsNow' /\ PrintedIsSent'
    BY <1>2 DEF PrintedIsNow, PrintedIsSent
  <2>8. PolicyIs'
    BY <1>2, <1>4, <2>3
  <2> QED BY <2>5, <2>6, <2>7, <2>8
<1> QED BY <1>3, <1>4 DEF readKeystroke, isYes

(* What leaves is what the hook that took the key would say. *)
LEMMA IntentSent ==
  ASSUME PolicyInv, NEW h \in Hook, SendIntent(h)
  PROVE  PolicyInv'
<1> DEFINE e == [intent |-> hook[h].intent, told |-> hook[h].told, knows |-> hook[h].knows]
<1> USE DEF PolicyInv, PolicyIs
<1>1. hook[h] \in HookStates
  OBVIOUS
<1>2. hook[h].at = "send" /\ IsAsking(h) /\ UNCHANGED <<file, printed, yeses, key, tty>>
        /\ sent' = Append(sent, e) /\ hook' = [hook EXCEPT ![h] = NoHook]
  BY DEF SendIntent, IsAsking, EndsHook
<1>3. e \in Declared /\ (e.knows => e.intent \in e.told)
  BY <1>1, <1>2 DEF HookStates, Declared, AsksWithReason
<1> HIDE DEF e
<1>4. hook' \in [Hook -> HookStates] /\ hook'[h].at = "idle"
        /\ \A q \in Hook : q # h => hook'[q] = hook[q]
  BY <1>2, NoHookFacts
<1>5. Sending' = Sending \ {h} /\ h \in Sending
  BY <1>2, <1>4 DEF Sending
<1>6. sent' \in Seq(Declared) /\ Len(sent') = Len(sent) + 1 /\ Len(sent) \in Nat
        /\ sent'[Len(sent) + 1] = e /\ \A i \in 1..Len(sent) : sent'[i] = sent[i]
  BY <1>2, <1>3, AppendProperties, LenProperties
<1>7. OneYesEach'
  <2>1. Cardinality(Sending) \in Nat /\ IsFiniteSet(Sending)
    BY SendersAreFew
  <2>2. Cardinality(Sending') = Cardinality(Sending) - 1
    BY <1>5, <2>1, FS_RemoveElement
  <2>3. Len(sent) + Cardinality(Sending) + (IF key = "y" THEN 1 ELSE 0) <= yeses
    BY Zenon DEF OneYesEach, Sending
  <2>4. Len(sent') + Cardinality(Sending') + (IF key = "y" THEN 1 ELSE 0) <= yeses
    BY <1>6, <2>1, <2>2, <2>3
  <2>5. Len(sent') + Cardinality(Sending') + (IF key' = "y" THEN 1 ELSE 0) <= yeses'
    BY <1>2, <2>4, Zenon
  <2> QED BY <2>5, Zenon DEF OneYesEach, Sending
<1>8. AsksWithReason'
  BY <1>4 DEF AsksWithReason, IsAsking
<1>9. PrintedIsSent'
  <2> SUFFICES ASSUME NEW i \in DOMAIN sent'
               PROVE  sent'[i].knows => sent'[i].intent \in sent'[i].told
    BY DEF PrintedIsSent
  <2>1. i \in 1..(Len(sent) + 1) /\ DOMAIN sent = 1..Len(sent)
    BY <1>6, LenProperties
  <2>2. CASE i = Len(sent) + 1
    BY <1>3, <1>6, <2>2
  <2>3. CASE i \in 1..Len(sent)
    BY <1>6, <2>1, <2>3 DEF PrintedIsSent
  <2> QED BY <1>6, <2>1, <2>2, <2>3
<1>10. PrintedIsNow' /\ PolicyIs'
  BY <1>2, <1>4, <1>6 DEF PrintedIsNow
<1> QED BY <1>7, <1>8, <1>9, <1>10

-----------------------------------------------------------------------------
(* The file, what was printed of it, and the key. *)
LEMMA FileChanges ==
  ASSUME PolicyInv, UNCHANGED <<hook, sent, yeses, key, tty>>, file' \in Files,
         PrintedIsNow'
  PROVE  PolicyInv'
BY DEF PolicyInv, PolicyIs, AsksWithReason, IsAsking, OneYesEach, PrintedIsSent

(* A key is typed, or read by the host. *)
LEMMA KeyChanges ==
  ASSUME PolicyInv, UNCHANGED <<hook, sent, file, printed, tty>>,
         key' \in {"none", "y", "n", "enter"}, yeses' \in Nat,
         \/ yeses' = yeses /\ key' # "y"
         \/ key # "y" /\ yeses' = yeses + 1
  PROVE  PolicyInv'
<1> USE DEF PolicyInv, PolicyIs
<1>1. Len(sent) \in Nat /\ Cardinality(Sending) \in Nat
  BY LenProperties, SendersAreFew
<1>2. Len(sent) + Cardinality(Sending) + (IF key = "y" THEN 1 ELSE 0) <= yeses
  BY Zenon DEF OneYesEach, Sending
<1>3. Len(sent) + Cardinality(Sending) + (IF key' = "y" THEN 1 ELSE 0) <= yeses'
  BY <1>1, <1>2
<1>4. OneYesEach'
  BY <1>3, Zenon DEF OneYesEach, Sending
<1>5. PolicyIs' /\ PrintedIsNow' /\ AsksWithReason' /\ PrintedIsSent'
  BY DEF PrintedIsNow, AsksWithReason, IsAsking, PrintedIsSent
<1> QED BY <1>4, <1>5

(* The person edits, prints or makes the file, and types. *)
LEMMA PersonDoes ==
  ASSUME PolicyInv,
         \/ RunHooksPolicy \/ InitLooks \/ writeStarterPolicy
         \/ \E f \in Files : Edit(f)
         \/ \E k \in {"y", "n", "enter"} : Type(k)
         \/ HostReads
  PROVE  PolicyInv'
<1>1. CASE RunHooksPolicy
  BY <1>1, FileChanges DEF RunHooksPolicy, PolicyInv, PolicyIs, PrintedIsNow, Prints
<1>2. CASE InitLooks
  BY <1>2, FileChanges DEF InitLooks, PolicyInv, PolicyIs, PrintedIsNow
<1>3. CASE writeStarterPolicy
  <2>1. [is |-> "rules", rules |-> Starter] \in Files
    BY DEF Files
  <2> QED BY <1>3, <2>1, FileChanges DEF writeStarterPolicy, PrintedIsNow
<1>4. CASE \E f \in Files : Edit(f)
  BY <1>4, FileChanges DEF Edit, PrintedIsNow
<1>5. CASE \E k \in {"y", "n", "enter"} : Type(k)
  BY <1>5, KeyChanges DEF Type, PolicyInv, PolicyIs
<1>6. CASE HostReads
  BY <1>6, KeyChanges DEF HostReads, PolicyInv, PolicyIs
<1> QED BY <1>1, <1>2, <1>3, <1>4, <1>5, <1>6

(* A step of any hook or of the person keeps the invariant. *)
LEMMA PolicyStep == PolicyInv /\ [NextPolicy]_policyVars => PolicyInv'
<1> SUFFICES ASSUME PolicyInv, [NextPolicy]_policyVars PROVE PolicyInv'
  OBVIOUS
<1>1. CASE UNCHANGED policyVars
  BY <1>1 DEF policyVars, PolicyInv, PolicyIs, PrintedIsNow, AsksWithReason, IsAsking, OneYesEach,
     PrintedIsSent
<1>2. ASSUME NEW h \in Hook, NEW line \in Line, ShellCommandOf(h, line) PROVE PolicyInv'
  BY <1>2, CommandRuns
<1>3. ASSUME NEW h \in Hook, ReadPolicy(h) PROVE PolicyInv'
  BY <1>3, PolicyRead
<1>4. ASSUME NEW h \in Hook, ResolveHookTarget(h) PROVE PolicyInv'
  BY <1>4, TargetResolved
<1>5. ASSUME NEW h \in Hook, ConfirmOnTTY(h) PROVE PolicyInv'
  BY <1>5, TerminalAsked
<1>6. ASSUME NEW h \in Hook, readKeystroke(h) PROVE PolicyInv'
  BY <1>6, KeyTaken
<1>7. ASSUME NEW h \in Hook, SendIntent(h) PROVE PolicyInv'
  BY <1>7, IntentSent
<1> QED BY <1>1, <1>2, <1>3, <1>4, <1>5, <1>6, <1>7, PersonDoes, Zenon DEF NextPolicy

(* Each intent that leaves the machine has a `y` of its own, is among what  *)
(* `hooks policy` printed of the file as it then was, and is of a rule      *)
(* about that very command, for any number of hooks on the one terminal.    *)
THEOREM PolicyKept == SpecPolicy => []PolicyIsKept
<1>1. PolicyInv => PolicyIsKept
  BY DEF PolicyInv, AsksWithReason, IsAsking, Reasons, AskedForAReason, PolicyIsKept
<1> QED BY <1>1, InitKept, PolicyStep, PTL DEF SpecPolicy

HIDE PolicyAssumption

-----------------------------------------------------------------------------
(* What install and uninstall leave of a host's configuration (Install).    *)

(* Landfall's entry as it is written today, at most once. *)
OneOfOurs(list) == \A i, j \in DOMAIN list : list[i] = "ours" /\ list[j] = "ours" => i = j

(* What a file of this host can hold. *)
Tidy(f) ==
  /\ f \in HostFiles
  /\ \A e \in Events :
       OneOfOurs(f.list[e]) /\ (e \notin registrations(host) => f.list[e] = <<>>)
  /\ host \in {"codex", "cursor"} => f.key = "none"

(* The steps a run of this kind may have left. *)
Stages(kind, h) ==
  {<<>>} \cup
  CASE kind = "install" /\ h = "claude-code" ->
         {<<"plan", "hooks", "key">>, <<"hooks", "key">>, <<"key">>}
    [] kind = "install" /\ h = "codex" -> {<<"hooks", "flag">>, <<"flag">>}
    [] kind = "install" /\ h = "cursor" -> {<<"hooks", "version">>, <<"version">>}
    [] kind = "install" /\ h \in {"json", "tool"} -> {<<"plan", "key">>, <<"key">>}
    [] kind = "uninstall" /\ h = "claude-code" ->
         {<<"peek", "unhook", "unkey">>, <<"unhook", "unkey">>, <<"unkey">>}
    [] kind = "uninstall" /\ h \in {"codex", "cursor"} -> {<<"peek", "unhook">>, <<"unhook">>}
    [] kind = "uninstall" /\ h \in {"json", "tool"} -> {<<"peek", "unkey">>, <<"unkey">>}
    [] OTHER -> {}

RunKinds == {"none", "install", "uninstall"}
Todo == UNION {Stages(kind, h) : kind \in RunKinds, h \in Hosts}
Sayings ==
  {"plan", "peek", "conflict", "already-installed", "left-in-place", "not-installed", "flag",
   "written", "failed"}
RunRecord ==
  [kind : RunKinds, todo : Todo, seen : HostFiles,
   reading : BOOLEAN, said : SUBSET Sayings, wrote : BOOLEAN, alone : BOOLEAN]

(* Every surface of an install, and of an uninstall, but the key. *)
HooksIn ==
  \A e \in registrations(host) : Has(conf.list[e], "ours") /\ ~Has(conf.list[e], "stale")
HooksOut ==
  \A e \in Events : ~Has(conf.list[e], "ours") /\ ~Has(conf.list[e], "stale")

(* Between a read and its write a run knows what the step is about. *)
Knows(r) ==
  /\ install[r] \in RunRecord
  /\ install[r].todo \in Stages(install[r].kind, host)
  /\ ~install[r].reading =>
       /\ Running(r) /\ Tidy(install[r].seen)
       /\ StepOf(r) \in {"hooks", "unhook", "key", "unkey", "version"}
       /\ StepOf(r) = "hooks" => "conflict" \notin States(host, install[r].seen)
       /\ StepOf(r) = "key" => install[r].seen.key \in {"none", "stale"}
       /\ StepOf(r) = "unkey" => install[r].seen.key = "ours"
       /\ StepOf(r) = "version" => install[r].seen.version = "none"
  /\ Running(r) /\ StepOf(r) = "version" => ~install[r].reading

(* Where a run that nobody has disturbed has come to. *)
Midway(r) ==
  /\ "conflict" \notin install[r].said
  /\ StepOf(r) \in {"plan", "hooks"} => ~install[r].wrote
  /\ StepOf(r) \in {"hooks", "key"} /\ host \notin {"codex", "cursor"} =>
       "conflict" \notin States(host, conf) /\ conf.key # "theirs"
  /\ StepOf(r) \in {"key", "flag", "version"} => HooksIn
  /\ StepOf(r) = "unkey" => HooksOut

Honest(r) ==
  "failed" \notin install[r].said =>
    /\ "conflict" \in install[r].said => ~install[r].wrote
    /\ install[r].kind = "install" /\ "conflict" \notin install[r].said =>
         /\ HooksIn
         /\ host \notin {"codex", "cursor"} => conf.key = "ours"
         /\ host = "codex" => flag
    /\ install[r].kind = "uninstall" => conf.key # "ours" /\ HooksOut

InsideAlone(r) ==
  install[r].kind # "none" /\ install[r].alone =>
    /\ Others(r) = {}
    /\ ~install[r].reading => install[r].seen = conf
    /\ IF Running(r) THEN Midway(r) ELSE Honest(r)

InstallInv ==
  /\ host \in Hosts /\ Tidy(conf) /\ UsersStay
  /\ install \in [Installer -> RunRecord]
  /\ \A r \in Installer : Knows(r) /\ InsideAlone(r)

-----------------------------------------------------------------------------
(* What the operators on one list do. *)

(* What each verdict on a list of hooks says of it (Classify). *)
LEMMA ClassifyIs ==
  ASSUME NEW list
  PROVE  /\ Classify(list) \in {"outdated", "present", "conflict", "absent"}
         /\ Classify(list) = "outdated" <=> Has(list, "stale")
         /\ Classify(list) = "present" <=> Has(list, "ours") /\ ~Has(list, "stale")
         /\ Classify(list) = "absent" =>
              ~Has(list, "ours") /\ ~Has(list, "stale") /\ ~Has(list, "edited")
<1> DEFINE mine == \E i \in DOMAIN list : IsOurs(list[i])
<1>1. Has(list, "edited") => mine
  BY DEF Has, IsOurs
<1>2. Has(list, "ours") => mine
  BY DEF Has, IsOurs
<1>3. Has(list, "stale") => mine
  BY DEF Has, IsOurs
<1> HIDE DEF mine
<1> QED BY <1>1, <1>2, <1>3 DEF Classify, mine

(* Installing keeps a person's hooks and their order, leaves Landfall's own at
   most once, and, unless it is a conflict, once and as it is written today. *)
LEMMA InstalledIs ==
  ASSUME NEW list \in Seq(Element), OneOfOurs(list)
  PROVE  /\ Installed(list) \in Seq(Element) /\ OneOfOurs(Installed(list))
         /\ Kept(Installed(list), Persons) = Kept(list, Persons)
         /\ Classify(list) # "conflict" =>
              Has(Installed(list), "ours") /\ ~Has(Installed(list), "stale")
<1>0. Len(list) \in Nat /\ DOMAIN list = 1..Len(list)
      /\ \A i \in 1..Len(list) : list[i] \in Element
  OBVIOUS
<1>1. CASE Classify(list) = "absent"
  <2> DEFINE new == Append(list, "ours")
  <2>1. \A i \in 1..Len(list) : list[i] # "ours" /\ list[i] # "stale" /\ list[i] # "edited"
    BY <1>0, <1>1 DEF Classify, Has, IsOurs
  <2>2. new \in Seq(Element) /\ Len(new) = Len(list) + 1 /\ DOMAIN new = 1..Len(new)
        /\ new[Len(new)] = "ours" /\ \A i \in 1..Len(list) : new[i] = list[i]
    BY AppendProperties DEF Element
  <2>3. Installed(list) = new
    BY <1>1 DEF Installed
  <2>4. Kept(new, Persons) = Kept(list, Persons)
    <3>1. \A v \in Seq(Element), x \in Element :
            Kept(Append(v, x), Persons)
              = IF x \in Persons THEN Append(Kept(v, Persons), x) ELSE Kept(v, Persons)
      BY KeptAppend
    <3>2. "ours" \in Element /\ "ours" \notin Persons
      BY DEF Element, Persons
    <3> QED BY <3>1, <3>2
  <2> HIDE DEF new
  <2>5. \A i \in 1..Len(new) : i = Len(new) \/ i \in 1..Len(list)
    BY <1>0, <2>2
  <2>6. OneOfOurs(new) /\ Has(new, "ours") /\ ~Has(new, "stale")
    BY <1>0, <2>1, <2>2, <2>5 DEF OneOfOurs, Has
  <2> QED BY <2>2, <2>3, <2>4, <2>6
<1>2. CASE Classify(list) = "outdated"
  <2> DEFINE mine(i) == list[i] \in {"stale", "ours"}
             S == {i \in DOMAIN list : mine(i)}
             first == CHOOSE i \in DOMAIN list : mine(i) /\ \A j \in 1..(i - 1) : ~mine(j)
             marked == [i \in DOMAIN list |-> IF i = first THEN "first" ELSE list[i]]
             T == Persons \cup {"first"}
             kept == Kept(marked, T)
             new == [i \in DOMAIN kept |-> IF kept[i] = "first" THEN "ours" ELSE kept[i]]
  <2>1. first \in 1..Len(list) /\ mine(first)
    <3>1. S # {} /\ S \in SUBSET Nat
      BY <1>0, <1>2 DEF Classify, Has
    <3>2. PICK i \in S : \A j \in S : i <= j
      <4> HIDE DEF S
      <4> QED BY <3>1, HasLeast, Zenon
    <3>3. i \in DOMAIN list /\ mine(i) /\ \A j \in 1..(i - 1) : ~mine(j)
      BY <1>0, <3>2
    <3> HIDE DEF mine
    <3> QED BY <1>0, <3>3
  <2>2. Installed(list) = new
    BY <1>2 DEF Installed, upgradeInPlace
  <2> HIDE DEF first
  <2> DEFINE El == Element \cup {"first"}
  <2>3. marked \in Seq(El) /\ Len(marked) = Len(list)
        /\ \A i \in 1..Len(list) : marked[i] = IF i = first THEN "first" ELSE list[i]
    <3>1. \A i \in 1..Len(list) : (IF i = first THEN "first" ELSE list[i]) \in El
      BY <1>0
    <3>2. marked \in [1..Len(list) -> El]
      BY <1>0, <3>1
    <3> QED BY <1>0, <3>2
  <2> HIDE DEF marked, S
  <2>4. kept \in Seq(T)
    <3>1. El \cap T = T
      BY DEF Element, Persons
    <3> QED BY <2>3, <3>1, KeptType
  <2>5. \A i, j \in 1..Len(kept) : kept[i] = "first" /\ kept[j] = "first" => i = j
    <3>1. \A i, j \in DOMAIN marked : marked[i] = "first" /\ marked[j] = "first" => i = j
      BY <1>0, <2>3 DEF Element
    <3>2. \A i, j \in DOMAIN kept : kept[i] = "first" /\ kept[j] = "first" => i = j
      <4> HIDE DEF El, T
      <4> QED BY <2>3, <3>1, KeptOnce
    <3>3. DOMAIN kept = 1..Len(kept)
      BY <2>4
    <3> HIDE DEF kept
    <3> QED BY <3>2, <3>3
  <2>6. \E i \in 1..Len(kept) : kept[i] = "first"
    <3>1. "first" \in T /\ first \in DOMAIN marked /\ marked[first] = "first"
      BY <2>1, <2>3
    <3>2. \E i \in DOMAIN kept : kept[i] = "first"
      <4> HIDE DEF El, T
      <4> QED BY <2>3, <3>1, KeptHas
    <3>3. DOMAIN kept = 1..Len(kept)
      BY <2>4
    <3> HIDE DEF kept
    <3> QED BY <3>2, <3>3
  <2>7. Kept(kept, Persons) = Kept(list, Persons)
    <3>1. Kept(kept, Persons) = Kept(marked, Persons)
      <4>1. Persons \in SUBSET T
        OBVIOUS
      <4> HIDE DEF El, T
      <4> QED BY <2>3, <4>1, KeptOfKept
    <3>2. Kept(marked, Persons) = Kept(list, Persons)
      <4>1. list \in Seq(El)
        OBVIOUS
      <4>2. \A i \in 1..Len(marked) :
              (marked[i] \in Persons <=> list[i] \in Persons)
              /\ (marked[i] \in Persons => marked[i] = list[i])
        BY <2>1, <2>3 DEF Persons
      <4> HIDE DEF El
      <4> QED BY <2>3, <4>1, <4>2, KeptAgree
    <3> QED BY <3>1, <3>2
  <2> HIDE DEF kept
  <2>8. Len(kept) \in Nat /\ DOMAIN kept = 1..Len(kept) /\ \A i \in 1..Len(kept) : kept[i] \in T
    BY <2>4
  <2>9. new \in Seq(Element) /\ Len(new) = Len(kept) /\ DOMAIN new = 1..Len(kept)
        /\ \A i \in 1..Len(kept) : new[i] = IF kept[i] = "first" THEN "ours" ELSE kept[i]
    <3>1. \A i \in 1..Len(kept) : (IF kept[i] = "first" THEN "ours" ELSE kept[i]) \in Element
      BY <2>8 DEF Element, Persons
    <3>2. new \in [1..Len(kept) -> Element]
      BY <2>8, <3>1
    <3> QED BY <2>8, <3>2
  <2>10. Kept(new, Persons) = Kept(kept, Persons)
    <3>1. new \in Seq(El) /\ kept \in Seq(El)
      <4>1. T \subseteq El
        BY DEF Element, Persons
      <4> HIDE DEF new, T
      <4>2. Element \subseteq El
        OBVIOUS
      <4> HIDE DEF El
      <4> QED BY <2>4, <2>9, <4>1, <4>2
    <3>2. \A i \in 1..Len(new) :
            (new[i] \in Persons <=> kept[i] \in Persons)
            /\ (new[i] \in Persons => new[i] = kept[i])
      BY <2>9 DEF Persons
    <3> HIDE DEF new, El
    <3> QED BY <2>9, <3>1, <3>2, KeptAgree
  <2>11. \A i \in 1..Len(kept) : (new[i] = "ours" <=> kept[i] = "first") /\ new[i] # "stale"
    BY <2>8, <2>9 DEF Persons
  <2> HIDE DEF new
  <2>12. OneOfOurs(new) /\ Has(new, "ours") /\ ~Has(new, "stale")
    BY <2>5, <2>6, <2>9, <2>11 DEF OneOfOurs, Has
  <2> QED BY <2>2, <2>7, <2>9, <2>10, <2>12
<1>3. CASE Classify(list) \notin {"absent", "outdated"}
  <2>1. Installed(list) = list
    BY <1>3 DEF Installed
  <2>2. Classify(list) # "conflict" => Has(list, "ours") /\ ~Has(list, "stale")
    BY <1>3, ClassifyIs
  <2> QED BY <2>1, <2>2
<1> QED BY <1>1, <1>2, <1>3

(* Uninstalling keeps a person's hooks and their order, and nothing of ours. *)
LEMMA UninstalledIs ==
  ASSUME NEW list \in Seq(Element), OneOfOurs(list)
  PROVE  /\ Uninstalled(list) \in Seq(Element) /\ OneOfOurs(Uninstalled(list))
         /\ Kept(Uninstalled(list), Persons) = Kept(list, Persons)
         /\ ~Has(Uninstalled(list), "ours") /\ ~Has(Uninstalled(list), "stale")
<1> DEFINE new == Kept(list, Persons)
<1>1. new \in Seq(Persons) /\ new \in Seq(Element)
  <2>1. Element \cap Persons = Persons /\ Persons \subseteq Element
    BY DEF Element, Persons
  <2>2. new \in Seq(Element \cap Persons)
    BY KeptType
  <2> HIDE DEF new
  <2> QED BY <2>1, <2>2
<1>2. Kept(new, Persons) = new
  BY KeptOfKept
<1>3. Uninstalled(list) = new
  BY DEF Uninstalled
<1> HIDE DEF new
<1>4. \A i \in DOMAIN new : new[i] # "ours" /\ new[i] # "stale"
  BY <1>1 DEF Persons
<1>5. OneOfOurs(new) /\ ~Has(new, "ours") /\ ~Has(new, "stale")
  BY <1>4 DEF OneOfOurs, Has
<1> QED BY <1>1, <1>2, <1>3, <1>5 DEF new

-----------------------------------------------------------------------------
(* The steps. *)

(* Head and Tail of one step, of two and of three. *)
LEMMA Tail1 ==
  ASSUME NEW x
  PROVE  <<x>> # <<>> /\ Head(<<x>>) = x /\ Tail(<<x>>) = <<>>
OBVIOUS

(* Of two. *)
LEMMA Tail2 ==
  ASSUME NEW x, NEW y
  PROVE  <<x, y>> # <<>> /\ Head(<<x, y>>) = x /\ Tail(<<x, y>>) = <<y>>
<1> DEFINE S == {x, y}
<1>1. <<x, y>> \in Seq(S) /\ <<y>> \in Seq(S) /\ x \in S /\ y \in S
  OBVIOUS
<1>2. Tail(<<x, y>>) \in Seq(S) /\ Len(Tail(<<x, y>>)) = 1 /\ Tail(<<x, y>>)[1] = y
  OBVIOUS
<1>3. Len(<<y>>) = 1 /\ <<y>>[1] = y
  OBVIOUS
<1>4. Tail(<<x, y>>) = <<y>>
  <2> HIDE DEF S
  <2> QED BY <1>1, <1>2, <1>3, SeqEqual
<1> QED BY <1>4

(* Of three. *)
LEMMA Tail3 ==
  ASSUME NEW x, NEW y, NEW z
  PROVE  <<x, y, z>> # <<>> /\ Head(<<x, y, z>>) = x /\ Tail(<<x, y, z>>) = <<y, z>>
<1> DEFINE S == {x, y, z}
<1>1. <<x, y, z>> \in Seq(S) /\ <<y, z>> \in Seq(S) /\ x \in S /\ y \in S /\ z \in S
  OBVIOUS
<1>2. Tail(<<x, y, z>>) \in Seq(S) /\ Len(Tail(<<x, y, z>>)) = 2
      /\ Tail(<<x, y, z>>)[1] = y /\ Tail(<<x, y, z>>)[2] = z
  OBVIOUS
<1>3. Len(<<y, z>>) = 2 /\ <<y, z>>[1] = y /\ <<y, z>>[2] = z
  OBVIOUS
<1>4. Tail(<<x, y, z>>) = <<y, z>>
  <2> HIDE DEF S
  <2> QED BY <1>1, <1>2, <1>3, SeqEqual
<1> QED BY <1>4

(* The step of a run, by what kind of run it is and on which host. *)
LEMMA StageFacts ==
  ASSUME NEW kind \in RunKinds, NEW h \in Hosts,
         NEW s \in Stages(kind, h), s # <<>>
  PROVE  /\ Tail(s) \in Stages(kind, h)
         /\ Head(s) \in {"plan", "hooks", "flag", "version", "key"} => kind = "install"
         /\ Head(s) \in {"peek", "unhook", "unkey"} => kind = "uninstall"
         /\ Head(s) \in {"plan", "hooks", "flag", "version", "key", "peek", "unhook", "unkey"}
         /\ Head(s) = "plan" => h \notin {"codex", "cursor"} /\ Tail(s) # <<>>
              /\ Head(Tail(s)) = (IF h = "claude-code" THEN "hooks" ELSE "key")
         /\ Head(s) = "hooks" => h \notin {"json", "tool"} /\ Tail(s) # <<>>
              /\ Head(Tail(s)) = (IF h = "claude-code" THEN "key"
                                 ELSE IF h = "codex" THEN "flag" ELSE "version")
         /\ Head(s) = "peek" => Tail(s) # <<>>
              /\ Head(Tail(s)) = (IF h \in {"json", "tool"} THEN "unkey" ELSE "unhook")
         /\ Head(s) = "unhook" => h \notin {"json", "tool"}
              /\ (IF h = "claude-code" THEN Tail(s) # <<>> /\ Head(Tail(s)) = "unkey"
                  ELSE Tail(s) = <<>>)
         /\ Head(s) \in {"key", "unkey"} => h \notin {"codex", "cursor"} /\ Tail(s) = <<>>
         /\ Head(s) = "flag" => h = "codex" /\ Tail(s) = <<>>
         /\ Head(s) = "version" => h = "cursor" /\ Tail(s) = <<>>
<1>1. CASE kind = "install" /\ h = "claude-code"
  <2>1. Stages(kind, h) = {<<>>, <<"plan", "hooks", "key">>, <<"hooks", "key">>, <<"key">>}
    BY <1>1 DEF Stages
  <2>2. CASE s = <<"plan", "hooks", "key">>
    <3>1. Head(<<"plan", "hooks", "key">>) = "plan" /\ Tail(<<"plan", "hooks", "key">>) = <<"hooks", "key">>
      BY Tail3, Zenon
    <3>2. <<"hooks", "key">> # <<>> /\ Head(<<"hooks", "key">>) = "hooks"
      BY Tail2, Zenon
    <3> QED BY <1>1, <2>2, <2>1, <3>1, <3>2
  <2>3. CASE s = <<"hooks", "key">>
    <3>1. Head(<<"hooks", "key">>) = "hooks" /\ Tail(<<"hooks", "key">>) = <<"key">>
      BY Tail2, Zenon
    <3>2. <<"key">> # <<>> /\ Head(<<"key">>) = "key"
      BY Tail1, Zenon
    <3> QED BY <1>1, <2>3, <2>1, <3>1, <3>2
  <2>4. CASE s = <<"key">>
    <3>1. Head(<<"key">>) = "key" /\ Tail(<<"key">>) = <<>>
      BY Tail1, Zenon
    <3> QED BY <1>1, <2>4, <2>1, <3>1
  <2> QED BY <2>1, <2>2, <2>3, <2>4
<1>2. CASE kind = "install" /\ h = "codex"
  <2>1. Stages(kind, h) = {<<>>, <<"hooks", "flag">>, <<"flag">>}
    BY <1>2 DEF Stages
  <2>2. CASE s = <<"hooks", "flag">>
    <3>1. Head(<<"hooks", "flag">>) = "hooks" /\ Tail(<<"hooks", "flag">>) = <<"flag">>
      BY Tail2, Zenon
    <3>2. <<"flag">> # <<>> /\ Head(<<"flag">>) = "flag"
      BY Tail1, Zenon
    <3> QED BY <1>2, <2>2, <2>1, <3>1, <3>2
  <2>3. CASE s = <<"flag">>
    <3>1. Head(<<"flag">>) = "flag" /\ Tail(<<"flag">>) = <<>>
      BY Tail1, Zenon
    <3> QED BY <1>2, <2>3, <2>1, <3>1
  <2> QED BY <2>1, <2>2, <2>3
<1>3. CASE kind = "install" /\ h = "cursor"
  <2>1. Stages(kind, h) = {<<>>, <<"hooks", "version">>, <<"version">>}
    BY <1>3 DEF Stages
  <2>2. CASE s = <<"hooks", "version">>
    <3>1. Head(<<"hooks", "version">>) = "hooks" /\ Tail(<<"hooks", "version">>) = <<"version">>
      BY Tail2, Zenon
    <3>2. <<"version">> # <<>> /\ Head(<<"version">>) = "version"
      BY Tail1, Zenon
    <3> QED BY <1>3, <2>2, <2>1, <3>1, <3>2
  <2>3. CASE s = <<"version">>
    <3>1. Head(<<"version">>) = "version" /\ Tail(<<"version">>) = <<>>
      BY Tail1, Zenon
    <3> QED BY <1>3, <2>3, <2>1, <3>1
  <2> QED BY <2>1, <2>2, <2>3
<1>4. CASE kind = "install" /\ h \in {"json", "tool"}
  <2>1. Stages(kind, h) = {<<>>, <<"plan", "key">>, <<"key">>}
    BY <1>4 DEF Stages
  <2>2. CASE s = <<"plan", "key">>
    <3>1. Head(<<"plan", "key">>) = "plan" /\ Tail(<<"plan", "key">>) = <<"key">>
      BY Tail2, Zenon
    <3>2. <<"key">> # <<>> /\ Head(<<"key">>) = "key"
      BY Tail1, Zenon
    <3> QED BY <1>4, <2>2, <2>1, <3>1, <3>2
  <2>3. CASE s = <<"key">>
    <3>1. Head(<<"key">>) = "key" /\ Tail(<<"key">>) = <<>>
      BY Tail1, Zenon
    <3> QED BY <1>4, <2>3, <2>1, <3>1
  <2> QED BY <2>1, <2>2, <2>3
<1>5. CASE kind = "uninstall" /\ h = "claude-code"
  <2>1. Stages(kind, h) = {<<>>, <<"peek", "unhook", "unkey">>, <<"unhook", "unkey">>, <<"unkey">>}
    BY <1>5 DEF Stages
  <2>2. CASE s = <<"peek", "unhook", "unkey">>
    <3>1. Head(<<"peek", "unhook", "unkey">>) = "peek" /\ Tail(<<"peek", "unhook", "unkey">>) = <<"unhook", "unkey">>
      BY Tail3, Zenon
    <3>2. <<"unhook", "unkey">> # <<>> /\ Head(<<"unhook", "unkey">>) = "unhook"
      BY Tail2, Zenon
    <3> QED BY <1>5, <2>2, <2>1, <3>1, <3>2
  <2>3. CASE s = <<"unhook", "unkey">>
    <3>1. Head(<<"unhook", "unkey">>) = "unhook" /\ Tail(<<"unhook", "unkey">>) = <<"unkey">>
      BY Tail2, Zenon
    <3>2. <<"unkey">> # <<>> /\ Head(<<"unkey">>) = "unkey"
      BY Tail1, Zenon
    <3> QED BY <1>5, <2>3, <2>1, <3>1, <3>2
  <2>4. CASE s = <<"unkey">>
    <3>1. Head(<<"unkey">>) = "unkey" /\ Tail(<<"unkey">>) = <<>>
      BY Tail1, Zenon
    <3> QED BY <1>5, <2>4, <2>1, <3>1
  <2> QED BY <2>1, <2>2, <2>3, <2>4
<1>6. CASE kind = "uninstall" /\ h \in {"codex", "cursor"}
  <2>1. Stages(kind, h) = {<<>>, <<"peek", "unhook">>, <<"unhook">>}
    BY <1>6 DEF Stages
  <2>2. CASE s = <<"peek", "unhook">>
    <3>1. Head(<<"peek", "unhook">>) = "peek" /\ Tail(<<"peek", "unhook">>) = <<"unhook">>
      BY Tail2, Zenon
    <3>2. <<"unhook">> # <<>> /\ Head(<<"unhook">>) = "unhook"
      BY Tail1, Zenon
    <3> QED BY <1>6, <2>2, <2>1, <3>1, <3>2
  <2>3. CASE s = <<"unhook">>
    <3>1. Head(<<"unhook">>) = "unhook" /\ Tail(<<"unhook">>) = <<>>
      BY Tail1, Zenon
    <3> QED BY <1>6, <2>3, <2>1, <3>1
  <2> QED BY <2>1, <2>2, <2>3
<1>7. CASE kind = "uninstall" /\ h \in {"json", "tool"}
  <2>1. Stages(kind, h) = {<<>>, <<"peek", "unkey">>, <<"unkey">>}
    BY <1>7 DEF Stages
  <2>2. CASE s = <<"peek", "unkey">>
    <3>1. Head(<<"peek", "unkey">>) = "peek" /\ Tail(<<"peek", "unkey">>) = <<"unkey">>
      BY Tail2, Zenon
    <3>2. <<"unkey">> # <<>> /\ Head(<<"unkey">>) = "unkey"
      BY Tail1, Zenon
    <3> QED BY <1>7, <2>2, <2>1, <3>1, <3>2
  <2>3. CASE s = <<"unkey">>
    <3>1. Head(<<"unkey">>) = "unkey" /\ Tail(<<"unkey">>) = <<>>
      BY Tail1, Zenon
    <3> QED BY <1>7, <2>3, <2>1, <3>1
  <2> QED BY <2>1, <2>2, <2>3
<1>8. CASE kind = "none"
  BY <1>8 DEF Stages
<1> QED BY <1>1, <1>2, <1>3, <1>4, <1>5, <1>6, <1>7, <1>8 DEF Hosts, RunKinds

(* A write changes what is landfall's, and nothing of the person's.         *)
LEMMA RewrittenIs ==
  ASSUME host \in Hosts, NEW f, Tidy(f),
         NEW step \in {"hooks", "unhook", "key", "unkey", "version"},
         step \in {"key", "unkey"} => host \notin {"codex", "cursor"}
  PROVE  LET g == Rewritten(host, step, f) IN
         /\ Tidy(g)
         /\ (step \in {"key", "unkey"} => f.key # "theirs")
              /\ (step = "version" => f.version # "theirs") => Theirs(g) = Theirs(f)
         /\ step = "hooks" => g.key = f.key /\ \A e \in registrations(host) :
              Classify(f.list[e]) # "conflict" =>
                Has(g.list[e], "ours") /\ ~Has(g.list[e], "stale")
         /\ step = "unhook" => g.key = f.key /\ \A e \in Events :
              ~Has(g.list[e], "ours") /\ ~Has(g.list[e], "stale")
         /\ step = "key" => g.key = "ours" /\ g.list = f.list
         /\ step = "unkey" => g.key = "none" /\ g.list = f.list
         /\ step = "version" => g.version = "ours" /\ g.list = f.list /\ g.key = f.key
<1> DEFINE g == Rewritten(host, step, f)
<1>0. /\ f \in HostFiles /\ f.list \in [Events -> Seq(Element)] /\ f.ok \in BOOLEAN
      /\ f.key \in {"none", "theirs", "stale", "ours"} /\ f.version \in {"none", "theirs", "ours"}
      /\ f = [ok |-> f.ok, list |-> f.list, key |-> f.key, version |-> f.version]
      /\ \A e \in Events : OneOfOurs(f.list[e])
      /\ \A e \in Events \ registrations(host) : f.list[e] = <<>>
  BY DEF Tidy, HostFiles
<1>1. CASE step \in {"hooks", "unhook"}
  <2>1. PICK lists \in [Events -> Seq(Element)] :
          /\ g = [f EXCEPT !.list = lists]
          /\ \A e \in Events \ registrations(host) : lists[e] = f.list[e]
          /\ \A e \in registrations(host) :
               lists[e] = IF step = "hooks" THEN Installed(f.list[e]) ELSE Uninstalled(f.list[e])
    <3> DEFINE new == IF step = "hooks" THEN [e \in Events |-> Installed(f.list[e])]
                      ELSE [e \in Events |-> Uninstalled(f.list[e])]
               lists == [e \in Events |-> IF e \in registrations(host) THEN new[e] ELSE f.list[e]]
    <3>1. g = [f EXCEPT !.list = lists]
      <4>1. CASE step = "hooks"
        BY <4>1 DEF Rewritten, Lists
      <4>2. CASE step = "unhook"
        BY <4>2 DEF Rewritten, Lists
      <4> QED BY <1>1, <4>1, <4>2
    <3>2. \A e \in Events : new[e] = IF step = "hooks" THEN Installed(f.list[e])
                                     ELSE Uninstalled(f.list[e])
      OBVIOUS
    <3> HIDE DEF new
    <3>3. \A e \in Events : new[e] \in Seq(Element)
      BY <1>0, <3>2, InstalledIs, UninstalledIs
    <3>4. lists \in [Events -> Seq(Element)]
      BY <1>0, <3>3
    <3>5. registrations(host) \subseteq Events
      BY DEF registrations, Events, Hosts
    <3>6. /\ \A e \in Events \ registrations(host) : lists[e] = f.list[e]
          /\ \A e \in registrations(host) : lists[e] = new[e]
      BY <3>5
    <3> HIDE DEF lists
    <3> QED BY <3>1, <3>2, <3>4, <3>5, <3>6
  <2> HIDE DEF g
  <2>2. g \in HostFiles /\ g.ok = f.ok /\ g.key = f.key /\ g.version = f.version /\ g.list = lists
    BY <1>0, <2>1 DEF HostFiles
  <2>3. \A e \in Events : OneOfOurs(lists[e]) /\ Kept(lists[e], Persons) = Kept(f.list[e], Persons)
    BY <1>0, <2>1, InstalledIs, UninstalledIs
  <2>4. Tidy(g)
    BY <1>0, <2>1, <2>2, <2>3 DEF Tidy
  <2>5. Theirs(g) = Theirs(f)
    BY <2>2, <2>3 DEF Theirs
  <2>6. registrations(host) \subseteq Events
    BY DEF registrations, Events, Hosts
  <2>7. step = "hooks" => \A e \in registrations(host) :
          Classify(f.list[e]) # "conflict" => Has(lists[e], "ours") /\ ~Has(lists[e], "stale")
    BY <1>0, <2>1, <2>6, InstalledIs
  <2>8. step = "unhook" => \A e \in Events : ~Has(lists[e], "ours") /\ ~Has(lists[e], "stale")
    <3>1. ASSUME step = "unhook", NEW e \in registrations(host)
          PROVE  ~Has(lists[e], "ours") /\ ~Has(lists[e], "stale")
      BY <1>0, <2>1, <2>6, <3>1, UninstalledIs
    <3>2. ~Has(<<>>, "ours") /\ ~Has(<<>>, "stale")
      BY DEF Has
    <3> QED BY <1>0, <2>1, <3>1, <3>2
  <2> QED BY <1>1, <2>2, <2>4, <2>5, <2>7, <2>8 DEF g
<1>2. CASE step = "key"
  <2>1. g = [f EXCEPT !.key = "ours"]
    BY <1>2 DEF Rewritten
  <2> HIDE DEF g
  <2>2. g \in HostFiles /\ g.ok = f.ok /\ g.key = "ours" /\ g.version = f.version /\ g.list = f.list
    BY <1>0, <2>1 DEF HostFiles
  <2>3. Tidy(g)
    BY <1>0, <1>2, <2>2 DEF Tidy
  <2>4. f.key # "theirs" => Theirs(g) = Theirs(f)
    BY <2>2 DEF Theirs
  <2> QED BY <1>2, <2>2, <2>3, <2>4 DEF g
<1>3. CASE step = "unkey"
  <2>1. g = [f EXCEPT !.key = "none"]
    BY <1>3 DEF Rewritten
  <2> HIDE DEF g
  <2>2. g \in HostFiles /\ g.ok = f.ok /\ g.key = "none" /\ g.version = f.version /\ g.list = f.list
    BY <1>0, <2>1 DEF HostFiles
  <2>3. Tidy(g)
    BY <1>0, <1>3, <2>2 DEF Tidy
  <2>4. f.key # "theirs" => Theirs(g) = Theirs(f)
    BY <2>2 DEF Theirs
  <2> QED BY <1>3, <2>2, <2>3, <2>4 DEF g
<1>4. CASE step = "version"
  <2>1. g = [f EXCEPT !.version = "ours"]
    BY <1>4 DEF Rewritten
  <2> HIDE DEF g
  <2>2. g \in HostFiles /\ g.ok = f.ok /\ g.key = f.key /\ g.version = "ours" /\ g.list = f.list
    BY <1>0, <2>1 DEF HostFiles
  <2>3. Tidy(g)
    BY <1>0, <2>2, Tidy(f) DEF Tidy
  <2>4. f.version # "theirs" => Theirs(g) = Theirs(f)
    BY <2>2 DEF Theirs
  <2> QED BY <1>4, <2>2, <2>3, <2>4 DEF g
<1> QED BY <1>1, <1>2, <1>3, <1>4

(* The file that is not there, and the run that has not begun. *)
LEMMA BlankIs ==
  /\ Blank \in HostFiles /\ NoInstall \in RunRecord
  /\ NoInstall.kind = "none" /\ NoInstall.todo = <<>> /\ NoInstall.reading = TRUE
  /\ NoInstall.said = {} /\ NoInstall.wrote = FALSE /\ NoInstall.alone = FALSE
<1>1. [e \in Events |-> <<>>] \in [Events -> Seq(Element)]
  OBVIOUS
<1>2. Blank \in HostFiles
  BY <1>1 DEF Blank, HostFiles
<1>3. <<>> \in Todo
  <2>1. <<>> \in Stages("none", "json")
    BY DEF Stages
  <2>2. "none" \in RunKinds /\ "json" \in Hosts
    BY DEF RunKinds, Hosts
  <2> QED BY <2>1, <2>2 DEF Todo
<1> QED BY <1>2, <1>3 DEF NoInstall, RunRecord, RunKinds

(* While a run is under way, no other is undisturbed. *)
LEMMA OnlyOneAlone ==
  ASSUME InstallInv, NEW r \in Installer, Running(r), NEW q \in Installer \ {r}
  PROVE  install[q].kind = "none" \/ ~install[q].alone
BY DEF InstallInv, InsideAlone, Others

(* What a step that writes no configuration has to show. *)
LEMMA ReportsKeeps ==
  ASSUME InstallInv, NEW r \in Installer, Running(r),
         NEW said \in Sayings, NEW rest \in Stages(install[r].kind, host),
         Reports(r, said, rest), UNCHANGED <<host, conf, left, trampled>>,
         rest # <<>> => Head(rest) # "version",
         install[r].alone /\ rest # <<>> =>
           /\ said # "conflict"
           /\ Head(rest) \in {"plan", "hooks"} => ~install[r].wrote
           /\ Head(rest) \in {"hooks", "key"} /\ host \notin {"codex", "cursor"} =>
                "conflict" \notin States(host, conf) /\ conf.key # "theirs"
           /\ Head(rest) \in {"key", "flag", "version"} => HooksIn
           /\ Head(rest) = "unkey" => HooksOut,
         install[r].alone /\ rest = <<>> /\ said # "failed" =>
           /\ said = "conflict" => ~install[r].wrote
           /\ install[r].kind = "install" /\ said # "conflict" =>
                /\ HooksIn
                /\ host \notin {"codex", "cursor"} => conf.key = "ours"
                /\ host = "codex" => flag'
           /\ install[r].kind = "uninstall" => conf.key # "ours" /\ HooksOut
  PROVE  InstallInv'
<1>0. /\ install \in [Installer -> RunRecord] /\ install[r] \in RunRecord
      /\ Knows(r) /\ InsideAlone(r)
  BY DEF InstallInv
<1>1. install[r].kind # "none"
  <2>1. CASE install[r].kind = "none"
    <3>1. install[r].todo = <<>>
      BY <1>0, <2>1 DEF Knows, Stages
    <3> QED BY <3>1 DEF Running
  <2> QED BY <2>1
<1>2. rest \in Todo
  BY <1>0 DEF Todo, RunRecord, InstallInv
<1>3. /\ install' \in [Installer -> RunRecord]
      /\ install'[r].kind = install[r].kind /\ install'[r].todo = rest
      /\ install'[r].said = install[r].said \cup {said} /\ install'[r].reading = TRUE
      /\ install'[r].wrote = install[r].wrote /\ install'[r].alone = install[r].alone
      /\ \A q \in Installer \ {r} : install'[q] = install[q]
  <2>1. [install[r] EXCEPT !.said = @ \cup {said}, !.todo = rest, !.reading = TRUE, !.seen = Blank]
          \in RunRecord
    BY <1>0, <1>2, BlankIs DEF RunRecord
  <2>2. install' = [install EXCEPT ![r] = [install[r] EXCEPT !.said = @ \cup {said}, !.todo = rest,
                                          !.reading = TRUE, !.seen = Blank]]
    BY <1>0 DEF Reports
  <2> QED BY <1>0, <2>1, <2>2 DEF RunRecord
<1>4. host' = host /\ conf' = conf /\ host' \in Hosts /\ Tidy(conf)' /\ UsersStay'
  BY DEF InstallInv, Tidy, UsersStay
<1>5. ASSUME NEW q \in Installer \ {r} PROVE Knows(q)' /\ InsideAlone(q)'
  <2>1. install[q].kind = "none" \/ ~install[q].alone
    BY OnlyOneAlone
  <2>2. Knows(q)
    BY DEF InstallInv
  <2>3. install'[q] = install[q] /\ host' = host
    BY <1>3, <1>4
  <2>4. Knows(q)'
    BY <2>2, <2>3, <1>3 DEF Knows, Running, StepOf, Tidy
  <2>5. InsideAlone(q)'
    BY <2>1, <2>3 DEF InsideAlone
  <2> QED BY <2>4, <2>5
<1>6. Knows(r)'
  BY <1>3, <1>4 DEF Knows, Running, StepOf
<1>7. InsideAlone(r)'
  <2>1. SUFFICES ASSUME install[r].alone PROVE InsideAlone(r)'
    BY <1>3 DEF InsideAlone
  <2>2. Others(r) = {} /\ Midway(r)
    BY <1>0, <1>1, <2>1 DEF InsideAlone
  <2>3. Others(r)' = {}
    BY <1>3, <2>2 DEF Others, Running
  <2>4. CASE rest # <<>>
    <3>1. Running(r)' /\ StepOf(r)' = Head(rest)
      BY <1>3, <2>4 DEF Running, StepOf
    <3>2. HooksIn' = HooksIn /\ HooksOut' = HooksOut /\ States(host, conf)' = States(host, conf)
      BY <1>4 DEF HooksIn, HooksOut
    <3>3. Midway(r)'
      BY <1>3, <1>4, <2>1, <2>2, <2>4, <3>1, <3>2 DEF Midway
    <3> QED BY <1>3, <2>3, <3>1, <3>3 DEF InsideAlone
  <2>5. CASE rest = <<>>
    <3>1. ~Running(r)'
      BY <1>3, <2>5 DEF Running
    <3>2. HooksIn' = HooksIn /\ HooksOut' = HooksOut
      BY <1>4 DEF HooksIn, HooksOut
    <3>3. "conflict" \notin install[r].said
      BY <2>2 DEF Midway
    <3>4. Honest(r)'
      BY <1>3, <1>4, <2>1, <2>5, <3>2, <3>3 DEF Honest
    <3> QED BY <1>3, <2>3, <3>1, <3>4 DEF InsideAlone
  <2> QED BY <2>4, <2>5
<1> QED BY <1>3, <1>4, <1>5, <1>6, <1>7 DEF InstallInv

(* A report after which the run goes on. *)
LEMMA ReportsAndGoesOn ==
  ASSUME InstallInv, NEW r \in Installer, Running(r),
         NEW said \in Sayings, NEW rest \in Stages(install[r].kind, host), rest # <<>>,
         Reports(r, said, rest), UNCHANGED <<host, conf, left, trampled>>,
         Head(rest) # "version",
         install[r].alone =>
           /\ said # "conflict"
           /\ Head(rest) \in {"plan", "hooks"} => ~install[r].wrote
           /\ Head(rest) \in {"hooks", "key"} /\ host \notin {"codex", "cursor"} =>
                "conflict" \notin States(host, conf) /\ conf.key # "theirs"
           /\ Head(rest) \in {"key", "flag", "version"} => HooksIn
           /\ Head(rest) = "unkey" => HooksOut
  PROVE  InstallInv'
BY ReportsKeeps

(* A report with which the run ends. *)
LEMMA ReportsAndEnds ==
  ASSUME InstallInv, NEW r \in Installer, Running(r), NEW said \in Sayings,
         Reports(r, said, <<>>), UNCHANGED <<host, conf, left, trampled>>,
         install[r].alone /\ said # "failed" =>
           /\ said = "conflict" => ~install[r].wrote
           /\ install[r].kind = "install" /\ said # "conflict" =>
                /\ HooksIn
                /\ host \notin {"codex", "cursor"} => conf.key = "ours"
                /\ host = "codex" => flag'
           /\ install[r].kind = "uninstall" => conf.key # "ours" /\ HooksOut
  PROVE  InstallInv'
<1>1. <<>> \in Stages(install[r].kind, host)
  BY DEF Stages
<1> QED BY <1>1, ReportsKeeps

(* A step that has read what it needs and goes on to its write. *)
LEMMA GoesKeeps ==
  ASSUME InstallInv, NEW r \in Installer, Running(r), Goes(r),
         UNCHANGED <<host, conf, left, trampled>>,
         StepOf(r) \in {"hooks", "unhook", "key", "unkey"},
         StepOf(r) = "hooks" => "conflict" \notin States(host, conf),
         StepOf(r) = "key" => conf.key \in {"none", "stale"},
         StepOf(r) = "unkey" => conf.key = "ours"
  PROVE  InstallInv'
<1>0. /\ install \in [Installer -> RunRecord] /\ install[r] \in RunRecord
      /\ Knows(r) /\ InsideAlone(r) /\ conf \in HostFiles
  BY DEF InstallInv, Tidy
<1>1. /\ install' \in [Installer -> RunRecord]
      /\ install'[r].kind = install[r].kind /\ install'[r].todo = install[r].todo
      /\ install'[r].said = install[r].said /\ install'[r].reading = FALSE
      /\ install'[r].wrote = install[r].wrote /\ install'[r].alone = install[r].alone
      /\ install'[r].seen = conf
      /\ \A q \in Installer \ {r} : install'[q] = install[q]
  <2>1. [install[r] EXCEPT !.seen = conf, !.reading = FALSE] \in RunRecord
    BY <1>0 DEF RunRecord
  <2>2. install' = [install EXCEPT ![r] = [install[r] EXCEPT !.seen = conf, !.reading = FALSE]]
    BY <1>0 DEF Goes
  <2> QED BY <1>0, <2>1, <2>2 DEF RunRecord
<1>2. host' = host /\ conf' = conf /\ host' \in Hosts /\ Tidy(conf)' /\ UsersStay'
  BY DEF InstallInv, Tidy, UsersStay
<1>3. ASSUME NEW q \in Installer \ {r} PROVE Knows(q)' /\ InsideAlone(q)'
  <2>1. install[q].kind = "none" \/ ~install[q].alone
    BY OnlyOneAlone
  <2>2. Knows(q)
    BY DEF InstallInv
  <2>3. install'[q] = install[q] /\ host' = host
    BY <1>1, <1>2
  <2>4. Knows(q)'
    BY <2>2, <2>3, <1>1 DEF Knows, Running, StepOf, Tidy
  <2>5. InsideAlone(q)'
    BY <2>1, <2>3 DEF InsideAlone
  <2> QED BY <2>4, <2>5
<1>4. Running(r)' /\ StepOf(r)' = StepOf(r)
  BY <1>1 DEF Running, StepOf
<1>5. Knows(r)'
  <2>1. install'[r] \in RunRecord /\ install'[r].todo \in Stages(install'[r].kind, host')
    BY <1>0, <1>1, <1>2 DEF Knows
  <2>2. Tidy(install[r].seen)'
    BY <1>1, <1>2 DEF Tidy
  <2> QED BY <1>1, <1>2, <1>4, <2>1, <2>2 DEF Knows
<1>6. InsideAlone(r)'
  <2>1. SUFFICES ASSUME install[r].kind # "none", install[r].alone PROVE InsideAlone(r)'
    BY <1>1 DEF InsideAlone
  <2>2. Others(r) = {} /\ Midway(r)
    BY <1>0, <2>1 DEF InsideAlone
  <2>3. Others(r)' = {}
    BY <1>1, <2>2 DEF Others, Running
  <2>4. Midway(r)'
    BY <1>1, <1>2, <1>4, <2>2 DEF Midway, HooksIn, HooksOut
  <2> QED BY <1>1, <1>2, <1>4, <2>3, <2>4 DEF InsideAlone
<1> QED BY <1>1, <1>2, <1>3, <1>5, <1>6 DEF InstallInv

(* What the plans say of the lists. *)
LEMMA PlansSay ==
  ASSUME host \in Hosts, Tidy(conf)
  PROVE  /\ PlanHookInstall(host, conf) # "conflict" <=> "conflict" \notin States(host, conf)
         /\ PlanHookInstall(host, conf) = "already-installed" => HooksIn
         /\ PlanHookUninstall(host, conf) # "remove" => HooksOut
         /\ host \in {"json", "tool"} => HooksIn /\ HooksOut
         /\ planStatusLine(conf) = "write" => conf.key \in {"none", "stale"}
         /\ planStatusLine(conf) = "already-installed" => conf.key = "ours"
         /\ planStatusLine(conf) # "conflict" => conf.key # "theirs"
         /\ PlanUninstall(conf) = "remove" <=> conf.key = "ours"
         /\ {planStatusLine(conf), PlanHookInstall(host, conf)}
              \subseteq {"write", "already-installed", "conflict"}
         /\ {PlanUninstall(conf), PlanHookUninstall(host, conf)}
              \subseteq {"remove", "left-in-place", "not-installed"}
<1>1. \A e \in registrations(host) : Classify(conf.list[e]) \in States(host, conf)
  BY DEF States
<1>2. \A e \in Events \ registrations(host) : conf.list[e] = <<>>
  BY DEF Tidy
<1>3. ~Has(<<>>, "ours") /\ ~Has(<<>>, "stale")
  BY DEF Has
<1>4. PlanHookInstall(host, conf) = "already-installed" => HooksIn
  <2>1. ASSUME PlanHookInstall(host, conf) = "already-installed", NEW e \in registrations(host)
        PROVE  Has(conf.list[e], "ours") /\ ~Has(conf.list[e], "stale")
    <3>1. Classify(conf.list[e]) \notin {"conflict", "absent", "outdated"}
      BY <1>1, <2>1 DEF PlanHookInstall
    <3> QED BY <3>1, ClassifyIs
  <2> QED BY <2>1 DEF HooksIn
<1>5. PlanHookUninstall(host, conf) # "remove" => HooksOut
  <2>1. ASSUME PlanHookUninstall(host, conf) # "remove", NEW e \in Events
        PROVE  ~Has(conf.list[e], "ours") /\ ~Has(conf.list[e], "stale")
    <3>1. CASE e \in registrations(host)
      <4>1. Classify(conf.list[e]) \notin {"present", "outdated"}
        BY <1>1, <2>1, <3>1 DEF PlanHookUninstall
      <4> QED BY <4>1, ClassifyIs
    <3>2. CASE e \notin registrations(host)
      BY <1>2, <1>3, <3>2
    <3> QED BY <3>1, <3>2
  <2> QED BY <2>1 DEF HooksOut
<1>6. host \in {"json", "tool"} => registrations(host) = {}
  BY DEF registrations
<1>7. host \in {"json", "tool"} => HooksIn /\ HooksOut
  BY <1>2, <1>3, <1>6 DEF HooksIn, HooksOut
<1>8. conf.key \in {"none", "theirs", "stale", "ours"}
  BY DEF Tidy, HostFiles
<1>9. /\ planStatusLine(conf) = "write" => conf.key \in {"none", "stale"}
      /\ planStatusLine(conf) = "already-installed" => conf.key = "ours"
      /\ planStatusLine(conf) # "conflict" => conf.key # "theirs"
      /\ planStatusLine(conf) \in {"write", "already-installed", "conflict"}
  BY <1>8 DEF planStatusLine
<1>10. (PlanUninstall(conf) = "remove" <=> conf.key = "ours")
       /\ PlanUninstall(conf) \in {"remove", "left-in-place", "not-installed"}
  BY <1>8 DEF PlanUninstall
<1>11. (PlanHookInstall(host, conf) # "conflict" <=> "conflict" \notin States(host, conf))
       /\ PlanHookInstall(host, conf) \in {"write", "already-installed", "conflict"}
       /\ PlanHookUninstall(host, conf) \in {"remove", "left-in-place", "not-installed"}
  BY DEF PlanHookInstall, PlanHookUninstall
<1> QED BY <1>4, <1>5, <1>7, <1>9, <1>10, <1>11

(* What a run that is under way is about. *)
LEMMA AtAStep ==
  ASSUME InstallInv, NEW r \in Installer, Running(r)
  PROVE  /\ install[r].kind \in RunKinds /\ host \in Hosts /\ Tidy(conf)
         /\ install[r].todo \in Stages(install[r].kind, host) /\ install[r].todo # <<>>
         /\ install[r].kind # "none" /\ install[r].alone \in BOOLEAN
         /\ <<>> \in Stages(install[r].kind, host)
         /\ install[r].alone => Midway(r) /\ Others(r) = {}
<1>1. Knows(r) /\ InsideAlone(r) /\ install[r] \in RunRecord
  BY DEF InstallInv
<1>2. install[r].kind # "none"
  <2>1. CASE install[r].kind = "none"
    <3>1. install[r].todo = <<>>
      BY <1>1, <2>1 DEF Knows, Stages
    <3> QED BY <3>1 DEF Running
  <2> QED BY <2>1
<1>3. <<>> \in Stages(install[r].kind, host)
  BY DEF Stages
<1> QED BY <1>1, <1>2, <1>3 DEF Knows, InsideAlone, Running, RunRecord, InstallInv

(* The reads (plan, peek, and those before a write). *)
LEMMA ReadPreserves ==
  ASSUME InstallInv, NEW r \in Installer, Read(r)
  PROVE  InstallInv'
<1> DEFINE s == install[r].todo
           rest == Tail(s)
<1>0. Running(r) /\ UNCHANGED <<host, conf, flag, left, trampled>> /\ StepOf(r) = Head(s)
  BY DEF Read, StepOf
<1>1. /\ host \in Hosts /\ Tidy(conf) /\ s # <<>> /\ install[r].kind \in RunKinds
      /\ s \in Stages(install[r].kind, host) /\ install[r].alone \in BOOLEAN
      /\ install[r].alone => Midway(r)
      /\ install[r].kind # "none" /\ <<>> \in Stages(install[r].kind, host)
  BY <1>0, AtAStep
<1>2. rest \in Stages(install[r].kind, host)
  BY <1>1, StageFacts, Zenon
<1> HIDE DEF s
<1>3. CASE StepOf(r) = "plan" /\ Plan(r)
  <2>1. install[r].kind = "install" /\ host \notin {"codex", "cursor"} /\ rest # <<>>
        /\ Head(rest) = (IF host = "claude-code" THEN "hooks" ELSE "key")
    BY <1>0, <1>1, <1>3, StageFacts
  <2>2. install[r].alone => ~install[r].wrote
    BY <1>1, <1>3 DEF Midway
  <2> DEFINE found == {planStatusLine(conf)} \cup {PlanHookInstall(host, conf)}
  <2>3. CASE "conflict" \in found
    <3>1. Reports(r, "conflict", <<>>)
      BY <1>3, <2>3 DEF Plan
    <3> QED BY <1>0, <1>1, <2>1, <2>2, <3>1, ReportsAndEnds DEF Sayings
  <2>4. CASE "conflict" \notin found
    <3>1. PICK said \in {"already-installed", "plan"} : Reports(r, said, rest)
      BY <1>3, <2>4 DEF Plan, s
    <3>2. "conflict" \notin States(host, conf) /\ conf.key # "theirs"
      BY <1>1, <2>4, PlansSay
    <3>3. host # "claude-code" => HooksIn
      BY <1>1, <2>1, PlansSay DEF Hosts
    <3>4. said \in Sayings /\ said # "conflict"
      BY DEF Sayings
    <3> HIDE DEF found, rest
    <3> QED BY <1>0, <1>1, <1>2, <2>1, <2>2, <3>1, <3>2, <3>3, <3>4, ReportsAndGoesOn
  <2> QED BY <2>3, <2>4
<1>4. CASE StepOf(r) = "peek"
  <2>1. install[r].kind = "uninstall" /\ rest # <<>>
        /\ Head(rest) = (IF host \in {"json", "tool"} THEN "unkey" ELSE "unhook")
    BY <1>0, <1>1, <1>4, StageFacts
  <2>2. host \in {"json", "tool"} => HooksOut
    BY <1>1, PlansSay
  <2>3. CASE Reports(r, "peek", rest)
    <3> HIDE DEF rest
    <3> QED BY <1>0, <1>1, <1>2, <2>1, <2>2, <2>3, ReportsAndGoesOn DEF Sayings
  <2>4. CASE Reports(r, "not-installed", <<>>) /\ PlanHookUninstall(host, conf) = "not-installed"
             /\ PlanUninstall(conf) = "not-installed"
    <3>1. HooksOut /\ conf.key # "ours"
      BY <1>1, <2>4, PlansSay
    <3> QED BY <1>0, <1>1, <2>1, <2>4, <3>1, ReportsAndEnds DEF Sayings
  <2> QED BY <1>4, <2>3, <2>4 DEF Read, HasEntry, Plan, ReadHooks, ReadKey, s
<1>5. CASE StepOf(r) \in {"hooks", "unhook"} /\ ReadHooks(r)
  <2> DEFINE found == IF StepOf(r) = "hooks" THEN PlanHookInstall(host, conf)
                      ELSE PlanHookUninstall(host, conf)
  <2>1. CASE found \in {"write", "remove"}
    <3>1. Goes(r)
      BY <1>5, <2>1 DEF ReadHooks
    <3>2. StepOf(r) = "hooks" => "conflict" \notin States(host, conf)
      BY <1>1, <2>1, PlansSay
    <3> QED BY <1>0, <1>5, <3>1, <3>2, GoesKeeps
  <2>2. CASE found \notin {"write", "remove"} /\ StepOf(r) = "hooks"
    <3>1. install[r].kind = "install" /\ host \notin {"json", "tool"} /\ rest # <<>>
          /\ Head(rest) = (IF host = "claude-code" THEN "key"
                           ELSE IF host = "codex" THEN "flag" ELSE "version")
      BY <1>0, <1>1, <2>2, StageFacts
    <3>2. install[r].alone => ~install[r].wrote
            /\ (host = "claude-code" => "conflict" \notin States(host, conf) /\ conf.key # "theirs")
      BY <1>1, <2>2 DEF Midway
    <3>3. found \in {"already-installed", "conflict"}
      BY <1>1, <2>2, PlansSay
    <3>4. found = "already-installed" => HooksIn
      BY <1>1, <2>2, PlansSay
    <3>5. CASE host = "cursor" \/ (host = "codex" /\ found = "conflict")
      <4>1. Reports(r, found, <<>>)
        BY <1>5, <2>2, <3>5 DEF ReadHooks
      <4>2. found \in Sayings
        BY <3>3 DEF Sayings
      <4> HIDE DEF found, rest
      <4> QED BY <1>0, <1>1, <3>1, <3>2, <3>3, <3>4, <3>5, <4>1, <4>2, ReportsAndEnds
    <3>6. CASE ~(host = "cursor" \/ (host = "codex" /\ found = "conflict"))
      <4>1. Reports(r, found, rest)
        BY <1>5, <2>2, <3>6 DEF ReadHooks, s
      <4>2. install[r].alone => found = "already-installed"
        <5>1. host \in {"claude-code", "codex"}
          BY <1>1, <3>1, <3>6 DEF Hosts
        <5>2. install[r].alone /\ host = "claude-code" => found # "conflict"
          BY <1>1, <2>2, <3>2, PlansSay
        <5> HIDE DEF found
        <5> QED BY <3>3, <3>6, <5>1, <5>2
      <4>3. found \in Sayings /\ Head(rest) # "version"
        BY <1>1, <3>1, <3>3, <3>6 DEF Sayings, Hosts
      <4> HIDE DEF found, rest
      <4> QED BY <1>0, <1>1, <1>2, <3>1, <3>2, <3>4, <3>6, <4>1, <4>2, <4>3, ReportsAndGoesOn
    <3> QED BY <3>5, <3>6
  <2>3. CASE found \notin {"write", "remove"} /\ StepOf(r) = "unhook"
    <3>1. install[r].kind = "uninstall" /\ host \notin {"json", "tool"}
          /\ (IF host = "claude-code" THEN rest # <<>> /\ Head(rest) = "unkey" ELSE rest = <<>>)
      BY <1>0, <1>1, <2>3, StageFacts
    <3>2. HooksOut
      BY <1>1, <2>3, PlansSay
    <3>3. found \in {"left-in-place", "not-installed"}
      BY <1>1, <2>3, PlansSay
    <3>4. Reports(r, found, rest)
      <4>1. Reports(r, found, rest) \/ (host = "cursor" /\ Reports(r, found, <<>>))
        BY <1>5, <2>3, <3>3 DEF ReadHooks, s
      <4> HIDE DEF found, rest
      <4> QED BY <3>1, <4>1
    <3>5. host # "claude-code" => conf.key # "ours"
      BY <1>1, <3>1 DEF Tidy, Hosts
    <3>6. found \in Sayings
      BY <3>3 DEF Sayings
    <3> HIDE DEF found, rest
    <3>7. CASE rest = <<>>
      BY <1>0, <1>1, <3>1, <3>2, <3>3, <3>4, <3>5, <3>6, <3>7, ReportsAndEnds
    <3>8. CASE rest # <<>>
      BY <1>0, <1>1, <1>2, <3>1, <3>2, <3>3, <3>4, <3>5, <3>6, <3>8, ReportsAndGoesOn
    <3> QED BY <3>7, <3>8
  <2> QED BY <1>5, <2>1, <2>2, <2>3
<1>6. CASE StepOf(r) \in {"key", "unkey"} /\ ReadKey(r)
  <2> DEFINE found == IF StepOf(r) = "key" THEN planStatusLine(conf) ELSE PlanUninstall(conf)
  <2>1. CASE found \in {"write", "remove"}
    <3>1. Goes(r)
      BY <1>6, <2>1 DEF ReadKey
    <3>2. /\ StepOf(r) = "key" => conf.key \in {"none", "stale"}
          /\ StepOf(r) = "unkey" => conf.key = "ours"
      BY <1>1, <2>1, PlansSay
    <3> QED BY <1>0, <1>6, <3>1, <3>2, GoesKeeps
  <2>2. CASE found \notin {"write", "remove"}
    <3>1. host \notin {"codex", "cursor"} /\ rest = <<>>
          /\ (StepOf(r) = "key" => install[r].kind = "install")
          /\ (StepOf(r) = "unkey" => install[r].kind = "uninstall")
      BY <1>0, <1>1, <1>6, StageFacts
    <3>2. Reports(r, found, <<>>)
      BY <1>6, <2>2, <3>1 DEF ReadKey, s
    <3>3. CASE StepOf(r) = "key"
      <4>1. found \in {"already-installed", "conflict"} /\ (found = "already-installed" => conf.key = "ours")
            /\ (found # "conflict" <=> conf.key # "theirs")
        <5>1. conf.key # "theirs" => planStatusLine(conf) # "conflict"
          BY <1>1 DEF planStatusLine, Tidy, HostFiles
        <5> QED BY <1>1, <2>2, <3>3, <5>1, PlansSay
      <4>2. install[r].alone => HooksIn /\ conf.key # "theirs"
        BY <1>1, <3>1, <3>3 DEF Midway
      <4>3. found \in Sayings
        BY <4>1 DEF Sayings
      <4> HIDE DEF found, rest
      <4> QED BY <1>0, <1>1, <3>1, <3>2, <3>3, <4>1, <4>2, <4>3, ReportsAndEnds
    <3>4. CASE StepOf(r) = "unkey"
      <4>1. found \in {"left-in-place", "not-installed"} /\ conf.key # "ours"
        BY <1>1, <2>2, <3>4, PlansSay
      <4>2. install[r].alone => HooksOut
        BY <1>1, <3>4 DEF Midway
      <4>3. found \in Sayings
        BY <4>1 DEF Sayings
      <4> HIDE DEF found, rest
      <4> QED BY <1>0, <1>1, <3>1, <3>2, <3>4, <4>1, <4>2, <4>3, ReportsAndEnds
    <3> QED BY <1>6, <3>3, <3>4
  <2> QED BY <2>1, <2>2
<1>7. CASE Reports(r, "failed", <<>>)
  BY <1>0, <1>1, <1>7, ReportsAndEnds DEF Sayings
<1> QED BY <1>3, <1>4, <1>5, <1>6, <1>7 DEF Read, Plan, HasEntry, ReadHooks, ReadKey

(* The feature flag in Codex's own configuration. *)
LEMMA SetFlagPreserves ==
  ASSUME InstallInv, NEW r \in Installer, SetFlag(r)
  PROVE  InstallInv'
<1> DEFINE s == install[r].todo
<1>0. Running(r) /\ UNCHANGED <<host, conf, left, trampled>> /\ Head(s) = "flag" /\ flag'
      /\ Reports(r, "flag", <<>>) /\ StepOf(r) = "flag"
  BY DEF SetFlag, StepOf
<1>1. host \in Hosts /\ s # <<>> /\ install[r].kind \in RunKinds
      /\ s \in Stages(install[r].kind, host) /\ (install[r].alone => Midway(r))
  BY <1>0, AtAStep
<1>2. install[r].kind = "install" /\ host = "codex"
  BY <1>0, <1>1, StageFacts
<1>3. install[r].alone => HooksIn
  BY <1>0, <1>1 DEF Midway
<1> HIDE DEF s
<1> QED BY <1>0, <1>2, <1>3, ReportsAndEnds DEF Sayings

(* A run that fails at a step. *)
LEMMA FailPreserves ==
  ASSUME InstallInv, NEW r \in Installer, FailInstall(r)
  PROVE  InstallInv'
BY ReportsAndEnds DEF FailInstall, Sayings

(* The writes, also of a run that another one or an editor overtook. *)
LEMMA WritePreserves ==
  ASSUME InstallInv, NEW r \in Installer, Write(r)
  PROVE  InstallInv'
<1> DEFINE s == install[r].todo
           rest == Tail(s)
           seen == install[r].seen
           from == IF host = "tool" THEN conf ELSE seen
           f == Rewritten(host, StepOf(r), from)
           stamps == rest # <<>> /\ Head(rest) = "version" /\ f.version = "none"
           todo == IF host = "cursor" /\ ~stamps THEN <<>> ELSE rest
<1>0. /\ Running(r) /\ ~install[r].reading /\ StepOf(r) = Head(s)
      /\ conf' = f /\ trampled' = (trampled \/ Theirs(seen) # Theirs(conf))
      /\ host' = host /\ flag' = flag /\ left' = left
  BY DEF Write, StepOf
<1>1. /\ host \in Hosts /\ Tidy(conf) /\ s # <<>> /\ install[r].kind \in RunKinds
      /\ s \in Stages(install[r].kind, host)
      /\ install[r].alone => Midway(r) /\ Others(r) = {}
      /\ install[r].kind # "none" /\ <<>> \in Stages(install[r].kind, host)
  BY <1>0, AtAStep
<1>2. /\ Tidy(seen) /\ StepOf(r) \in {"hooks", "unhook", "key", "unkey", "version"}
      /\ StepOf(r) = "hooks" => "conflict" \notin States(host, seen)
      /\ StepOf(r) = "key" => seen.key \in {"none", "stale"}
      /\ StepOf(r) = "unkey" => seen.key = "ours"
      /\ StepOf(r) = "version" => seen.version = "none"
      /\ install[r].alone => seen = conf
      /\ install \in [Installer -> RunRecord] /\ install[r] \in RunRecord
  BY <1>0, <1>1 DEF InstallInv, Knows, InsideAlone
<1>3. /\ StepOf(r) \in {"key", "unkey"} => host \notin {"codex", "cursor"} /\ rest = <<>>
      /\ StepOf(r) = "hooks" => install[r].kind = "install" /\ host \notin {"json", "tool"}
           /\ rest # <<>> /\ Head(rest) = (IF host = "claude-code" THEN "key"
                                          ELSE IF host = "codex" THEN "flag" ELSE "version")
      /\ StepOf(r) = "unhook" => install[r].kind = "uninstall" /\ host \notin {"json", "tool"}
           /\ (IF host = "claude-code" THEN rest # <<>> /\ Head(rest) = "unkey" ELSE rest = <<>>)
      /\ StepOf(r) = "key" => install[r].kind = "install"
      /\ StepOf(r) = "unkey" => install[r].kind = "uninstall"
      /\ StepOf(r) = "version" => install[r].kind = "install" /\ host = "cursor" /\ rest = <<>>
      /\ rest \in Stages(install[r].kind, host)
  BY <1>0, <1>1, <1>2, StageFacts
<1>4. todo \in Stages(install[r].kind, host) /\ todo \in Todo
  BY <1>1, <1>3 DEF Todo
<1> HIDE DEF s, rest
<1>5. Tidy(from)
  BY <1>1, <1>2
<1>6. /\ Tidy(f)
      /\ (StepOf(r) \in {"key", "unkey"} => from.key # "theirs")
           /\ (StepOf(r) = "version" => from.version # "theirs") => Theirs(f) = Theirs(from)
      /\ StepOf(r) = "hooks" => f.key = from.key /\ \A e \in registrations(host) :
           Classify(from.list[e]) # "conflict" => Has(f.list[e], "ours") /\ ~Has(f.list[e], "stale")
      /\ StepOf(r) = "unhook" => f.key = from.key /\ \A e \in Events :
           ~Has(f.list[e], "ours") /\ ~Has(f.list[e], "stale")
      /\ StepOf(r) = "key" => f.key = "ours" /\ f.list = from.list
      /\ StepOf(r) = "unkey" => f.key = "none" /\ f.list = from.list
      /\ StepOf(r) = "version" => f.version = "ours" /\ f.list = from.list /\ f.key = from.key
  <2> HIDE DEF from
  <2> QED BY <1>1, <1>2, <1>3, <1>5, RewrittenIs
<1> HIDE DEF f
<1>7. UsersStay'
  <2>1. SUFFICES ASSUME ~trampled, Theirs(seen) = Theirs(conf) PROVE Theirs(f) = left
    BY <1>0 DEF UsersStay
  <2>2. Theirs(conf) = left /\ Theirs(from) = left
    BY <2>1 DEF InstallInv, UsersStay
  <2>3. (from.key = "theirs") = (seen.key = "theirs")
        /\ (from.version = "theirs") = (seen.version = "theirs")
    BY <2>1 DEF Theirs
  <2> HIDE DEF from
  <2> QED BY <1>2, <1>6, <2>2, <2>3
<1>8. /\ install' \in [Installer -> RunRecord]
      /\ install'[r].kind = install[r].kind /\ install'[r].todo = todo
      /\ install'[r].said = install[r].said \cup {"written"} /\ install'[r].reading = ~stamps
      /\ install'[r].wrote = TRUE /\ install'[r].alone = install[r].alone
      /\ install'[r].seen = (IF stamps THEN f ELSE Blank)
      /\ \A q \in Installer \ {r} : install'[q] = install[q]
  <2> DEFINE new == [install[r] EXCEPT !.seen = IF stamps THEN f ELSE Blank, !.reading = ~stamps,
                       !.wrote = TRUE, !.said = @ \cup {"written"}, !.todo = todo]
  <2>1. new \in RunRecord
    <3>1. (IF stamps THEN f ELSE Blank) \in HostFiles
      BY <1>6, BlankIs DEF Tidy
    <3> HIDE DEF stamps, todo
    <3> QED BY <1>2, <1>4, <3>1 DEF RunRecord, Sayings
  <2>2. install' = [install EXCEPT ![r] = new]
    BY <1>2 DEF Write, f, s, rest
  <2> HIDE DEF stamps, todo
  <2> QED BY <1>2, <2>1, <2>2 DEF RunRecord
<1>9. ASSUME NEW q \in Installer \ {r} PROVE Knows(q)' /\ InsideAlone(q)'
  <2>1. install[q].kind = "none" \/ ~install[q].alone
    BY <1>0, OnlyOneAlone
  <2>2. Knows(q)
    BY DEF InstallInv
  <2>3. install'[q] = install[q] /\ host' = host
    BY <1>0, <1>8
  <2>4. Knows(q)'
    BY <2>2, <2>3, <1>8 DEF Knows, Running, StepOf, Tidy
  <2>5. InsideAlone(q)'
    BY <2>1, <2>3 DEF InsideAlone
  <2> QED BY <2>4, <2>5
<1>10. stamps => todo = rest /\ StepOf(r) = "hooks" /\ host = "cursor"
  BY <1>1, <1>2, <1>3 DEF Hosts
<1>11. todo # <<>> => todo = rest /\ (Head(rest) = "version" <=> stamps)
  <2>1. ASSUME todo # <<>>, Head(rest) = "version", ~stamps PROVE FALSE
    <3>1. rest # <<>> /\ host # "cursor"
      BY <2>1
    <3>2. StepOf(r) = "hooks"
      BY <1>2, <1>3, <2>1, <3>1
    <3> QED BY <1>1, <1>3, <2>1, <3>1, <3>2 DEF Hosts
  <2> QED BY <2>1
<1> HIDE DEF todo
<1>12. Running(r)' <=> todo # <<>>
  BY <1>8 DEF Running
<1>13. StepOf(r)' = Head(todo)
  BY <1>8 DEF StepOf
<1>14. Knows(r)'
  <2>1. install'[r] \in RunRecord /\ install'[r].todo \in Stages(install'[r].kind, host')
    BY <1>0, <1>4, <1>8
  <2>2. stamps => todo # <<>> /\ Head(todo) = "version" /\ f.version = "none"
    BY <1>10
  <2>3. todo # <<>> /\ Head(todo) = "version" => stamps
    BY <1>11
  <2>4. stamps => install'[r].seen = f /\ Tidy(install[r].seen)'
    BY <1>0, <1>6, <1>8 DEF Tidy
  <2> HIDE DEF stamps
  <2> QED BY <1>8, <1>12, <1>13, <2>1, <2>2, <2>3, <2>4 DEF Knows
<1>15. InsideAlone(r)'
  <2>1. SUFFICES ASSUME install[r].alone PROVE InsideAlone(r)'
    BY <1>8 DEF InsideAlone
  <2>2. Others(r) = {} /\ Midway(r) /\ seen = conf /\ from = conf
    BY <1>1, <1>2, <2>1
  <2>3. Others(r)' = {}
    BY <1>8, <2>2 DEF Others, Running
  <2>4. StepOf(r) = "hooks" => HooksIn'
    <3>1. ASSUME StepOf(r) = "hooks", NEW e \in registrations(host)
          PROVE  Has(f.list[e], "ours") /\ ~Has(f.list[e], "stale")
      <4>1. Classify(conf.list[e]) # "conflict"
        BY <1>2, <2>2, <3>1 DEF States
      <4> QED BY <1>6, <2>2, <3>1, <4>1
    <3> QED BY <1>0, <3>1 DEF HooksIn
  <2>5. StepOf(r) = "unhook" => HooksOut'
    BY <1>0, <1>6 DEF HooksOut
  <2>6. StepOf(r) \in {"key", "version"} => HooksIn'
    BY <1>0, <1>6, <2>2 DEF HooksIn, Midway
  <2>7. StepOf(r) = "unkey" => HooksOut'
    BY <1>0, <1>6, <2>2 DEF HooksOut, Midway
  <2>8. "conflict" \notin install'[r].said
    BY <1>8, <2>2 DEF Midway
  <2>9. CASE todo # <<>>
    <3>1. todo = rest /\ StepOf(r) \in {"hooks", "unhook"}
      BY <1>2, <1>3, <1>11, <2>9
    <3>2. CASE StepOf(r) = "hooks"
      <4>1. Head(todo) \in {"key", "flag", "version"} /\ (Head(todo) = "key" => host = "claude-code")
        BY <1>1, <1>3, <3>1, <3>2 DEF Hosts
      <4>2. "conflict" \notin States(host, conf)'
        <5>1. \A e \in registrations(host) : Classify(f.list[e]) = "present"
          BY <1>0, <2>4, <3>2, ClassifyIs DEF HooksIn
        <5> QED BY <1>0, <5>1 DEF States
      <4>3. host \notin {"codex", "cursor"} => conf'.key # "theirs"
        BY <1>0, <1>6, <2>2, <3>2 DEF Midway
      <4> QED BY <1>0, <1>8, <1>12, <1>13, <2>3, <2>4, <2>8, <2>9, <3>2, <4>1, <4>2, <4>3, <1>11
              DEF InsideAlone, Midway
    <3>3. CASE StepOf(r) = "unhook"
      <4>1. Head(todo) = "unkey"
        BY <1>3, <2>9, <3>1, <3>3
      <4>2. ~stamps
        BY <1>11, <2>9, <3>1, <4>1
      <4> HIDE DEF stamps
      <4> QED BY <1>0, <1>8, <1>12, <1>13, <2>3, <2>5, <2>8, <2>9, <3>3, <4>1, <4>2 DEF InsideAlone, Midway
    <3> QED BY <3>1, <3>2, <3>3
  <2>10. CASE todo = <<>>
    <3>1. ~stamps
      BY <1>10, <2>10
    <3>2. install[r].kind = "install" =>
            /\ HooksIn'
            /\ host \notin {"codex", "cursor"} => conf'.key = "ours"
            /\ host # "codex"
      <4>1. ASSUME install[r].kind = "install" PROVE StepOf(r) \in {"hooks", "key", "version"}
        BY <1>2, <1>3, <4>1
      <4>2. StepOf(r) = "hooks" => host = "cursor"
        BY <1>3, <2>10 DEF todo
      <4> QED BY <1>0, <1>3, <1>6, <2>4, <2>6, <4>1, <4>2
    <3>3. install[r].kind = "uninstall" => conf'.key # "ours" /\ HooksOut'
      <4>1. ASSUME install[r].kind = "uninstall" PROVE StepOf(r) \in {"unhook", "unkey"}
        BY <1>2, <1>3, <4>1
      <4>2. ASSUME StepOf(r) = "unhook" PROVE host \in {"codex", "cursor"}
        BY <1>1, <1>3, <2>10, <4>2 DEF todo, Hosts
      <4>3. host \in {"codex", "cursor"} => f.key = "none"
        BY <1>6 DEF Tidy
      <4> QED BY <1>0, <1>6, <2>5, <2>7, <4>1, <4>2, <4>3
    <3>4. Honest(r)'
      BY <1>0, <1>8, <2>8, <3>2, <3>3 DEF Honest
    <3> HIDE DEF stamps
    <3> QED BY <1>8, <1>12, <2>3, <2>10, <3>1, <3>4 DEF InsideAlone
  <2> QED BY <2>9, <2>10
<1>16. host' \in Hosts /\ Tidy(conf)'
  BY <1>0, <1>1, <1>6 DEF Tidy
<1>17. \A q \in Installer : Knows(q)' /\ InsideAlone(q)'
  BY <1>9, <1>14, <1>15, Zenon
<1>18. install' \in [Installer -> RunRecord]
  BY <1>8, Zenon
<1> QED BY <1>7, <1>16, <1>17, <1>18, Zenon DEF InstallInv

(* A run that begins beside others that are not over is not alone. *)
LEMMA BeginPreserves ==
  ASSUME InstallInv, NEW r \in Installer, NEW kind \in {"install", "uninstall"},
         BeginInstall(r, kind)
  PROVE  InstallInv'
<1> DEFINE todo == IF kind = "install" THEN Install(host) ELSE Uninstall(host)
           new == [NoInstall EXCEPT !.kind = kind, !.alone = Others(r) = {}, !.todo = todo]
<1>0. /\ ~Running(r) /\ UNCHANGED <<host, conf, flag, left, trampled>>
      /\ install' = [q \in Installer |->
           IF q = r THEN new
           ELSE IF Running(q) THEN [install[q] EXCEPT !.alone = FALSE] ELSE NoInstall]
  BY DEF BeginInstall
<1>1. install \in [Installer -> RunRecord] /\ host \in Hosts
  BY DEF InstallInv
<1>2. /\ todo \in Stages(kind, host) /\ todo # <<>> /\ Head(todo) # "version"
      /\ Head(todo) \in {"plan", "hooks", "peek"}
      /\ Head(todo) = "hooks" => host \in {"codex", "cursor"}
  BY <1>1, Tail2, Tail3 DEF Install, Uninstall, Stages, Hosts
<1>3. todo \in Todo /\ kind \in RunKinds
  BY <1>1, <1>2 DEF Todo, RunKinds
<1> HIDE DEF todo
<1>4. new \in RunRecord /\ new.kind = kind /\ new.todo = todo /\ new.alone = (Others(r) = {})
      /\ new.reading = TRUE /\ new.said = {} /\ new.wrote = FALSE
  BY <1>3, BlankIs DEF RunRecord
<1> HIDE DEF new
<1>5. ASSUME NEW q \in Installer \ {r}, Running(q)
      PROVE  /\ install'[q] \in RunRecord /\ install'[q].todo = install[q].todo
             /\ install'[q].kind = install[q].kind /\ install'[q].seen = install[q].seen
             /\ install'[q].reading = install[q].reading /\ install'[q].alone = FALSE
  <2>1. install'[q] = [install[q] EXCEPT !.alone = FALSE]
    BY <1>0, <1>5
  <2> DEFINE old == install[q]
  <2>2. old \in RunRecord
    BY <1>1
  <2> HIDE DEF old
  <2>3. LET v == [old EXCEPT !.alone = FALSE]
        IN  /\ v \in RunRecord /\ v.todo = old.todo /\ v.kind = old.kind /\ v.seen = old.seen
            /\ v.reading = old.reading /\ v.alone = FALSE
    BY <2>2 DEF RunRecord
  <2> QED BY <2>1, <2>3 DEF old
<1>6. ASSUME NEW q \in Installer \ {r}, ~Running(q) PROVE install'[q] = NoInstall
  BY <1>0, <1>6
<1>7. install'[r] = new
  BY <1>0
<1>8. install' \in [Installer -> RunRecord]
  BY <1>0, <1>4, <1>5, <1>6, <1>7, BlankIs
<1>9. ASSUME NEW q \in Installer \ {r} PROVE Knows(q)' /\ InsideAlone(q)'
  <2>1. CASE Running(q)
    <3>1. Knows(q)
      BY DEF InstallInv
    <3>2. Knows(q)'
      BY <1>0, <1>5, <2>1, <3>1 DEF Knows, Running, StepOf, Tidy
    <3> QED BY <1>5, <2>1, <3>2 DEF InsideAlone
  <2>2. CASE ~Running(q)
    <3>1. <<>> \in Stages("none", host')
      BY DEF Stages
    <3> QED BY <1>6, <2>2, <3>1, BlankIs DEF Knows, InsideAlone, Running
  <2> QED BY <2>1, <2>2
<1>10. Knows(r)'
  BY <1>0, <1>2, <1>4, <1>7 DEF Knows, Running, StepOf
<1>11. InsideAlone(r)'
  <2>1. ASSUME Others(r) = {} PROVE Others(r)' = {}
    <3>1. \A q \in Installer \ {r} : ~Running(q)
      BY <2>1 DEF Others
    <3>2. \A q \in Installer \ {r} : install'[q].todo = <<>>
      BY <1>6, <3>1, BlankIs
    <3> QED BY <3>2 DEF Others, Running
  <2>2. Running(r)' /\ StepOf(r)' = Head(todo)
    BY <1>2, <1>4, <1>7 DEF Running, StepOf
  <2>3. Midway(r)'
    BY <1>0, <1>2, <1>4, <1>7, <2>2 DEF Midway
  <2> QED BY <1>4, <1>7, <2>1, <2>2, <2>3 DEF InsideAlone
<1>12. host' \in Hosts /\ Tidy(conf)' /\ UsersStay'
  BY <1>0 DEF InstallInv, Tidy, UsersStay
<1> QED BY <1>8, <1>9, <1>10, <1>11, <1>12 DEF InstallInv

(* The person or the host: their entries, and landfall's rewritten. *)
LEMMA EditedIsTidy ==
  ASSUME InstallInv, NEW f \in Edited
  PROVE  Tidy(f)
<1>0. /\ conf \in HostFiles /\ conf.list \in [Events -> Seq(Element)] /\ conf.ok \in BOOLEAN
      /\ conf.key \in {"none", "theirs", "stale", "ours"}
      /\ conf.version \in {"none", "theirs", "ours"}
      /\ \A e \in Events : OneOfOurs(conf.list[e])
      /\ \A e \in Events \ registrations(host) : conf.list[e] = <<>>
      /\ host \in {"codex", "cursor"} => conf.key = "none"
      /\ registrations(host) \subseteq Events
  BY DEF InstallInv, Tidy, HostFiles, registrations, Events
<1>1. ASSUME NEW e \in registrations(host), NEW list \in Seq(Element), OneOfOurs(list),
             f = [conf EXCEPT !.list[e] = list]
      PROVE  Tidy(f)
  <2>1. [conf.list EXCEPT ![e] = list] \in [Events -> Seq(Element)]
    BY <1>0, <1>1
  <2>2. f \in HostFiles /\ f.list = [conf.list EXCEPT ![e] = list] /\ f.key = conf.key
    BY <1>0, <1>1, <2>1 DEF HostFiles
  <2> QED BY <1>0, <1>1, <2>2 DEF Tidy
<1>2. CASE \E e \in registrations(host) :
             f = [conf EXCEPT !.list[e] = Append(conf.list[e], "theirs")]
  <2>1. PICK e \in registrations(host) :
          f = [conf EXCEPT !.list[e] = Append(conf.list[e], "theirs")]
    BY <1>2
  <2> DEFINE s == conf.list[e]
             new == Append(s, "theirs")
  <2>2. s \in Seq(Element) /\ "theirs" \in Element /\ OneOfOurs(s)
    BY <1>0 DEF Element
  <2> HIDE DEF s
  <2>3. new \in Seq(Element) /\ Len(new) = Len(s) + 1 /\ DOMAIN new = 1..Len(new)
        /\ new[Len(new)] = "theirs" /\ (\A i \in 1..Len(s) : new[i] = s[i])
        /\ DOMAIN s = 1..Len(s) /\ Len(s) \in Nat
    BY <2>2, AppendProperties
  <2> HIDE DEF new
  <2>4. \A i \in 1..Len(new) : i = Len(new) \/ i \in 1..Len(s)
    BY <2>3
  <2>5. OneOfOurs(new)
    BY <2>2, <2>3, <2>4 DEF OneOfOurs
  <2> QED BY <1>1, <2>1, <2>3, <2>5 DEF new, s
<1>3. CASE \E e \in registrations(host) : \E i \in DOMAIN conf.list[e] :
             f = [conf EXCEPT !.list[e] = [conf.list[e] EXCEPT ![i] = "edited"]]
  <2>1. PICK e \in registrations(host) : \E i \in DOMAIN conf.list[e] :
          f = [conf EXCEPT !.list[e] = [conf.list[e] EXCEPT ![i] = "edited"]]
    BY <1>3
  <2>0. PICK i \in DOMAIN conf.list[e] :
          f = [conf EXCEPT !.list[e] = [conf.list[e] EXCEPT ![i] = "edited"]]
    BY <2>1
  <2> DEFINE s == conf.list[e]
             new == [s EXCEPT ![i] = "edited"]
  <2>2. s \in Seq(Element) /\ "edited" \in Element /\ OneOfOurs(s) /\ i \in DOMAIN s
    BY <1>0 DEF Element
  <2> HIDE DEF s
  <2>3. new \in Seq(Element) /\ DOMAIN new = DOMAIN s
        /\ \A j \in DOMAIN s : new[j] = IF j = i THEN "edited" ELSE s[j]
    BY <2>2
  <2> HIDE DEF new
  <2>4. OneOfOurs(new)
    BY <2>2, <2>3 DEF OneOfOurs
  <2> QED BY <1>1, <2>0, <2>3, <2>4 DEF new, s
<1>4. CASE host \notin {"codex", "cursor"} /\ \E k \in {"none", "theirs"} : f = [conf EXCEPT !.key = k]
  <2>1. f \in HostFiles /\ f.list = conf.list
    BY <1>0, <1>4 DEF HostFiles
  <2> QED BY <1>0, <1>4, <2>1 DEF Tidy
<1>5. CASE f = [conf EXCEPT !.ok = ~@]
  <2>1. f \in HostFiles /\ f.list = conf.list /\ f.key = conf.key
    BY <1>0, <1>5 DEF HostFiles
  <2> QED BY <1>0, <2>1 DEF Tidy
<1> QED
  <2>1. \/ \E e \in registrations(host) : f = [conf EXCEPT !.list[e] = Append(conf.list[e], "theirs")]
        \/ \E e \in registrations(host) : \E i \in DOMAIN conf.list[e] :
             f = [conf EXCEPT !.list[e] = [conf.list[e] EXCEPT ![i] = "edited"]]
        \/ host \notin {"codex", "cursor"} /\ \E k \in {"none", "theirs"} : f = [conf EXCEPT !.key = k]
        \/ f = [conf EXCEPT !.ok = ~@]
    BY DEF Edited
  <2> QED BY <2>1, <1>2, <1>3, <1>4, <1>5

(* A person or the host edits the configuration in between. *)
LEMMA EditPreserves ==
  ASSUME InstallInv, EditConfig
  PROVE  InstallInv'
<1>0. /\ host' = host /\ left' = Theirs(conf)'
      /\ install' = [q \in Installer |->
           IF Running(q) THEN [install[q] EXCEPT !.alone = FALSE] ELSE NoInstall]
  BY DEF EditConfig
<1>1. install \in [Installer -> RunRecord] /\ host \in Hosts
  BY DEF InstallInv
<1>2. Tidy(conf')
  BY EditedIsTidy DEF EditConfig, InstallInv
<1>3. Tidy(conf)'
  BY <1>0, <1>2 DEF Tidy
<1>4. ASSUME NEW q \in Installer PROVE install'[q] \in RunRecord /\ Knows(q)' /\ InsideAlone(q)'
  <2>1. CASE Running(q)
    <3>1. install'[q] = [install[q] EXCEPT !.alone = FALSE]
      BY <1>0, <2>1
    <3>2. /\ install'[q] \in RunRecord /\ install'[q].todo = install[q].todo
          /\ install'[q].kind = install[q].kind /\ install'[q].seen = install[q].seen
          /\ install'[q].reading = install[q].reading /\ install'[q].alone = FALSE
      BY <1>1, <3>1 DEF RunRecord
    <3>3. Knows(q)
      BY DEF InstallInv
    <3>4. Knows(q)'
      BY <1>0, <3>2, <3>3 DEF Knows, Running, StepOf, Tidy
    <3> QED BY <3>2, <3>4 DEF InsideAlone
  <2>2. CASE ~Running(q)
    <3>1. <<>> \in Stages("none", host')
      BY DEF Stages
    <3>2. install'[q] = NoInstall
      BY <1>0, <2>2
    <3> QED BY <3>1, <3>2, BlankIs DEF Knows, InsideAlone, Running
  <2> QED BY <2>1, <2>2
<1>5. install' \in [Installer -> RunRecord]
  BY <1>0, <1>4
<1>6. host' \in Hosts /\ UsersStay'
  BY <1>0, <1>1 DEF UsersStay
<1> QED BY <1>3, <1>4, <1>5, <1>6 DEF InstallInv

(* What a host can start with. *)
LEMMA InitInstallInv == InitInstall => InstallInv
<1> SUFFICES ASSUME InitInstall PROVE InstallInv
  OBVIOUS
<1>1. /\ host \in Hosts /\ conf \in Starts /\ install = [r \in Installer |-> NoInstall]
      /\ host # "claude-code" => conf.list["prompt"] = <<>>
      /\ host \in {"codex", "cursor"} => conf.key = "none"
      /\ host \in {"json", "tool"} => conf.list["stop"] = <<>>
      /\ left = Theirs(conf)
  BY DEF InitInstall
<1>2. \A list \in {<<>>, <<"theirs">>, <<"stale", "theirs">>, <<"stale", "ours">>} :
        list \in Seq(Element) /\ OneOfOurs(list)
  <2>1. "theirs" \in Element /\ "stale" \in Element /\ "ours" \in Element
    BY DEF Element
  <2>2. \A x, y \in Element : <<>> \in Seq(Element) /\ <<x>> \in Seq(Element) /\ <<x, y>> \in Seq(Element)
    OBVIOUS
  <2>3. OneOfOurs(<<>>) /\ OneOfOurs(<<"theirs">>) /\ OneOfOurs(<<"stale", "theirs">>)
        /\ OneOfOurs(<<"stale", "ours">>)
    BY DEF OneOfOurs
  <2> QED BY <2>1, <2>2, <2>3
<1>3. conf.list \in [Events -> {<<>>, <<"theirs">>, <<"stale", "theirs">>, <<"stale", "ours">>}]
      /\ conf.ok \in BOOLEAN /\ conf.key \in {"none", "theirs", "stale"}
      /\ conf.version \in {"none", "theirs"}
      /\ conf = [ok |-> conf.ok, key |-> conf.key, version |-> conf.version, list |-> conf.list]
  BY <1>1 DEF Starts
<1>4. conf.list \in [Events -> Seq(Element)] /\ \A e \in Events : OneOfOurs(conf.list[e])
  BY <1>2, <1>3
<1>5. conf \in HostFiles
  <2> HIDE DEF Element
  <2> QED BY <1>3, <1>4 DEF HostFiles
<1>6. \A e \in Events \ registrations(host) : conf.list[e] = <<>>
  BY <1>1 DEF Events, registrations, Hosts
<1>7. Tidy(conf)
  BY <1>1, <1>4, <1>5, <1>6 DEF Tidy
<1>8. ASSUME NEW r \in Installer PROVE Knows(r) /\ InsideAlone(r)
  <2>1. <<>> \in Stages("none", host)
    BY DEF Stages
  <2> QED BY <1>1, <2>1, BlankIs DEF Knows, InsideAlone, Running
<1> QED BY <1>1, <1>7, <1>8, BlankIs DEF InstallInv, UsersStay

(* Install and uninstall (internal/setup), any number of runs at once, killed
   or failing at any step, with edits of the host's owner in between: what is
   the owner's in the configuration is as they left it, in their order, unless
   they edited it between the read and the write of a run; no list ever holds
   landfall's entry twice; and what a run says of a file nobody else touched
   meanwhile (installed, uninstalled, a conflict) is so. *)
THEOREM InstallsAreKept == SpecInstall => []InstallKeeps
<1>1. InstallInv /\ [NextInstall]_installVars => InstallInv'
  <2> SUFFICES ASSUME InstallInv, [NextInstall]_installVars PROVE InstallInv'
    OBVIOUS
  <2>1. CASE \E r \in Installer, kind \in {"install", "uninstall"} : BeginInstall(r, kind)
    BY <2>1, BeginPreserves
  <2>2. CASE \E r \in Installer : Read(r) \/ SetFlag(r) \/ Write(r) \/ FailInstall(r)
    BY <2>2, ReadPreserves, SetFlagPreserves, WritePreserves, FailPreserves
  <2>3. CASE EditConfig
    BY <2>3, EditPreserves
  <2>4. CASE UNCHANGED installVars
    <3>1. /\ UNCHANGED <<host, conf, flag, install, left, trampled>>
      BY <2>4 DEF installVars
    <3>2. Tidy(conf)' /\ UsersStay'
      BY <3>1 DEF InstallInv, Tidy, UsersStay
    <3>3. ASSUME NEW r \in Installer PROVE Knows(r)' /\ InsideAlone(r)'
      <4>1. Knows(r) /\ InsideAlone(r)
        BY DEF InstallInv
      <4>2. Knows(r)'
        BY <3>1, <4>1, Zenon DEF Knows, Tidy, Running, StepOf
      <4>3. InsideAlone(r)'
        BY <3>1, <4>1, Zenon DEF InsideAlone, Others, Midway, Honest, HooksIn, HooksOut, Running, StepOf
      <4> QED BY <4>2, <4>3
    <3> QED BY <3>1, <3>2, <3>3 DEF InstallInv
  <2> QED BY <2>1, <2>2, <2>3, <2>4 DEF NextInstall
<1>2. InstallInv => InstallKeeps
  <2> SUFFICES ASSUME InstallInv PROVE InstallKeeps
    OBVIOUS
  <2>1. ASSUME NEW e \in Events
        PROVE  Cardinality({i \in DOMAIN conf.list[e] : conf.list[e][i] = "ours"}) <= 1
    <3> DEFINE S == {i \in DOMAIN conf.list[e] : conf.list[e][i] = "ours"}
    <3> SUFFICES Cardinality(S) <= 1
      OBVIOUS
    <3>1. \A i, j \in S : i = j
      BY DEF InstallInv, Tidy, OneOfOurs
    <3> HIDE DEF S
    <3>2. CASE S = {}
      BY <3>2, FS_EmptySet
    <3>3. CASE S # {}
      <4>1. PICK i \in S : TRUE
        BY <3>3
      <4>2. S = {i}
        BY <3>1, <4>1
      <4>3. Cardinality(S) = 1
        BY <4>2, FS_Singleton, Zenon
      <4> QED BY <4>3
    <3> QED BY <3>2, <3>3
  <2>2. ASSUME NEW r \in Installer, Finished(r), install[r].alone, "failed" \notin install[r].said
        PROVE  Honest(r)
    BY <2>2 DEF InstallInv, InsideAlone, Finished
  <2> QED BY <2>1, <2>2 DEF InstallKeeps, InstallInv, WhatItSaysIsSo, Honest, HooksIn, HooksOut
<1> QED BY InitInstallInv, <1>1, <1>2, PTL DEF SpecInstall

-----------------------------------------------------------------------------
(***************************************************************************)
(* The journal under the spool and the mirror (Journal).                   *)
(***************************************************************************)

\* What a journal of records of R is made of: no line is empty, and one that
\* still waits for its newline exists.
Pieces(R) == [rec : R, whole : BOOLEAN]
Journals(R) ==
  {j \in [lines : Seq(Seq(Pieces(R))), open : BOOLEAN] :
     /\ \A n \in DOMAIN j.lines : j.lines[n] # <<>>
     /\ j.open => j.lines # <<>>}

\* The lines that stay as they are: all but one still waiting for its newline.
Settled(j) == IF j.open THEN Len(j.lines) - 1 ELSE Len(j.lines)

\* A piece put at the end of the file (Journal's Put) leaves the settled lines
\* alone, and what comes after them is a line that begins with the piece, or
\* one that has more than one piece.
LEMMA PutIs ==
  ASSUME NEW R, NEW j \in Journals(R), NEW piece \in Pieces(R), NEW newline \in BOOLEAN
  PROVE  LET k == Put(j, piece, newline) IN
         /\ k \in Journals(R)
         /\ k.open = ~newline
         /\ Len(k.lines) = Settled(j) + 1
         /\ \A n \in 1..Settled(j) : k.lines[n] = j.lines[n]
         /\ ~j.open => k.lines[Settled(j) + 1] = <<piece>>
         /\ j.open => ~Parses(k.lines[Settled(j) + 1])
<1> DEFINE L == j.lines
           k == Put(j, piece, newline)
<1>1. /\ L \in Seq(Seq(Pieces(R))) /\ j.open \in BOOLEAN
      /\ \A n \in DOMAIN L : L[n] # <<>>
      /\ j.open => L # <<>>
  BY DEF Journals
<1>2. k.lines = (IF j.open THEN [L EXCEPT ![Len(L)] = Append(@, piece)] ELSE Append(L, <<piece>>))
      /\ k.open = ~newline /\ k = [lines |-> k.lines, open |-> k.open]
  BY DEF Put
<1>3. CASE ~j.open
  <2> DEFINE A == Append(L, <<piece>>)
  <2>1. k.lines = A /\ Settled(j) = Len(L)
    BY <1>2, <1>3 DEF Settled
  <2>2. <<piece>> \in Seq(Pieces(R)) /\ <<piece>> # <<>>
    OBVIOUS
  <2>3. /\ A \in Seq(Seq(Pieces(R))) /\ Len(A) = Len(L) + 1
        /\ \A n \in 1..Len(L) : A[n] = L[n]
        /\ A[Len(L) + 1] = <<piece>>
        /\ DOMAIN A = 1..(Len(L) + 1) /\ DOMAIN L = 1..Len(L)
    BY <1>1, <2>2
  <2>4. \A n \in DOMAIN A : A[n] # <<>>
    BY <1>1, <2>2, <2>3
  <2>5. A # <<>>
    BY <1>1, <2>3
  <2>6. k \in Journals(R)
    BY <1>2, <2>1, <2>3, <2>4, <2>5 DEF Journals
  <2> QED BY <1>2, <1>3, <2>1, <2>3, <2>6
<1>4. CASE j.open
  <2> DEFINE N == Len(L)
             B == [L EXCEPT ![N] = Append(@, piece)]
  <2>1. k.lines = B /\ Settled(j) = N - 1 /\ N \in Nat /\ N >= 1
    BY <1>1, <1>2, <1>4 DEF Settled
  <2>2. N \in DOMAIN L /\ L[N] \in Seq(Pieces(R)) /\ L[N] # <<>>
    BY <1>1, <2>1
  <2>3. /\ Append(L[N], piece) \in Seq(Pieces(R))
        /\ Len(Append(L[N], piece)) = Len(L[N]) + 1 /\ Len(L[N]) >= 1 /\ Len(L[N]) \in Nat
    BY <2>2
  <2>4. /\ B \in Seq(Seq(Pieces(R))) /\ Len(B) = N
        /\ \A n \in 1..(N - 1) : B[n] = L[n]
        /\ B[N] = Append(L[N], piece)
        /\ DOMAIN B = 1..N /\ DOMAIN L = 1..N
    <3> DEFINE e == Append(L[N], piece)
    <3>1. /\ e \in Seq(Pieces(R)) /\ N \in 1..Len(L) /\ L \in Seq(Seq(Pieces(R)))
          /\ B = [L EXCEPT ![N] = e]
      BY <1>1, <2>1, <2>2, <2>3
    <3> HIDE DEF e, B
    <3>2. /\ B \in Seq(Seq(Pieces(R))) /\ Len(B) = Len(L)
          /\ \A n \in 1..Len(L) : B[n] = IF n = N THEN e ELSE L[n]
      BY <3>1, ExceptSeq
    <3>3. DOMAIN B = 1..Len(B) /\ DOMAIN L = 1..Len(L)
      BY <3>1, <3>2
    <3> QED BY <3>1, <3>2, <3>3 DEF e
  <2>5. \A n \in DOMAIN B : B[n] # <<>>
    <3> HIDE DEF B
    <3>1. TAKE n \in DOMAIN B
    <3>2. CASE n = N
      BY <2>3, <2>4, <3>2
    <3>3. CASE n # N
      <4>1. n \in 1..(N - 1) /\ n \in DOMAIN L
        BY <2>1, <2>4, <3>1, <3>3
      <4> QED BY <1>1, <2>4, <4>1
    <3> QED BY <3>2, <3>3
  <2>6. B # <<>>
    BY <2>1, <2>4
  <2>7. k \in Journals(R)
    BY <1>2, <2>1, <2>4, <2>5, <2>6 DEF Journals
  <2>8. ~Parses(B[N])
    BY <2>3, <2>4 DEF Parses
  <2> QED BY <1>2, <1>4, <2>1, <2>4, <2>7, <2>8
<1> QED BY <1>1, <1>3, <1>4

\* A write that reaches its end (Journal's Written): the first record goes
\* where Put puts it, and each of the others has a line of its own.
LEMMA WrittenIs ==
  ASSUME NEW R, NEW j \in Journals(R), NEW recs \in Seq(R), recs # <<>>
  PROVE  LET k == Written(j, recs) IN
         /\ k \in Journals(R)
         /\ ~k.open
         /\ Len(k.lines) = Settled(j) + Len(recs)
         /\ \A n \in 1..Settled(j) : k.lines[n] = j.lines[n]
         /\ ~j.open => k.lines[Settled(j) + 1] = <<Whole(recs[1])>>
         /\ j.open => ~Parses(k.lines[Settled(j) + 1])
         /\ \A n \in 2..Len(recs) : k.lines[Settled(j) + n] = <<Whole(recs[n])>>
<1> DEFINE P == Put(j, Whole(recs[1]), TRUE)
           k == Written(j, recs)
           T == [n \in 1..(Len(recs) - 1) |-> <<Whole(recs[n + 1])>>]
           S == Settled(j)
<1>0. Len(recs) \in Nat /\ Len(recs) >= 1 /\ \A n \in 1..Len(recs) : recs[n] \in R
  OBVIOUS
<1>1. \A n \in 1..Len(recs) : Whole(recs[n]) \in Pieces(R)
  BY <1>0 DEF Whole, Pieces
<1>2. Whole(recs[1]) \in Pieces(R)
  BY <1>0, <1>1
<1>3. /\ P \in Journals(R) /\ Len(P.lines) = S + 1
      /\ \A n \in 1..S : P.lines[n] = j.lines[n]
      /\ ~j.open => P.lines[S + 1] = <<Whole(recs[1])>>
      /\ j.open => ~Parses(P.lines[S + 1])
  BY <1>2, PutIs
<1>4. S \in Nat
  BY DEF Settled, Journals
<1>5. T \in Seq(Seq(Pieces(R))) /\ Len(T) = Len(recs) - 1
      /\ \A n \in 1..(Len(recs) - 1) : T[n] = <<Whole(recs[n + 1])>>
  <2>1. \A n \in 1..(Len(recs) - 1) : <<Whole(recs[n + 1])>> \in Seq(Pieces(R))
    BY <1>0, <1>1
  <2> QED BY <1>0, <2>1
<1>6. k.lines = P.lines \o T /\ k.open = FALSE /\ k = [lines |-> k.lines, open |-> k.open]
  BY DEF Written
<1> HIDE DEF P, T, S
<1>7. P.lines \in Seq(Seq(Pieces(R))) /\ \A n \in 1..Len(P.lines) : P.lines[n] # <<>>
  <2>1. P.lines \in Seq(Seq(Pieces(R))) /\ \A n \in DOMAIN P.lines : P.lines[n] # <<>>
    BY <1>3 DEF Journals
  <2>2. DOMAIN P.lines = 1..Len(P.lines)
    BY <2>1
  <2> QED BY <2>1, <2>2
<1>8. /\ k.lines \in Seq(Seq(Pieces(R))) /\ Len(k.lines) = S + Len(recs)
      /\ \A n \in 1..(S + 1) : k.lines[n] = P.lines[n]
      /\ \A n \in 1..(Len(recs) - 1) : k.lines[S + 1 + n] = T[n]
  <2> DEFINE X == Seq(Pieces(R))
             A == P.lines
             C == A \o T
  <2>0. A \in Seq(X) /\ T \in Seq(X)
    BY <1>5, <1>7
  <2> HIDE DEF X, A
  <2>1. C \in Seq(X) /\ Len(C) = Len(A) + Len(T)
    BY <2>0
  <2>2. \A n \in 1..Len(A) : C[n] = A[n]
    BY <2>0
  <2>3. \A n \in 1..Len(T) : C[Len(A) + n] = T[n]
    BY <2>0
  <2> HIDE DEF C
  <2>4. k.lines = C
    BY <1>6 DEF C, A
  <2>5. Len(T) = Len(recs) - 1 /\ Len(A) = S + 1
    BY <1>3, <1>5 DEF A
  <2>6. Len(k.lines) = S + Len(recs)
    BY <2>1, <2>4, <2>5, <1>0, <1>4
  <2>7. \A n \in 1..(Len(recs) - 1) : k.lines[S + 1 + n] = T[n]
    BY <2>3, <2>4, <2>5
  <2>8. \A n \in 1..(S + 1) : k.lines[n] = P.lines[n]
    BY <2>2, <2>4, <2>5 DEF A
  <2>9. k.lines \in Seq(Seq(Pieces(R)))
    BY <2>1, <2>4 DEF X
  <2> QED BY <2>6, <2>7, <2>8, <2>9
<1> HIDE DEF k
<1>9. \A n \in 2..Len(recs) : k.lines[S + n] = <<Whole(recs[n])>>
  <2> TAKE n \in 2..Len(recs)
  <2>1. n - 1 \in 1..(Len(recs) - 1) /\ S + 1 + (n - 1) = S + n /\ (n - 1) + 1 = n
    BY <1>0, <1>4
  <2>2. k.lines[S + 1 + (n - 1)] = T[n - 1] /\ T[n - 1] = <<Whole(recs[(n - 1) + 1])>>
    BY <1>5, <1>8, <2>1
  <2> QED BY <2>1, <2>2
<1>10. \A n \in DOMAIN k.lines : k.lines[n] # <<>>
  <2> TAKE n \in DOMAIN k.lines
  <2>1. n \in 1..(S + Len(recs))
    BY <1>8
  <2>2. CASE n <= S + 1
    <3>1. n \in 1..(S + 1)
      BY <1>4, <2>1, <2>2
    <3>2. k.lines[n] = P.lines[n] /\ P.lines[n] # <<>>
      BY <1>3, <1>7, <1>8, <3>1
    <3> QED BY <3>2
  <2>3. CASE n > S + 1
    <3>1. n - S \in 2..Len(recs) /\ S + (n - S) = n
      BY <1>0, <1>4, <2>1, <2>3
    <3>2. k.lines[n] = <<Whole(recs[n - S])>>
      BY <1>9, <3>1
    <3> QED BY <3>2
  <2> QED BY <1>0, <1>4, <2>1, <2>2, <2>3
<1>11. k \in Journals(R)
  BY <1>6, <1>8, <1>10 DEF Journals
<1>12. S + 1 \in 1..(S + 1) /\ \A n \in 1..S : n \in 1..(S + 1)
  BY <1>4
<1> QED BY <1>3, <1>6, <1>8, <1>9, <1>11, <1>12 DEF k, S

\* What the settled lines of a journal hold, and what the line that still waits
\* for its newline holds: at most one record.
Early(j) == {Rec(j, n) : n \in {m \in Readable(j) : m <= Settled(j)}}
Late(j) == {Rec(j, n) : n \in {m \in Readable(j) : m > Settled(j)}}

\* Together they are what a reader sees (MirrorFile's Seen).
LEMMA SeenSplits ==
  ASSUME NEW R, NEW j \in Journals(R)
  PROVE  /\ Seen(j) = Early(j) \cup Late(j)
         /\ ~j.open => Late(j) = {}
         /\ Late(j) \subseteq {Rec(j, Len(j.lines))}
         /\ Seen(j) \subseteq R
<1>1. /\ j.lines \in Seq(Seq(Pieces(R))) /\ j.open \in BOOLEAN
      /\ DOMAIN j.lines = 1..Len(j.lines) /\ Len(j.lines) \in Nat
  <2>1. j.lines \in Seq(Seq(Pieces(R))) /\ j.open \in BOOLEAN
    BY DEF Journals
  <2> QED BY <2>1
<1>2. Settled(j) = IF j.open THEN Len(j.lines) - 1 ELSE Len(j.lines)
  BY DEF Settled
<1>3. Readable(j) \subseteq 1..Len(j.lines)
  BY <1>1 DEF Readable
<1>4. \A n \in Readable(j) : n <= Settled(j) \/ n > Settled(j)
  BY <1>1, <1>2, <1>3
<1>5. Seen(j) = Early(j) \cup Late(j)
  BY <1>4 DEF Seen, Early, Late
<1>6. \A n \in Readable(j) : n > Settled(j) => j.open /\ n = Len(j.lines)
  BY <1>1, <1>2, <1>3
<1>7. (~j.open => Late(j) = {}) /\ Late(j) \subseteq {Rec(j, Len(j.lines))}
  BY <1>6 DEF Late
<1>8. \A n \in Readable(j) : Rec(j, n) \in R
  <2> TAKE n \in Readable(j)
  <2>1. j.lines[n] \in Seq(Pieces(R)) /\ Len(j.lines[n]) = 1
    BY <1>1, <1>3 DEF Readable, Parses
  <2>2. j.lines[n][1] \in Pieces(R)
    BY <2>1
  <2> QED BY <2>2 DEF Rec, Pieces
<1> QED BY <1>5, <1>7, <1>8 DEF Seen

\* What a reader sees of a file a piece was put to.
LEMMA PutSees ==
  ASSUME NEW R, NEW j \in Journals(R), NEW piece \in Pieces(R), NEW newline \in BOOLEAN
  PROVE  Seen(Put(j, piece, newline)) =
           Early(j) \cup (IF ~j.open /\ piece.whole THEN {piece.rec} ELSE {})
<1> DEFINE k == Put(j, piece, newline)
           S == Settled(j)
<1>1. /\ k \in Journals(R) /\ Len(k.lines) = S + 1
      /\ \A n \in 1..S : k.lines[n] = j.lines[n]
      /\ ~j.open => k.lines[S + 1] = <<piece>>
      /\ j.open => ~Parses(k.lines[S + 1])
  BY PutIs
<1>2. /\ DOMAIN k.lines = 1..(S + 1) /\ DOMAIN j.lines = 1..Len(j.lines)
      /\ Len(j.lines) \in Nat /\ S \in Nat /\ S <= Len(j.lines)
  <2>1. k.lines \in Seq(Seq(Pieces(R))) /\ j.lines \in Seq(Seq(Pieces(R)))
        /\ j.open \in BOOLEAN /\ (j.open => j.lines # <<>>)
    BY <1>1 DEF Journals
  <2>2. S \in Nat /\ S <= Len(j.lines)
    BY <2>1 DEF Settled
  <2> QED BY <1>1, <2>1, <2>2
<1> HIDE DEF k, S
<1>3. \A n \in 1..S : /\ n \in Readable(k) <=> n \in Readable(j)
                      /\ Rec(k, n) = Rec(j, n)
  BY <1>1, <1>2 DEF Readable, Rec
<1>4. Readable(k) \subseteq 1..(S + 1) /\ Readable(j) \subseteq 1..Len(j.lines)
  BY <1>2 DEF Readable
<1>5. Early(j) = {Rec(j, n) : n \in {m \in Readable(j) : m <= S}}
  BY DEF Early, S
<1>6. \A n \in Readable(k) : n \in 1..S \/ n = S + 1
  BY <1>2, <1>4
<1>7. \A n \in Readable(j) : n <= S => n \in 1..S
  BY <1>2, <1>4
<1>8. S + 1 \in Readable(k) <=> Parses(k.lines[S + 1])
  BY <1>2 DEF Readable
<1>8a. \A n \in 1..S : n <= S
  BY <1>2
<1>9. CASE ~j.open /\ piece.whole
  <2>0. k.lines[S + 1] = <<piece>> /\ Len(<<piece>>) = 1 /\ <<piece>>[1] = piece
    BY <1>1, <1>9
  <2>1. S + 1 \in Readable(k) /\ Rec(k, S + 1) = piece.rec
    BY <1>8, <1>9, <2>0 DEF Parses, Rec
  <2> QED BY <1>3, <1>5, <1>6, <1>7, <1>8a, <1>9, <2>1 DEF Seen, k
<1>10. CASE ~(~j.open /\ piece.whole)
  <2>1. S + 1 \notin Readable(k)
    <3>1. CASE j.open
      BY <1>1, <1>8, <3>1
    <3>2. CASE ~j.open /\ ~piece.whole
      <4>1. k.lines[S + 1] = <<piece>> /\ <<piece>>[1] = piece
        BY <1>1, <3>2
      <4> QED BY <1>8, <3>2, <4>1 DEF Parses
    <3> QED BY <1>10, <3>1, <3>2
  <2> QED BY <1>3, <1>5, <1>6, <1>7, <1>8a, <1>10, <2>1 DEF Seen, k
<1> QED BY <1>9, <1>10

\* What a reader sees of a file a write was put to: a line that waited for its
\* newline is spoiled, and the first record with it.
LEMMA WrittenSees ==
  ASSUME NEW R, NEW j \in Journals(R), NEW recs \in Seq(R), recs # <<>>
  PROVE  Seen(Written(j, recs)) =
           Early(j) \cup {recs[n] : n \in (IF j.open THEN 2 ELSE 1)..Len(recs)}
<1> DEFINE k == Written(j, recs)
           S == Settled(j)
           first == IF j.open THEN 2 ELSE 1
<1>1. /\ k \in Journals(R) /\ Len(k.lines) = S + Len(recs)
      /\ \A n \in 1..S : k.lines[n] = j.lines[n]
      /\ ~j.open => k.lines[S + 1] = <<Whole(recs[1])>>
      /\ j.open => ~Parses(k.lines[S + 1])
      /\ \A n \in 2..Len(recs) : k.lines[S + n] = <<Whole(recs[n])>>
  BY WrittenIs
<1>2. /\ DOMAIN k.lines = 1..(S + Len(recs)) /\ DOMAIN j.lines = 1..Len(j.lines)
      /\ Len(j.lines) \in Nat /\ S \in Nat /\ S <= Len(j.lines)
      /\ Len(recs) \in Nat /\ Len(recs) >= 1
  <2>1. k.lines \in Seq(Seq(Pieces(R))) /\ j.lines \in Seq(Seq(Pieces(R)))
        /\ j.open \in BOOLEAN /\ (j.open => j.lines # <<>>)
    BY <1>1 DEF Journals
  <2>2. S \in Nat /\ S <= Len(j.lines)
    BY <2>1 DEF Settled
  <2> QED BY <1>1, <2>1, <2>2
<1> HIDE DEF k, S
<1>3. \A n \in 1..S : /\ n \in Readable(k) <=> n \in Readable(j)
                      /\ Rec(k, n) = Rec(j, n)
  <2> TAKE n \in 1..S
  <2>1. n \in 1..(S + Len(recs)) /\ n \in 1..Len(j.lines)
    BY <1>2
  <2> QED BY <1>1, <1>2, <2>1 DEF Readable, Rec
<1>4. Readable(k) \subseteq 1..(S + Len(recs)) /\ Readable(j) \subseteq 1..Len(j.lines)
  BY <1>2 DEF Readable
<1>5. Early(j) = {Rec(j, n) : n \in {m \in Readable(j) : m <= S}}
  BY DEF Early, S
<1>6. \A n \in first..Len(recs) : S + n \in Readable(k) /\ Rec(k, S + n) = recs[n]
  <2> TAKE n \in first..Len(recs)
  <2>1. n \in 1..Len(recs) /\ (n = 1 => ~j.open) /\ (n # 1 => n \in 2..Len(recs))
    BY <1>2
  <2>2. k.lines[S + n] = <<Whole(recs[n])>>
    BY <1>1, <2>1
  <2>3. S + n \in 1..(S + Len(recs))
    BY <1>2, <2>1
  <2>4. /\ Len(<<Whole(recs[n])>>) = 1 /\ <<Whole(recs[n])>>[1] = Whole(recs[n])
        /\ Whole(recs[n]).whole /\ Whole(recs[n]).rec = recs[n]
    BY DEF Whole
  <2> QED BY <1>2, <2>2, <2>3, <2>4 DEF Readable, Rec, Parses
<1>7. \A n \in Readable(k) : n \in 1..S \/ \E m \in first..Len(recs) : n = S + m
  <2> TAKE n \in Readable(k)
  <2>1. CASE n <= S
    BY <1>2, <1>4, <2>1
  <2>2. CASE n > S
    <3>1. n - S \in 1..Len(recs) /\ n = S + (n - S)
      BY <1>2, <1>4, <2>2
    <3>2. n = S + 1 => ~j.open
      BY <1>1 DEF Readable
    <3>3. n - S \in first..Len(recs)
      BY <1>2, <3>1, <3>2
    <3> QED BY <3>1, <3>3
  <2> QED BY <1>2, <1>4, <2>1, <2>2
<1>8. \A n \in Readable(j) : n <= S => n \in 1..S
  BY <1>2, <1>4
<1>8a. \A n \in 1..S : n <= S
  BY <1>2
<1> HIDE DEF first
<1>9. Seen(k) = Early(j) \cup {recs[n] : n \in first..Len(recs)}
  BY <1>3, <1>5, <1>6, <1>7, <1>8, <1>8a DEF Seen
<1> QED BY <1>9 DEF k, first

Increasing(s) == \A i, k \in DOMAIN s : i < k => s[i] < s[k]

\* What is kept of an increasing sequence increases.
LEMMA KeptIncreases ==
  ASSUME NEW s \in Seq(Nat), NEW T, Increasing(s)
  PROVE  Increasing(Kept(s, T))
<1> DEFINE f == Filtered(s, T)
  P == {n \in 0..Len(s) :
          /\ \A i, k \in 1..Len(f[n]) : i < k => f[n][i] < f[n][k]
          /\ \A i \in 1..Len(f[n]) : \E k \in 1..n : f[n][i] = s[k]}
<1>1. 0 \in P
  BY FilteredIs, EmptySeq
<1>2. ASSUME NEW n \in 1..Len(s), n - 1 \in P PROVE n \in P
  <2>1. f[n] = IF s[n] \in T THEN Append(f[n - 1], s[n]) ELSE f[n - 1]
    BY FilteredIs
  <2>2. f[n - 1] \in Seq(Nat) /\ s[n] \in Nat /\ n - 1 \in 0..Len(s) /\ DOMAIN s = 1..Len(s)
        /\ n \in Nat /\ Len(s) \in Nat
    <3>1. n - 1 \in 0..Len(s) /\ Seq(Nat \cap T) \subseteq Seq(Nat) /\ s[n] \in Nat
      OBVIOUS
    <3> QED BY <3>1, FilteredType
  <2> DEFINE g == f[n - 1]
             u == Append(g, s[n])
  <2>3. /\ \A i, k \in 1..Len(g) : i < k => g[i] < g[k]
        /\ \A i \in 1..Len(g) : \E k \in 1..(n - 1) : g[i] = s[k]
    BY <1>2
  <2>4. CASE s[n] \in T
    <3>1. u \in Seq(Nat) /\ Len(u) = Len(g) + 1 /\ u[Len(u)] = s[n] /\ (\A i \in 1..Len(g) : u[i] = g[i])
          /\ Len(g) \in Nat
      BY <2>2, AppendProperties
    <3>2. f[n] = u
      BY <2>1, <2>4
    <3> HIDE DEF f, g, u
    <3>3. \A k \in 1..(n - 1) : k \in DOMAIN s /\ n \in DOMAIN s /\ k < n /\ k \in 1..n
      BY <2>2
    <3>4. \A i \in 1..Len(g) : g[i] < s[n]
      BY <2>3, <3>3 DEF Increasing
    <3>5. \A i, k \in 1..Len(u) : i < k => i \in 1..Len(g) /\ (k \in 1..Len(g) \/ k = Len(u))
      BY <3>1, SMT
    <3>6. \A i, k \in 1..Len(u) : i < k => u[i] < u[k]
      BY <2>3, <3>1, <3>4, <3>5
    <3>7. \A i \in 1..Len(u) : i \in 1..Len(g) \/ i = Len(u)
      BY <3>1, SMT
    <3>8. \A i \in 1..Len(u) : \E k \in 1..n : u[i] = s[k]
      <4> TAKE i \in 1..Len(u)
      <4>1. CASE i \in 1..Len(g)
        BY <2>3, <3>1, <3>3, <4>1
      <4>2. CASE i = Len(u)
        <5>1. n \in 1..n
          BY <2>2
        <5> QED BY <3>1, <4>2, <5>1
      <4> QED BY <3>7, <4>1, <4>2
    <3>9. n \in 0..Len(s)
      OBVIOUS
    <3> QED BY <3>2, <3>6, <3>8, <3>9
  <2>5. CASE s[n] \notin T
    <3>1. f[n] = g
      BY <2>1, <2>5
    <3> HIDE DEF f, g
    <3>2. \A i \in 1..Len(g) : \E k \in 1..n : g[i] = s[k]
      BY <2>2, <2>3, SMT
    <3>3. n \in 0..Len(s)
      OBVIOUS
    <3> QED BY <2>3, <3>1, <3>2, <3>3
  <2> QED BY <2>4, <2>5
<1>3. 0..Len(s) \subseteq P
  <2>1. Len(s) \in Nat
    OBVIOUS
  <2> HIDE DEF P
  <2> QED BY <1>1, <1>2, <2>1, UpTo
<1>4. Kept(s, T) \in Seq(Nat \cap T) /\ Len(s) \in 0..Len(s)
  BY KeptType
<1>5. DOMAIN Kept(s, T) = 1..Len(Kept(s, T))
  BY <1>4
<1>6. Len(s) \in P
  BY <1>3, <1>4
<1> QED BY <1>5, <1>6 DEF Kept, Increasing

\* The largest of some numbers up to n (MirrorFile's cursor is one).
LEMMA MaxIs ==
  ASSUME NEW n \in Nat, NEW S \in SUBSET (0..n), S # {}
  PROVE  Max(S) \in S /\ \A y \in S : y <= Max(S)
<1>1. \E x \in S : \A y \in S : x >= y
  <2> DEFINE T == {n - x : x \in S}
  <2>1. T \subseteq Nat /\ T # {}
    <3>1. \A x \in S : n - x \in Nat
      BY SMT
    <3> QED BY <3>1, Zenon
  <2>2. PICK t \in T : \A y \in T : <<y, t>> \notin OpToRel(<, Nat)
    BY <2>1, WFMin, NatLessThanWellFounded, Zenon
  <2>3. \A y \in T : ~(y < t)
    BY <2>1, <2>2, Zenon DEF OpToRel
  <2>4. PICK x \in S : t = n - x
    OBVIOUS
  <2>5. \A y \in S : n - y \in T
    OBVIOUS
  <2>6. \A y \in S : ~(n - y < n - x)
    BY <2>3, <2>4, <2>5, Zenon
  <2> HIDE DEF T
  <2>7. \A y \in S : x >= y
    BY <2>6
  <2> QED BY <2>7, Zenon
<1>2. Max(S) \in S /\ \A y \in S : Max(S) >= y
  BY <1>1, Zenon DEF Max
<1> QED BY <1>2, SMT

\* What a write can cost: it gets to the first k of its records, some of what
\* was seen before or was got to (Z) is seen no more, and there are at most
\* two of those for a line that waited for its newline and waits no more, and
\* for a write that ends early, together.
Cost(j) == IF j.open THEN 2 ELSE 0
With(j, recs, n) == Seen(j) \cup {recs[m] : m \in 1..n}
Lands(j, recs, k, torn, n) ==
  \E Z \in SUBSET With(j, recs, n) :
    /\ IsFiniteSet(Z)
    /\ Cardinality(Z) + Cost(k) <= Cost(j) + (IF torn THEN 2 ELSE 0)
    /\ Seen(k) \subseteq With(j, recs, n)
    /\ With(j, recs, n) \ Z \subseteq Seen(k)

\* A set that is in a set of one or of two elements.
LEMMA FewElements ==
  ASSUME NEW x, NEW y
  PROVE  /\ IsFiniteSet({x, y}) /\ Cardinality({x, y}) \in 0..2
         /\ \A Z \in SUBSET {x} : IsFiniteSet(Z) /\ Cardinality(Z) \in 0..1
         /\ \A Z \in SUBSET {x, y} : IsFiniteSet(Z) /\ Cardinality(Z) \in 0..2
<1>1. IsFiniteSet({x}) /\ Cardinality({x}) = 1
  BY FS_Singleton
<1>2. IsFiniteSet({x} \cup {y}) /\ Cardinality({x} \cup {y}) \in {1, 2}
  BY <1>1, FS_AddElement
<1>3. {x} \cup {y} = {x, y}
  OBVIOUS
<1>4. IsFiniteSet({x, y}) /\ Cardinality({x, y}) \in 0..2
  BY <1>2, <1>3
<1>5. \A Z \in SUBSET {x} : IsFiniteSet(Z) /\ Cardinality(Z) \in 0..1
  <2> TAKE Z \in SUBSET {x}
  <2>1. IsFiniteSet(Z) /\ Cardinality(Z) <= 1
    BY <1>1, FS_Subset
  <2> QED BY <2>1, FS_CardinalityType
<1>6. \A Z \in SUBSET {x, y} : IsFiniteSet(Z) /\ Cardinality(Z) \in 0..2
  <2> TAKE Z \in SUBSET {x, y}
  <2>1. IsFiniteSet(Z) /\ Cardinality(Z) <= Cardinality({x, y})
    BY <1>4, FS_Subset
  <2> QED BY <1>4, <2>1, FS_CardinalityType
<1> QED BY <1>4, <1>5, <1>6

\* A write that reaches its end.
LEMMA WrittenLands ==
  ASSUME NEW R, NEW j \in Journals(R), NEW recs \in Seq(R)
  PROVE  /\ Written(j, recs) \in Journals(R)
         /\ Lands(j, recs, Written(j, recs), FALSE, Len(recs))
         /\ recs # <<>> => ~Written(j, recs).open
<1> DEFINE k == Written(j, recs)
<1>1. /\ Seen(j) = Early(j) \cup Late(j) /\ (~j.open => Late(j) = {})
      /\ Late(j) \subseteq {Rec(j, Len(j.lines))} /\ j.open \in BOOLEAN
  BY SeenSplits DEF Journals
<1>2. Len(recs) \in Nat /\ 0 \in 0..Len(recs) /\ Len(recs) \in 0..Len(recs)
  OBVIOUS
<1>3. IsFiniteSet({}) /\ Cardinality({}) = 0
  BY FS_EmptySet
<1>4. CASE recs = <<>>
  <2>1. k = j
    BY <1>4 DEF Written
  <2>2. Cost(j) \in 0..2
    BY DEF Cost
  <2>3. Cardinality({}) + Cost(j) <= Cost(j)
    BY <1>3, <2>2
  <2>4. With(j, recs, 0) = Seen(j)
    <3>1. 1..0 = {}
      OBVIOUS
    <3> QED BY <3>1 DEF With
  <2>5. Lands(j, recs, j, FALSE, 0)
    <3>1. Cardinality({}) + Cost(j) <= Cost(j) + (IF FALSE THEN 2 ELSE 0)
      BY <1>3, <2>2
    <3>2. {} \in SUBSET With(j, recs, 0) /\ With(j, recs, 0) \ {} \subseteq Seen(j)
      BY <2>4
    <3>3. Seen(j) \subseteq With(j, recs, 0)
      BY <2>4
    <3> QED BY <1>2, <1>3, <3>1, <3>2, <3>3, Zenon DEF Lands
  <2>6. Len(recs) = 0
    BY <1>4
  <2> QED BY <1>4, <2>1, <2>5, <2>6
<1>5. CASE recs # <<>>
  <2>1. k \in Journals(R) /\ ~k.open
    BY <1>5, WrittenIs
  <2>2. Seen(k) = Early(j) \cup {recs[m] : m \in (IF j.open THEN 2 ELSE 1)..Len(recs)}
    BY <1>5, WrittenSees
  <2> HIDE DEF k
  <2> DEFINE N == Len(recs)
             G == With(j, recs, N)
             Z == G \ Seen(k)
  <2>3. Seen(k) \subseteq G
    BY <1>1, <1>2, <2>2 DEF With
  <2>4. IsFiniteSet(Z) /\ Cardinality(Z) <= Cost(j)
    <3>1. CASE j.open
      <4>1. Z \subseteq {Rec(j, Len(j.lines)), recs[1]}
        <5>1. \A m \in 1..N : m = 1 \/ m \in 2..N
          BY <1>2
        <5> QED BY <1>1, <2>2, <3>1, <5>1 DEF With
      <4>2. IsFiniteSet(Z) /\ Cardinality(Z) \in 0..2
        <5> HIDE DEF Z
        <5> QED BY <4>1, FewElements
      <4> QED BY <3>1, <4>2 DEF Cost
    <3>2. CASE ~j.open
      <4>1. Z = {}
        BY <1>1, <2>2, <3>2 DEF With
      <4> HIDE DEF Z
      <4>2. IsFiniteSet(Z) /\ Cardinality(Z) = 0
        BY <1>3, <4>1, Zenon
      <4> QED BY <3>2, <4>2 DEF Cost
    <3> QED BY <3>1, <3>2
  <2>5. Cardinality(Z) + Cost(k) <= Cost(j) /\ Z \in SUBSET G /\ G \ Z \subseteq Seen(k)
    <3>1. Cost(k) = 0 /\ Cost(j) \in 0..2
      BY <2>1 DEF Cost
    <3>2. Cardinality(Z) + Cost(k) <= Cost(j)
      <4>1. Cardinality(Z) \in Nat
        BY <2>4, FS_CardinalityType
      <4> QED BY <2>4, <3>1, <4>1
    <3> QED BY <3>2
  <2>6. Lands(j, recs, k, FALSE, N)
    <3>1. Cost(j) + (IF FALSE THEN 2 ELSE 0) = Cost(j)
      BY DEF Cost
    <3> HIDE DEF Z
    <3> QED BY <1>2, <2>3, <2>4, <2>5, <3>1 DEF Lands
  <2> QED BY <2>1, <2>6 DEF k
<1> QED BY <1>4, <1>5

\* A write that ends early.
LEMMA CutShortLands ==
  ASSUME NEW R, NEW j \in Journals(R), NEW recs \in Seq(R), NEW k \in CutShort(j, recs)
  PROVE  k \in Journals(R) /\ \E n \in 0..Len(recs) : Lands(j, recs, k, TRUE, n)
<1>0. Len(recs) \in Nat /\ \A m \in 1..Len(recs) : recs[m] \in R
  OBVIOUS
<1>1. PICK n \in 0..(Len(recs) - 1) :
        LET w == Written(j, SubSeq(recs, 1, n)) IN
        k \in {w, Put(w, Cut(recs[n + 1]), FALSE), Put(w, Whole(recs[n + 1]), FALSE)}
  BY DEF CutShort
<1> DEFINE s == SubSeq(recs, 1, n)
           w == Written(j, s)
<1>2. n \in Nat /\ n + 1 \in 1..Len(recs) /\ n \in 0..Len(recs) /\ n + 1 \in 0..Len(recs)
      /\ 0 \in 0..Len(recs)
  BY <1>0
<1>3. s \in Seq(R) /\ Len(s) = n /\ \A m \in 1..n : s[m] = recs[m]
  BY <1>0, <1>2, SubSeqProperties
<1>4. recs[n + 1] \in R
  BY <1>0, <1>2
<1> HIDE DEF s
<1>5. With(j, s, n) = With(j, recs, n)
  BY <1>3 DEF With
<1>6. w \in Journals(R) /\ Lands(j, s, w, FALSE, n) /\ (s # <<>> => ~w.open)
  BY <1>3, WrittenLands
<1>7. Cost(j) \in {0, 2} /\ Cost(w) \in {0, 2} /\ Cost(k) \in {0, 2}
  BY DEF Cost
<1>8. PICK Z \in SUBSET With(j, recs, n) :
        /\ IsFiniteSet(Z) /\ Cardinality(Z) \in Nat
        /\ Cardinality(Z) + Cost(w) <= Cost(j)
        /\ Seen(w) \subseteq With(j, recs, n)
        /\ With(j, recs, n) \ Z \subseteq Seen(w)
  <2>1. PICK Z \in SUBSET With(j, recs, n) :
        /\ IsFiniteSet(Z)
        /\ Cardinality(Z) + Cost(w) <= Cost(j) + 0
        /\ Seen(w) \subseteq With(j, recs, n)
        /\ With(j, recs, n) \ Z \subseteq Seen(w)
    BY <1>5, <1>6 DEF Lands
  <2>2. Cardinality(Z) \in Nat
    BY <2>1, FS_CardinalityType
  <2> QED BY <1>7, <2>1, <2>2
<1>9. /\ Cut(recs[n + 1]) \in Pieces(R) /\ Whole(recs[n + 1]) \in Pieces(R)
      /\ ~Cut(recs[n + 1]).whole /\ Whole(recs[n + 1]).whole
      /\ Whole(recs[n + 1]).rec = recs[n + 1]
  BY <1>4 DEF Cut, Whole, Pieces
<1>10. Seen(w) = Early(w) \cup Late(w) /\ (~w.open => Late(w) = {})
  BY <1>6, SeenSplits
<1>11. CASE k = w
  <2>1. Cardinality(Z) + Cost(k) <= Cost(j) + (IF TRUE THEN 2 ELSE 0)
    BY <1>7, <1>8, <1>11
  <2>2. Lands(j, recs, k, TRUE, n)
    BY <1>8, <1>11, <2>1, Zenon DEF Lands
  <2> QED BY <1>2, <1>6, <1>11, <2>2
<1>12. ASSUME NEW piece \in {Cut(recs[n + 1]), Whole(recs[n + 1])}, k = Put(w, piece, FALSE)
       PROVE  k \in Journals(R) /\ \E m \in 0..Len(recs) : Lands(j, recs, k, TRUE, m)
  <2>1. /\ k \in Journals(R) /\ k.open
        /\ Seen(k) = Early(w) \cup (IF ~w.open /\ piece.whole THEN {piece.rec} ELSE {})
    <3>1. piece \in Pieces(R) /\ FALSE \in BOOLEAN
      BY <1>9
    <3>2. k \in Journals(R) /\ k.open = ~FALSE
      BY <1>6, <1>12, <3>1, PutIs
    <3>3. Seen(k) = Early(w) \cup (IF ~w.open /\ piece.whole THEN {piece.rec} ELSE {})
      BY <1>6, <1>12, <3>1, PutSees
    <3> QED BY <3>2, <3>3
  <2>2. CASE w.open
    <3>1. w = j /\ n = 0
      <4>1. s = <<>>
        BY <1>6, <2>2
      <4>2. n = 0
        BY <1>3, <4>1
      <4> QED BY <4>1, <4>2 DEF Written
    <3>2. With(j, recs, 0) = Seen(j)
      <4>1. 1..0 = {}
        OBVIOUS
      <4> QED BY <4>1 DEF With
    <3>3. Late(j) \subseteq {Rec(j, Len(j.lines))}
      BY SeenSplits
    <3>4. IsFiniteSet(Late(j)) /\ Cardinality(Late(j)) \in 0..1
      BY <3>3, FewElements
    <3>5. Cardinality(Late(j)) + Cost(k) <= Cost(j) + (IF TRUE THEN 2 ELSE 0)
      BY <1>7, <2>1, <2>2, <3>1, <3>4 DEF Cost
    <3>6. Late(j) \in SUBSET With(j, recs, 0) /\ Seen(k) \subseteq With(j, recs, 0)
          /\ With(j, recs, 0) \ Late(j) \subseteq Seen(k)
      BY <1>10, <2>1, <2>2, <3>1, <3>2
    <3>7. Lands(j, recs, k, TRUE, 0)
      BY <3>4, <3>5, <3>6, Zenon DEF Lands
    <3> QED BY <1>2, <2>1, <3>7
  <2>3. CASE ~w.open /\ ~piece.whole
    <3>1. Seen(k) = Seen(w)
      BY <1>10, <2>1, <2>3
    <3>2. Cardinality(Z) + Cost(k) <= Cost(j) + (IF TRUE THEN 2 ELSE 0)
      BY <1>7, <1>8
    <3>3. Lands(j, recs, k, TRUE, n)
      BY <1>8, <3>1, <3>2, Zenon DEF Lands
    <3> QED BY <1>2, <2>1, <3>3
  <2>4. CASE ~w.open /\ piece.whole
    <3>1. piece = Whole(recs[n + 1]) /\ piece.rec = recs[n + 1]
      BY <1>9, <2>4
    <3>2. Seen(k) = Seen(w) \cup {recs[n + 1]}
      BY <1>10, <2>1, <2>4, <3>1
    <3>3. With(j, recs, n + 1) = With(j, recs, n) \cup {recs[n + 1]}
      <4>1. \A m : m \in 1..(n + 1) <=> m \in 1..n \/ m = n + 1
        BY <1>2
      <4> QED BY <4>1 DEF With
    <3>4. Cardinality(Z) + Cost(k) <= Cost(j) + (IF TRUE THEN 2 ELSE 0)
      BY <1>7, <1>8
    <3>5. Z \in SUBSET With(j, recs, n + 1) /\ Seen(k) \subseteq With(j, recs, n + 1)
          /\ With(j, recs, n + 1) \ Z \subseteq Seen(k)
      BY <1>8, <3>2, <3>3
    <3>6. Lands(j, recs, k, TRUE, n + 1)
      BY <1>8, <3>4, <3>5, Zenon DEF Lands
    <3> QED BY <1>2, <2>1, <3>6
  <2> QED BY <2>2, <2>3, <2>4
<1> QED BY <1>1, <1>11, <1>12 DEF s

-----------------------------------------------------------------------------
(***************************************************************************)
(* The mirror (MirrorFile).                                                *)
(***************************************************************************)

\* An event that an absorb will not ask for: behind the cursor of the file, or
\* behind one that an absorb has read.
PassedBy(m) ==
  \/ \E x \in Seen(mirror) : m < x
  \/ \E c \in Absorber : pc[c] # "idle" /\ m <= since[c]

\* The events that are gone, or will be: the gaps, and those that the absorbs
\* on their way make gaps of.
Missing == {m \in 1..posted : m \notin Seen(mirror) /\ PassedBy(m)}

\* The inductive invariant: what an absorb was answered is what is behind the
\* cursor it read, and each write that ended early has paid for two missing
\* events, or for the line it left without a newline.
MirrorShape ==
  /\ posted \in Nat /\ mirrorTears \in Nat
  /\ mirror \in Journals(Nat) /\ Seen(mirror) \subseteq 1..posted
  /\ pc \in [Absorber -> {"idle", "asking", "answered"}]
  /\ since \in [Absorber -> 0..posted]
  /\ fetched \in [Absorber -> Seq(Nat)]
InOrder ==
  \A c \in Absorber : pc[c] = "answered" =>
    \E k \in Nat : since[c] + k <= posted /\ fetched[c] = [n \in 1..k |-> since[c] + n]
MirrorInv ==
  /\ MirrorShape
  /\ InOrder
  /\ Cardinality(Missing) + Cost(mirror) <= 2 * mirrorTears

\* The cursor is the highest seq of a line that parses, or 0.
LEMMA CursorIs ==
  ASSUME MirrorShape
  PROVE  /\ LastSeq(mirror) \in 0..posted
         /\ LastSeq(mirror) \in Seen(mirror) \cup {0}
         /\ \A x \in Seen(mirror) : x <= LastSeq(mirror)
<1>1. posted \in Nat /\ Seen(mirror) \cup {0} \in SUBSET (0..posted) /\ Seen(mirror) \cup {0} # {}
  BY DEF MirrorShape
<1>2. /\ Max(Seen(mirror) \cup {0}) \in Seen(mirror) \cup {0}
      /\ \A x \in Seen(mirror) \cup {0} : x <= Max(Seen(mirror) \cup {0})
  BY <1>1, MaxIs
<1> QED BY <1>1, <1>2 DEF LastSeq

\* What is missing is a finite set, and every gap is missing.
LEMMA MissingIs ==
  ASSUME MirrorShape
  PROVE  IsFiniteSet(Missing) /\ Cardinality(Missing) \in Nat /\ Gaps \subseteq Missing
<1>1. posted \in Nat /\ Seen(mirror) \subseteq 1..posted
  BY DEF MirrorShape
<1>2. IsFiniteSet(1..posted) /\ Missing \subseteq 1..posted
  BY <1>1, FS_Interval DEF Missing
<1>3. IsFiniteSet(Missing)
  BY <1>2, FS_Subset
<1>4. ASSUME NEW m \in Gaps PROVE m \in Missing
  <2>1. m \in 1..LastSeq(mirror) /\ m \notin Seen(mirror)
    BY <1>4 DEF Gaps
  <2>2. LastSeq(mirror) \in 0..posted /\ LastSeq(mirror) \in Seen(mirror) \cup {0}
    BY CursorIs
  <2>3. LastSeq(mirror) \in Seen(mirror) /\ m < LastSeq(mirror) /\ m \in 1..posted
    BY <1>1, <2>1, <2>2
  <2> QED BY <2>1, <2>3 DEF Missing, PassedBy
<1> QED BY <1>3, <1>4, FS_CardinalityType

\* What Record writes: events behind the cursor, in their order, and none that
\* is behind the cursor and not in the file is left out.
LEMMA FreshIs ==
  ASSUME MirrorShape, InOrder, NEW a \in Absorber, pc[a] = "answered"
  PROVE  /\ Fresh(a) \in Seq(Nat) /\ Increasing(Fresh(a))
         /\ \A m \in 1..Len(Fresh(a)) : Fresh(a)[m] \in 1..posted
         /\ \A x \in 1..posted, m \in 1..Len(Fresh(a)) :
              x \notin Seen(mirror) /\ since[a] < x /\ x <= Fresh(a)[m] =>
                \E i \in 1..Len(Fresh(a)) : Fresh(a)[i] = x
<1> DEFINE T == (1..posted) \ Seen(mirror)
           s == fetched[a]
<1>1. PICK k \in Nat : since[a] + k <= posted /\ s = [n \in 1..k |-> since[a] + n]
  BY DEF InOrder
<1>2. posted \in Nat /\ since[a] \in 0..posted /\ since[a] \in Nat
  BY DEF MirrorShape
<1>3. s \in Seq(Nat) /\ DOMAIN s = 1..k /\ Len(s) = k /\ \A n \in 1..k : s[n] = since[a] + n
  BY <1>1, <1>2
<1>4. Increasing(s)
  <2> SUFFICES ASSUME NEW i \in DOMAIN s, NEW l \in DOMAIN s, i < l PROVE s[i] < s[l]
    BY DEF Increasing
  <2>1. i \in 1..k /\ l \in 1..k /\ s[i] = since[a] + i /\ s[l] = since[a] + l
    BY <1>3
  <2> QED BY <1>2, <2>1
<1> HIDE DEF s, T
<1>5. Fresh(a) = Kept(s, T)
  BY DEF Fresh, s, T
<1>6. Kept(s, T) \in Seq(Nat \cap T) /\ Increasing(Kept(s, T))
  <2>1. s \in Seq(Nat)
    BY <1>3
  <2>2. Kept(s, T) \in Seq(Nat \cap T)
    BY <2>1, KeptType, Zenon
  <2> QED BY <1>4, <2>1, <2>2, KeptIncreases
<1>7. Kept(s, T) \in Seq(Nat) /\ DOMAIN Kept(s, T) = 1..Len(Kept(s, T))
      /\ \A m \in 1..Len(Kept(s, T)) : Kept(s, T)[m] \in T
  <2> DEFINE u == Kept(s, T)
  <2> HIDE DEF u
  <2>1. u \in Seq(Nat \cap T)
    BY <1>6 DEF u
  <2>2. u \in Seq(Nat) /\ DOMAIN u = 1..Len(u) /\ \A m \in 1..Len(u) : u[m] \in T
    BY <2>1
  <2> QED BY <2>2 DEF u
<1>8. \A x \in T : (\E i \in DOMAIN Kept(s, T) : Kept(s, T)[i] = x) <=> \E i \in DOMAIN s : s[i] = x
  <2>1. s \in Seq(Nat)
    BY <1>3
  <2>2. ASSUME NEW x \in T
        PROVE  (\E i \in DOMAIN Kept(s, T) : Kept(s, T)[i] = x) <=> \E i \in DOMAIN s : s[i] = x
    BY <2>1, KeptHas
  <2> QED BY <2>2
<1>9. ASSUME NEW x \in 1..posted, NEW m \in 1..Len(Fresh(a)),
             x \notin Seen(mirror), since[a] < x, x <= Fresh(a)[m]
      PROVE  \E i \in 1..Len(Fresh(a)) : Fresh(a)[i] = x
  <2>1. x \in T
    BY <1>9 DEF T
  <2>2. PICK i \in DOMAIN s : s[i] = Fresh(a)[m]
    BY <1>5, <1>7, <1>8, <1>9
  <2>3. i \in 1..k /\ x <= since[a] + i
    BY <1>3, <1>9, <2>2
  <2>4. x - since[a] \in 1..k /\ since[a] + (x - since[a]) = x
    BY <1>2, <1>9, <2>3
  <2>5. x - since[a] \in DOMAIN s /\ s[x - since[a]] = x
    BY <1>3, <2>4
  <2> QED BY <1>3, <1>5, <1>7, <1>8, <2>1, <2>5
<1>10. T \subseteq 1..posted
  BY DEF T
<1>11. /\ Fresh(a) \in Seq(Nat) /\ Increasing(Fresh(a))
       /\ \A m \in 1..Len(Fresh(a)) : Fresh(a)[m] \in 1..posted
  BY <1>5, <1>6, <1>7, <1>10
<1> QED BY <1>9, <1>11, Zenon

\* What a write of an absorb costs.
LEMMA RecordCosts ==
  ASSUME MirrorShape, InOrder, NEW a \in Absorber, pc[a] = "answered",
         NEW torn \in BOOLEAN, NEW n \in 0..Len(Fresh(a)),
         Lands(mirror, Fresh(a), mirror', torn, n),
         pc' = [pc EXCEPT ![a] = "idle"], posted' = posted, since' = since
  PROVE  /\ Seen(mirror)' \subseteq 1..posted
         /\ Cardinality(Missing') + Cost(mirror') <=
              Cardinality(Missing) + Cost(mirror) + (IF torn THEN 2 ELSE 0)
<1> DEFINE F == Fresh(a)
           W == With(mirror, F, n)
<1>1. /\ F \in Seq(Nat) /\ Increasing(F)
      /\ \A m \in 1..Len(F) : F[m] \in 1..posted
      /\ \A x \in 1..posted, m \in 1..Len(F) :
           x \notin Seen(mirror) /\ since[a] < x /\ x <= F[m] => \E i \in 1..Len(F) : F[i] = x
  BY FreshIs
<1>2. PICK Z \in SUBSET W :
        /\ IsFiniteSet(Z)
        /\ Cardinality(Z) + Cost(mirror') <= Cost(mirror) + (IF torn THEN 2 ELSE 0)
        /\ Seen(mirror') \subseteq W
        /\ W \ Z \subseteq Seen(mirror')
  BY DEF Lands
<1> HIDE DEF F
<1>3. posted \in Nat /\ Seen(mirror) \subseteq 1..posted /\ Len(F) \in Nat /\ DOMAIN F = 1..Len(F)
      /\ n \in Nat /\ n <= Len(F) /\ since[a] \in Nat
  <2>1. Len(F) \in Nat /\ DOMAIN F = 1..Len(F)
    BY <1>1
  <2>2. n \in 0..Len(F)
    BY DEF F
  <2> QED BY <2>1, <2>2 DEF MirrorShape
<1>4. \A m \in 1..n : m \in 1..Len(F)
  BY <1>3
<1>5. W \subseteq 1..posted
  BY <1>1, <1>3, <1>4 DEF With
<1>6. Seen(mirror)' = Seen(mirror')
  BY DEF Seen, Readable, Rec
<1>7. ASSUME NEW m \in Missing', m \notin Z PROVE m \in Missing
  <2>1. m \in 1..posted /\ m \notin Seen(mirror') /\ PassedBy(m)'
    BY <1>6, <1>7 DEF Missing
  <2>2. m \notin W
    BY <1>2, <1>7, <2>1
  <2>3. m \notin Seen(mirror) /\ \A i \in 1..n : F[i] # m
    BY <2>2 DEF With
  <2>4. CASE \E c \in Absorber : pc'[c] # "idle" /\ m <= since'[c]
    <3>1. PICK c \in Absorber : pc'[c] # "idle" /\ m <= since'[c]
      BY <2>4
    <3>2. c # a /\ pc[c] # "idle"
      BY <3>1 DEF MirrorShape
    <3> QED BY <2>1, <2>3, <3>1, <3>2 DEF Missing, PassedBy
  <2>5. CASE \E x \in Seen(mirror') : m < x
    <3>1. PICK x \in Seen(mirror') : m < x
      BY <2>5
    <3>2. CASE x \in Seen(mirror)
      BY <2>1, <2>3, <3>1, <3>2 DEF Missing, PassedBy
    <3>3. CASE \E i \in 1..n : x = F[i]
      <4>1. PICK i \in 1..n : x = F[i]
        BY <3>3
      <4>2. CASE m <= since[a]
        BY <2>1, <2>3, <4>2 DEF Missing, PassedBy
      <4>3. CASE since[a] < m
        <5>1. i \in 1..Len(F) /\ F[i] \in 1..posted /\ m <= F[i]
          BY <1>1, <1>4, <2>1, <3>1, <4>1
        <5>2. PICK l \in 1..Len(F) : F[l] = m
          BY <1>1, <2>1, <2>3, <4>3, <5>1
        <5>3. ~(l \in 1..n)
          BY <2>3, <5>2
        <5>4. i < l
          BY <1>3, <4>1, <5>2, <5>3
        <5>5. F[i] < F[l]
          BY <1>1, <1>3, <5>1, <5>2, <5>4 DEF Increasing
        <5> QED BY <2>1, <3>1, <4>1, <5>1, <5>2, <5>5
      <4>4. m <= since[a] \/ since[a] < m
        BY <1>3, <2>1
      <4> QED BY <4>2, <4>3, <4>4
    <3> QED BY <1>2, <3>1, <3>2, <3>3 DEF With
  <2> QED BY <1>6, <2>1, <2>4, <2>5 DEF PassedBy
<1>8. Missing' \subseteq Missing \cup Z
  BY <1>7
<1>9. IsFiniteSet(Missing) /\ Cardinality(Missing) \in Nat /\ Cardinality(Z) \in Nat
  BY <1>2, MissingIs, FS_CardinalityType
<1>10. IsFiniteSet(Missing \cup Z) /\ Cardinality(Missing \cup Z) <= Cardinality(Missing) + Cardinality(Z)
  <2>1. IsFiniteSet(Missing \cup Z) /\ IsFiniteSet(Missing \cap Z)
        /\ Cardinality(Missing \cup Z) = Cardinality(Missing) + Cardinality(Z) - Cardinality(Missing \cap Z)
    BY <1>2, <1>9, FS_Union, FS_Intersection
  <2>2. Cardinality(Missing \cap Z) \in Nat
    BY <2>1, FS_CardinalityType
  <2> QED BY <1>9, <2>1, <2>2
<1>11. Cardinality(Missing') <= Cardinality(Missing \cup Z)
       /\ Cardinality(Missing') \in Nat /\ Cardinality(Missing \cup Z) \in Nat
  <2>1. IsFiniteSet(Missing') /\ Cardinality(Missing') <= Cardinality(Missing \cup Z)
    BY <1>8, <1>10, FS_Subset
  <2> QED BY <1>10, <2>1, FS_CardinalityType
<1>12. Cost(mirror) \in 0..2 /\ Cost(mirror') \in 0..2
  BY DEF Cost
<1>13. Cardinality(Missing') + Cost(mirror') <=
         Cardinality(Missing) + Cost(mirror) + (IF torn THEN 2 ELSE 0)
  <2>1. Cardinality(Z) + Cost(mirror') <= Cost(mirror) + (IF torn THEN 2 ELSE 0)
    BY <1>2
  <2> DEFINE m == Cardinality(Missing)
             l == Cardinality(Missing')
             z == Cardinality(Z)
             u == Cardinality(Missing \cup Z)
             c == Cost(mirror)
             d == Cost(mirror')
             t == IF torn THEN 2 ELSE 0
  <2>2. {m, l, z, u, c, d, t} \subseteq Nat /\ u <= m + z /\ l <= u /\ z + d <= c + t
    BY <1>9, <1>10, <1>11, <1>12, <2>1
  <2> HIDE DEF m, l, z, u, c, d, t
  <2>3. l + d <= m + c + t
    BY <2>2
  <2> QED BY <2>3 DEF m, l, z, u, c, d, t
<1> QED BY <1>2, <1>5, <1>6, <1>13

\* An empty file.
LEMMA EmptyIs ==
  ASSUME NEW R
  PROVE  Empty \in Journals(R) /\ Seen(Empty) = {} /\ Cost(Empty) = 0 /\ Readable(Empty) = {}
         /\ ~Empty.open /\ Settled(Empty) = 0 /\ Len(Empty.lines) = 0
<1>1. <<>> \in Seq(Seq(Pieces(R))) /\ DOMAIN <<>> = {} /\ Len(<<>>) = 0
  OBVIOUS
<1>2. Empty.lines = <<>> /\ Empty.open = FALSE /\ Empty = [lines |-> <<>>, open |-> FALSE]
  BY DEF Empty
<1>3. Empty \in [lines : Seq(Seq(Pieces(R))), open : BOOLEAN]
  BY <1>1, <1>2
<1>4. Empty \in Journals(R)
  BY <1>1, <1>2, <1>3 DEF Journals
<1>5. Readable(Empty) = {}
  BY <1>1, <1>2 DEF Readable
<1>6. Seen(Empty) = {}
  BY <1>5 DEF Seen
<1> QED BY <1>1, <1>2, <1>4, <1>5, <1>6 DEF Cost, Settled

\* The initial states.
LEMMA InitMirrorInv == InitMirror => MirrorInv
<1> SUFFICES ASSUME InitMirror PROVE MirrorInv
  OBVIOUS
<1>1. mirror \in Journals(Nat) /\ Seen(mirror) = {} /\ Cost(mirror) = 0
  BY EmptyIs DEF InitMirror
<1>2. posted = 0 /\ mirrorTears = 0 /\ 0 \in 0..posted /\ <<>> \in Seq(Nat)
  BY DEF InitMirror
<1>3. MirrorShape
  BY <1>1, <1>2 DEF InitMirror, MirrorShape
<1>4. InOrder
  BY DEF InitMirror, InOrder
<1>5. Missing = {}
  BY <1>2 DEF Missing
<1>6. Cardinality(Missing) = 0
  BY <1>5, FS_EmptySet
<1> QED BY <1>1, <1>2, <1>3, <1>4, <1>6 DEF MirrorInv

\* No step of an absorb but its write makes an event missing.
LEMMA NoneMissed ==
  ASSUME MirrorInv, MirrorShape', InOrder', mirror' = mirror, mirrorTears' = mirrorTears,
         Missing' \subseteq Missing
  PROVE  MirrorInv'
<1>1. IsFiniteSet(Missing) /\ Cardinality(Missing) \in Nat
  BY MissingIs DEF MirrorInv
<1>2. IsFiniteSet(Missing') /\ Cardinality(Missing') <= Cardinality(Missing)
  BY <1>1, FS_Subset
<1>3. Cardinality(Missing') \in Nat /\ mirrorTears \in Nat /\ Cost(mirror) \in 0..2
  BY <1>2, FS_CardinalityType DEF MirrorInv, MirrorShape, Cost
<1>4. Cardinality(Missing') + Cost(mirror) <= 2 * mirrorTears
  BY <1>1, <1>2, <1>3 DEF MirrorInv
<1>5. Cost(mirror)' = Cost(mirror)
  BY DEF Cost
<1> QED BY <1>4, <1>5 DEF MirrorInv

\* An event that the room gets is behind nobody's cursor.
LEMMA PostPreserves ==
  ASSUME MirrorInv, Post PROVE MirrorInv'
<1>1. posted \in Nat /\ posted' = posted + 1 /\ UNCHANGED <<mirror, pc, since, fetched, mirrorTears>>
      /\ Seen(mirror) \subseteq 1..posted
  BY DEF MirrorInv, MirrorShape, Post
<1>2. Seen(mirror)' = Seen(mirror)
  BY <1>1 DEF Seen, Readable, Rec
<1>3. 0..posted \subseteq 0..posted' /\ 1..posted \subseteq 1..posted' /\ posted' \in Nat
  BY <1>1
<1>4. MirrorShape'
  BY <1>1, <1>2, <1>3 DEF MirrorInv, MirrorShape
<1>5. since \in [Absorber -> Nat]
  BY <1>1 DEF MirrorInv, MirrorShape
<1>6. InOrder'
  <2> SUFFICES ASSUME NEW c \in Absorber, pc'[c] = "answered"
               PROVE  \E k \in Nat : since'[c] + k <= posted' /\ fetched'[c] = [n \in 1..k |-> since'[c] + n]
    BY DEF InOrder
  <2>1. PICK k \in Nat : since[c] + k <= posted /\ fetched[c] = [n \in 1..k |-> since[c] + n]
    BY <1>1 DEF MirrorInv, InOrder
  <2>2. since[c] + k <= posted'
    BY <1>1, <1>5, <2>1
  <2>3. since' = since /\ fetched' = fetched
    BY <1>1
  <2> QED BY <2>1, <2>2, <2>3, Zenon
<1>7. ASSUME NEW m \in Missing' PROVE m \in Missing
  <2>1. m \in 1..posted' /\ m \notin Seen(mirror) /\ PassedBy(m)
    BY <1>1, <1>2, <1>7 DEF Missing, PassedBy
  <2>2. m # posted + 1
    <3>1. ASSUME NEW x \in Seen(mirror), m < x PROVE m # posted + 1
      BY <1>1, <3>1
    <3>2. ASSUME NEW c \in Absorber, m <= since[c] PROVE m # posted + 1
      <4>1. since[c] \in 0..posted
        BY DEF MirrorInv, MirrorShape
      <4> QED BY <1>1, <3>2, <4>1
    <3> QED BY <2>1, <3>1, <3>2 DEF PassedBy
  <2>3. m \in 1..posted
    BY <1>1, <2>1, <2>2
  <2> QED BY <2>1, <2>3 DEF Missing
<1> QED BY <1>1, <1>4, <1>6, <1>7, NoneMissed

\* The cursor that an absorb reads passes by no event the file has not passed.
LEMMA ReadCursorPreserves ==
  ASSUME MirrorInv, NEW a \in Absorber, ReadCursor(a) PROVE MirrorInv'
<1>1. /\ pc[a] = "idle" /\ since' = [since EXCEPT ![a] = LastSeq(mirror)]
      /\ pc' = [pc EXCEPT ![a] = "asking"] /\ UNCHANGED <<posted, mirror, fetched, mirrorTears>>
  BY DEF ReadCursor
<1>2. LastSeq(mirror) \in 0..posted /\ LastSeq(mirror) \in Seen(mirror) \cup {0}
  BY CursorIs DEF MirrorInv
<1>3. Seen(mirror)' = Seen(mirror)
  BY <1>1 DEF Seen, Readable, Rec
<1>4. MirrorShape'
  BY <1>1, <1>2, <1>3 DEF MirrorInv, MirrorShape
<1>5. \A c \in Absorber : pc'[c] = (IF c = a THEN "asking" ELSE pc[c])
                         /\ since'[c] = (IF c = a THEN LastSeq(mirror) ELSE since[c])
  BY <1>1 DEF MirrorInv, MirrorShape
<1>6. InOrder'
  <2> SUFFICES ASSUME NEW c \in Absorber, pc'[c] = "answered"
               PROVE  \E k \in Nat : since'[c] + k <= posted /\ fetched[c] = [n \in 1..k |-> since'[c] + n]
    BY <1>1 DEF InOrder
  <2>1. pc[c] = "answered" /\ since'[c] = since[c]
    BY <1>5
  <2>2. \E k \in Nat : since[c] + k <= posted /\ fetched[c] = [n \in 1..k |-> since[c] + n]
    BY <2>1, Zenon DEF MirrorInv, InOrder
  <2> QED BY <2>1, <2>2
<1>7. ASSUME NEW m \in Missing' PROVE m \in Missing
  <2>1. m \in 1..posted /\ m \notin Seen(mirror) /\ posted \in Nat
    BY <1>1, <1>3, <1>7 DEF Missing, MirrorInv, MirrorShape
  <2>2. PassedBy(m)'
    BY <1>7 DEF Missing
  <2>3. CASE m <= LastSeq(mirror)
    <3>1. LastSeq(mirror) \in Seen(mirror) /\ m < LastSeq(mirror)
      BY <1>2, <2>1, <2>3
    <3> QED BY <2>1, <3>1 DEF Missing, PassedBy
  <2>4. CASE ~(m <= LastSeq(mirror))
    BY <1>3, <1>5, <2>1, <2>2, <2>4 DEF Missing, PassedBy
  <2> QED BY <2>3, <2>4
<1> QED BY <1>1, <1>4, <1>6, <1>7, NoneMissed

\* What the room answers is what is behind the cursor that was read.
LEMMA AnsweredPreserves ==
  ASSUME MirrorInv, NEW a \in Absorber, Answered(a) \/ Unanswered(a) PROVE MirrorInv'
<1> DEFINE answer == [n \in 1..(posted - since[a]) |-> since[a] + n]
<1>1. /\ pc[a] = "asking" /\ UNCHANGED <<posted, mirror, since, mirrorTears>>
      /\ \/ pc' = [pc EXCEPT ![a] = "answered"] /\ fetched' = [fetched EXCEPT ![a] = answer]
         \/ pc' = [pc EXCEPT ![a] = "idle"] /\ fetched' = fetched
  BY DEF Answered, Unanswered
<1>2. posted \in Nat /\ since[a] \in 0..posted
  BY DEF MirrorInv, MirrorShape
<1>3. posted - since[a] \in Nat /\ since[a] + (posted - since[a]) <= posted /\ answer \in Seq(Nat)
  BY <1>2
<1>4. Seen(mirror)' = Seen(mirror)
  BY <1>1 DEF Seen, Readable, Rec
<1> HIDE DEF answer
<1>5. MirrorShape'
  BY <1>1, <1>3, <1>4 DEF MirrorInv, MirrorShape
<1>6. \A c \in Absorber : c # a => pc'[c] = pc[c] /\ fetched'[c] = fetched[c]
  BY <1>1 DEF MirrorInv, MirrorShape
<1>7. pc'[a] = "answered" => fetched'[a] = answer
  BY <1>1 DEF MirrorInv, MirrorShape
<1>8. InOrder'
  <2> SUFFICES ASSUME NEW c \in Absorber, pc'[c] = "answered"
               PROVE  \E k \in Nat : since[c] + k <= posted /\ fetched'[c] = [n \in 1..k |-> since[c] + n]
    BY <1>1 DEF InOrder
  <2>1. CASE c = a
    BY <1>3, <1>7, <2>1 DEF answer
  <2>2. CASE c # a
    BY <1>6, <2>2 DEF MirrorInv, InOrder
  <2> QED BY <2>1, <2>2
<1>9. ASSUME NEW m \in Missing' PROVE m \in Missing
  <2>1. m \in 1..posted /\ m \notin Seen(mirror) /\ PassedBy(m)'
    BY <1>1, <1>4, <1>9 DEF Missing
  <2>2. \A c \in Absorber : pc'[c] # "idle" => pc[c] # "idle"
    BY <1>1, <1>6
  <2> QED BY <1>1, <1>4, <2>1, <2>2 DEF Missing, PassedBy
<1> QED BY <1>1, <1>5, <1>8, <1>9, NoneMissed

\* The write of what an absorb was answered, whole or cut short.
LEMMA RecordPreserves ==
  ASSUME MirrorInv, NEW a \in Absorber, Record(a) \/ RecordTorn(a) PROVE MirrorInv'
<1> DEFINE torn == mirrorTears' # mirrorTears
<1>1. MirrorShape /\ InOrder /\ mirrorTears \in Nat
  BY DEF MirrorInv, MirrorShape
<1>2. /\ pc[a] = "answered" /\ pc' = [pc EXCEPT ![a] = "idle"]
      /\ fetched' = [fetched EXCEPT ![a] = <<>>] /\ UNCHANGED <<posted, since>>
      /\ \/ mirror' = Written(mirror, Fresh(a)) /\ mirrorTears' = mirrorTears
         \/ mirror' \in CutShort(mirror, Fresh(a)) /\ mirrorTears' = mirrorTears + 1
  BY DEF Record, RecordTorn, Done
<1>3. Fresh(a) \in Seq(Nat) /\ mirror \in Journals(Nat) /\ Len(Fresh(a)) \in 0..Len(Fresh(a))
  <2>1. Fresh(a) \in Seq(Nat)
    BY <1>1, <1>2, FreshIs
  <2> QED BY <1>1, <2>1 DEF MirrorShape
<1>4. /\ mirror' \in Journals(Nat) /\ torn \in BOOLEAN
      /\ mirrorTears' = mirrorTears + (IF torn THEN 1 ELSE 0)
      /\ \E n \in 0..Len(Fresh(a)) : Lands(mirror, Fresh(a), mirror', torn, n)
  <2>1. CASE mirror' = Written(mirror, Fresh(a)) /\ mirrorTears' = mirrorTears
    <3>1. torn = FALSE
      BY <2>1
    <3>2. Written(mirror, Fresh(a)) \in Journals(Nat)
          /\ Lands(mirror, Fresh(a), Written(mirror, Fresh(a)), FALSE, Len(Fresh(a)))
      BY <1>3, WrittenLands
    <3> HIDE DEF torn
    <3>3. mirrorTears' = mirrorTears + (IF torn THEN 1 ELSE 0)
      BY <1>1, <2>1, <3>1
    <3>4. Lands(mirror, Fresh(a), mirror', torn, Len(Fresh(a)))
      BY <2>1, <3>1, <3>2, Zenon
    <3>5. mirror' \in Journals(Nat) /\ torn \in BOOLEAN
      BY <2>1, <3>1, <3>2, Zenon
    <3> QED BY <1>3, <3>3, <3>4, <3>5, Zenon
  <2>2. CASE mirror' \in CutShort(mirror, Fresh(a)) /\ mirrorTears' = mirrorTears + 1
    <3>1. torn = TRUE
      BY <1>1, <2>2
    <3>2. mirror' \in Journals(Nat)
          /\ \E n \in 0..Len(Fresh(a)) : Lands(mirror, Fresh(a), mirror', TRUE, n)
      BY <1>3, <2>2, CutShortLands
    <3> HIDE DEF torn
    <3>3. mirrorTears' = mirrorTears + (IF torn THEN 1 ELSE 0)
      BY <1>1, <2>2, <3>1
    <3>4. \E n \in 0..Len(Fresh(a)) : Lands(mirror, Fresh(a), mirror', torn, n)
      BY <3>1, <3>2, Zenon
    <3>5. mirror' \in Journals(Nat) /\ torn \in BOOLEAN
      BY <3>1, <3>2, Zenon
    <3> QED BY <3>3, <3>4, <3>5, Zenon
  <2> QED BY <1>2, <2>1, <2>2
<1> HIDE DEF torn
<1>5. /\ Seen(mirror)' \subseteq 1..posted
      /\ Cardinality(Missing') + Cost(mirror') <=
           Cardinality(Missing) + Cost(mirror) + (IF torn THEN 2 ELSE 0)
  BY <1>1, <1>2, <1>4, RecordCosts
<1>6. MirrorShape'
  <2>1. <<>> \in Seq(Nat) /\ mirrorTears' \in Nat
    BY <1>1, <1>4
  <2> QED BY <1>1, <1>2, <1>4, <1>5, <2>1 DEF MirrorShape
<1>7. InOrder'
  <2>1. \A c \in Absorber : pc'[c] = "answered" => pc[c] = "answered" /\ fetched'[c] = fetched[c]
    BY <1>1, <1>2 DEF MirrorShape
  <2> SUFFICES ASSUME NEW c \in Absorber, pc'[c] = "answered"
               PROVE  \E l \in Nat : since[c] + l <= posted /\ fetched'[c] = [n \in 1..l |-> since[c] + n]
    BY <1>2 DEF InOrder
  <2>2. \E l \in Nat : since[c] + l <= posted /\ fetched[c] = [n \in 1..l |-> since[c] + n]
    BY <1>1, <2>1, Zenon DEF InOrder
  <2> QED BY <2>1, <2>2
<1>8. Cardinality(Missing)' + Cost(mirror)' <= 2 * mirrorTears'
  <2>1. Cardinality(Missing) \in Nat /\ Cardinality(Missing') \in Nat
    <3>1. Cardinality(Missing) \in Nat
      BY <1>1, MissingIs
    <3>2. IsFiniteSet(1..posted) /\ Missing' \subseteq 1..posted
      <4>1. posted \in Nat
        BY <1>1 DEF MirrorShape
      <4> QED BY <1>2, <4>1, FS_Interval DEF Missing
    <3>3. IsFiniteSet(Missing')
      BY <3>2, FS_Subset
    <3> QED BY <3>1, <3>3, FS_CardinalityType
  <2>2. Cost(mirror) \in 0..2 /\ Cost(mirror') \in 0..2
    BY DEF Cost
  <2>3. Cardinality(Missing) + Cost(mirror) <= 2 * mirrorTears
    BY DEF MirrorInv
  <2>4. Cardinality(Missing') + Cost(mirror') <= 2 * mirrorTears'
    BY <1>1, <1>4, <1>5, <2>1, <2>2, <2>3
  <2> QED BY <2>4 DEF Cost
<1> QED BY <1>6, <1>7, <1>8 DEF MirrorInv

\* The mirror, whatever the events, the absorbs and the tears: an absorb asks
\* for what is behind the highest seq of the file, so what a write cut short
\* has left out below it is never asked for again; there are at most two such
\* events for each write that ended early, however the absorbs of the runs
\* that share the file overlap, and none without one (internal/mirror, absorb).
THEOREM MirrorLosesTwoPerTear == SpecMirror => []TwoGapsPerTear
<1>1. InitMirror => MirrorInv
  BY InitMirrorInv
<1>2. MirrorInv /\ [NextMirror]_mirrorVars => MirrorInv'
  <2> SUFFICES ASSUME MirrorInv, [NextMirror]_mirrorVars PROVE MirrorInv'
    OBVIOUS
  <2>1. CASE UNCHANGED mirrorVars
    BY <2>1 DEF mirrorVars, MirrorInv, MirrorShape, InOrder, Missing, PassedBy, Seen, Readable, Rec, Cost
  <2>2. CASE Post
    BY <2>2, PostPreserves
  <2>3. ASSUME NEW a \in Absorber, \/ ReadCursor(a) \/ Answered(a) \/ Unanswered(a)
                                   \/ Record(a) \/ RecordTorn(a)
        PROVE  MirrorInv'
    BY <2>3, ReadCursorPreserves, AnsweredPreserves, RecordPreserves
  <2> QED BY <2>1, <2>2, <2>3 DEF NextMirror
<1>3. MirrorInv => TwoGapsPerTear
  <2> SUFFICES ASSUME MirrorInv PROVE Cardinality(Gaps) <= 2 * mirrorTears
    BY DEF TwoGapsPerTear
  <2>1. IsFiniteSet(Missing) /\ Cardinality(Missing) \in Nat /\ Gaps \subseteq Missing
    BY MissingIs DEF MirrorInv
  <2>2. IsFiniteSet(Gaps) /\ Cardinality(Gaps) <= Cardinality(Missing)
    BY <2>1, FS_Subset
  <2>3. Cardinality(Gaps) \in Nat /\ Cost(mirror) \in 0..2 /\ mirrorTears \in Nat
    BY <2>2, FS_CardinalityType DEF Cost, MirrorInv, MirrorShape
  <2> QED BY <2>1, <2>2, <2>3 DEF MirrorInv
<1> QED BY <1>1, <1>2, <1>3, PTL DEF SpecMirror

-----------------------------------------------------------------------------
(***************************************************************************)
(* The queue (SpoolFile).                                                  *)
(***************************************************************************)

\* What a reader finds of an entry in the first m lines.
FoundAt(j, m, i) == {n \in Readable(j) : n <= m /\ Rec(j, n).id = i}
Found(j, m, i) ==
  IF FoundAt(j, m, i) = {} THEN NoState
  ELSE Rec(j, CHOOSE n \in FoundAt(j, m, i) : \A k \in FoundAt(j, m, i) : k <= n).state

\* Of some lines of a file one is the last.
LEMMA LastLine ==
  ASSUME NEW N \in Nat, NEW S \in SUBSET (1..N), S # {}
  PROVE  LET n == CHOOSE x \in S : \A y \in S : y <= x IN
         n \in S /\ \A y \in S : y <= n
<1>1. S \in SUBSET (0..N)
  OBVIOUS
<1>2. Max(S) \in S /\ \A y \in S : y <= Max(S)
  BY <1>1, MaxIs
<1>3. \E x \in S : \A y \in S : y <= x
  BY <1>2
<1> QED BY <1>3, Zenon

\* The lines of a file, by their places in it.
LEMMA LinesAre ==
  ASSUME NEW j \in Journals(Entries)
  PROVE  /\ Len(j.lines) \in Nat /\ DOMAIN j.lines = 1..Len(j.lines)
         /\ Readable(j) \subseteq 1..Len(j.lines)
         /\ \A n \in Readable(j) : Rec(j, n) \in Entries
         /\ j.open \in BOOLEAN
         /\ Settled(j) \in Nat
         /\ Len(j.lines) = Settled(j) + (IF j.open THEN 1 ELSE 0)
<1>1. /\ j.lines \in Seq(Seq(Pieces(Entries))) /\ j.open \in BOOLEAN
      /\ j.open => j.lines # <<>>
  BY DEF Journals
<1>2. Len(j.lines) \in Nat /\ DOMAIN j.lines = 1..Len(j.lines)
  BY <1>1
<1>3. Readable(j) \subseteq 1..Len(j.lines)
  BY <1>2 DEF Readable
<1>4. \A n \in Readable(j) : Rec(j, n) \in Entries
  BY SeenSplits DEF Seen
<1>5. Settled(j) \in Nat /\ Len(j.lines) = Settled(j) + (IF j.open THEN 1 ELSE 0)
  BY <1>1, <1>2 DEF Settled
<1> QED BY <1>1, <1>2, <1>3, <1>4, <1>5

\* What is found is one of the states, or nothing.
LEMMA FoundIs ==
  ASSUME NEW j \in Journals(Entries), NEW m \in Nat, NEW i \in Id
  PROVE  Found(j, m, i) \in State \cup {NoState} /\ (Found(j, m, i) = NoState <=> FoundAt(j, m, i) = {})
<1>1. FoundAt(j, m, i) \in SUBSET (1..Len(j.lines)) /\ Len(j.lines) \in Nat
  BY LinesAre DEF FoundAt
<1>2. CASE FoundAt(j, m, i) # {}
  <2> DEFINE n == CHOOSE x \in FoundAt(j, m, i) : \A y \in FoundAt(j, m, i) : y <= x
  <2>1. n \in FoundAt(j, m, i)
    BY <1>1, <1>2, LastLine
  <2>2. Rec(j, n) \in Entries
    <3> HIDE DEF n
    <3> QED BY <2>1, LinesAre DEF FoundAt
  <2>3. Rec(j, n).state \in State /\ NoState \notin State
    BY <2>2 DEF Entries, State, NoState
  <2> QED BY <1>2, <2>3 DEF Found
<1> QED BY <1>2 DEF Found

\* The next line, if it is a record of the entry, is what is found of it.
LEMMA FoundNext ==
  ASSUME NEW j \in Journals(Entries), NEW m \in Nat, NEW i \in Id
  PROVE  Found(j, m + 1, i) =
           IF m + 1 \in Readable(j) /\ Rec(j, m + 1).id = i THEN Rec(j, m + 1).state
           ELSE Found(j, m, i)
<1> DEFINE A == FoundAt(j, m, i)
           B == FoundAt(j, m + 1, i)
<1>1. Readable(j) \subseteq 1..Len(j.lines) /\ Len(j.lines) \in Nat
  BY LinesAre
<1>2. \A n \in Readable(j) : n <= m + 1 <=> n <= m \/ n = m + 1
  BY <1>1
<1>3. CASE m + 1 \in Readable(j) /\ Rec(j, m + 1).id = i
  <2>1. m + 1 \in B
    BY <1>3 DEF FoundAt
  <2>2. B \in SUBSET (1..Len(j.lines)) /\ B # {}
    BY <1>1, <2>1 DEF FoundAt
  <2> DEFINE n == CHOOSE x \in B : \A y \in B : y <= x
  <2>3. n \in B /\ \A y \in B : y <= n
    BY <1>1, <2>2, LastLine
  <2>4. n \in Nat /\ n <= m + 1
    <3> HIDE DEF n
    <3> QED BY <1>1, <2>3 DEF FoundAt
  <2>5. n = m + 1
    <3> HIDE DEF n, B
    <3> QED BY <2>1, <2>3, <2>4
  <2>6. Found(j, m + 1, i) = Rec(j, n).state
    BY <2>2 DEF Found
  <2> HIDE DEF n
  <2> QED BY <1>3, <2>5, <2>6
<1>4. CASE ~(m + 1 \in Readable(j) /\ Rec(j, m + 1).id = i)
  <2>1. A = B
    BY <1>2, <1>4 DEF FoundAt
  <2> QED BY <1>4, <2>1 DEF Found
<1> QED BY <1>3, <1>4

\* Files that begin alike.
LEMMA FoundAlike ==
  ASSUME NEW j \in Journals(Entries), NEW k \in Journals(Entries), NEW m \in Nat, NEW i \in Id,
         m <= Len(j.lines), m <= Len(k.lines), \A n \in 1..m : j.lines[n] = k.lines[n]
  PROVE  Found(j, m, i) = Found(k, m, i)
<1>1. /\ Len(j.lines) \in Nat /\ DOMAIN j.lines = 1..Len(j.lines)
      /\ Len(k.lines) \in Nat /\ DOMAIN k.lines = 1..Len(k.lines)
  BY LinesAre
<1>2. \A n \in 1..m : /\ n \in DOMAIN j.lines /\ n \in DOMAIN k.lines
                      /\ Rec(j, n) = Rec(k, n)
                      /\ n \in Readable(j) <=> n \in Readable(k)
  BY <1>1 DEF Rec, Readable
<1>3. \A n \in Readable(j) \cup Readable(k) : n <= m => n \in 1..m
  BY <1>1 DEF Readable
<1>4. FoundAt(j, m, i) = FoundAt(k, m, i)
  BY <1>2, <1>3 DEF FoundAt
<1>5. \A n \in FoundAt(j, m, i) : Rec(j, n) = Rec(k, n)
  BY <1>2, <1>3 DEF FoundAt
<1>6. CASE FoundAt(j, m, i) # {}
  <2> DEFINE n == CHOOSE x \in FoundAt(j, m, i) : \A y \in FoundAt(j, m, i) : y <= x
  <2>1. FoundAt(j, m, i) \in SUBSET (1..Len(j.lines))
    BY LinesAre DEF FoundAt
  <2>2. n \in FoundAt(j, m, i)
    BY <1>1, <1>6, <2>1, LastLine
  <2>3. Found(j, m, i) = Rec(j, n).state /\ Found(k, m, i) = Rec(k, n).state
    BY <1>4, <1>6 DEF Found
  <2> HIDE DEF n
  <2> QED BY <1>5, <2>2, <2>3
<1> QED BY <1>4, <1>6 DEF Found

\* load (SpoolFile's Load): what the settled lines say, unless the line that
\* waits for its newline is a whole record of the entry.
LEMMA LoadIs ==
  ASSUME NEW j \in Journals(Entries), NEW i \in Id
  PROVE  /\ Load(j)[i] = Found(j, Len(j.lines), i)
         /\ Load(j)[i] \in State \cup {NoState}
         /\ ~j.open => Load(j)[i] = Found(j, Settled(j), i)
         /\ j.open => Load(j)[i] =
              IF Len(j.lines) \in Readable(j) /\ Rec(j, Len(j.lines)).id = i
              THEN Rec(j, Len(j.lines)).state ELSE Found(j, Settled(j), i)
<1>1. /\ Len(j.lines) \in Nat /\ Readable(j) \subseteq 1..Len(j.lines) /\ j.open \in BOOLEAN
      /\ Settled(j) \in Nat /\ Len(j.lines) = Settled(j) + (IF j.open THEN 1 ELSE 0)
  BY LinesAre
<1>2. FoundAt(j, Len(j.lines), i) = {n \in Readable(j) : Rec(j, n).id = i}
  BY <1>1 DEF FoundAt
<1>3. Load(j)[i] = Found(j, Len(j.lines), i)
  BY <1>2 DEF Load, Found
<1>4. Found(j, Len(j.lines), i) \in State \cup {NoState}
  BY <1>1, FoundIs
<1>5. CASE j.open
  <2>1. Len(j.lines) = Settled(j) + 1
    BY <1>1, <1>5
  <2> QED BY <1>1, <1>3, <1>4, <1>5, <2>1, FoundNext
<1>6. CASE ~j.open
  <2>1. Len(j.lines) = Settled(j)
    BY <1>1, <1>6
  <2> QED BY <1>3, <1>4, <1>6, <2>1
<1> QED BY <1>1, <1>5, <1>6

\* The entry of a record that was put at the end (SpoolFile's appendSync): what
\* is found of it is the record, unless the line it was put to waited for its
\* newline; of another entry, and then of this one, what was settled before.
LEMMA AppendedIs ==
  ASSUME NEW j \in Journals(Entries), NEW i \in Id, NEW s \in State
  PROVE  LET k == Written(j, <<[id |-> i, state |-> s]>>) IN
         /\ k \in Journals(Entries) /\ ~k.open
         /\ \A x \in Id : Found(k, Settled(k), x) =
              IF ~j.open /\ x = i THEN s ELSE Found(j, Settled(j), x)
<1> DEFINE r == [id |-> i, state |-> s]
           k == Written(j, <<r>>)
           S == Settled(j)
<1>1. r \in Entries /\ <<r>> \in Seq(Entries) /\ <<r>> # <<>> /\ <<r>>[1] = r /\ Len(<<r>>) = 1
  BY DEF Entries
<1>2. /\ k \in Journals(Entries) /\ ~k.open
      /\ Len(k.lines) = S + 1
      /\ \A n \in 1..S : k.lines[n] = j.lines[n]
      /\ ~j.open => k.lines[S + 1] = <<Whole(r)>>
      /\ j.open => ~Parses(k.lines[S + 1])
  <2> HIDE DEF r
  <2> DEFINE rs == <<r>>
  <2>1. rs \in Seq(Entries) /\ rs # <<>> /\ rs[1] = r /\ Len(rs) = 1 /\ k = Written(j, rs)
    BY <1>1
  <2> HIDE DEF rs, k
  <2>2. /\ k \in Journals(Entries) /\ ~k.open
        /\ Len(k.lines) = Settled(j) + Len(rs)
        /\ \A n \in 1..Settled(j) : k.lines[n] = j.lines[n]
        /\ ~j.open => k.lines[Settled(j) + 1] = <<Whole(rs[1])>>
        /\ j.open => ~Parses(k.lines[Settled(j) + 1])
    BY <2>1, WrittenIs
  <2> QED BY <2>1, <2>2
<1> HIDE DEF k
<1>3. /\ S \in Nat /\ S <= Len(j.lines) /\ S <= Len(k.lines) /\ Settled(k) = S + 1
      /\ DOMAIN k.lines = 1..(S + 1) /\ j.open \in BOOLEAN
  <2>1. /\ S \in Nat /\ Len(j.lines) = S + (IF j.open THEN 1 ELSE 0)
        /\ Settled(k) \in Nat /\ Len(k.lines) = Settled(k) + (IF k.open THEN 1 ELSE 0)
        /\ DOMAIN k.lines = 1..Len(k.lines) /\ j.open \in BOOLEAN
    BY <1>2, LinesAre
  <2> QED BY <1>2, <2>1
<1>4. ASSUME NEW x \in Id
      PROVE  Found(k, S + 1, x) = IF ~j.open /\ x = i THEN s ELSE Found(j, S, x)
  <2> HIDE DEF S
  <2>1. Found(k, S, x) = Found(j, S, x)
    BY <1>2, <1>3, FoundAlike
  <2>2. Found(k, S + 1, x) = IF S + 1 \in Readable(k) /\ Rec(k, S + 1).id = x
                             THEN Rec(k, S + 1).state ELSE Found(k, S, x)
    BY <1>2, <1>3, FoundNext
  <2>3. CASE j.open
    <3>1. S + 1 \notin Readable(k)
      BY <1>2, <2>3 DEF Readable
    <3> QED BY <2>1, <2>2, <2>3, <3>1
  <2>4. CASE ~j.open
    <3>1. k.lines[S + 1] = <<Whole(r)>> /\ Len(<<Whole(r)>>) = 1 /\ <<Whole(r)>>[1] = Whole(r)
          /\ Whole(r).whole /\ Whole(r).rec = r
      BY <1>2, <2>4 DEF Whole
    <3>2. S + 1 \in DOMAIN k.lines
      BY <1>3
    <3>3. S + 1 \in Readable(k) /\ Rec(k, S + 1) = r
      BY <3>1, <3>2 DEF Readable, Parses, Rec
    <3>4. r.id = i /\ r.state = s
      OBVIOUS
    <3> QED BY <2>1, <2>2, <2>4, <3>3, <3>4
  <2> QED BY <2>3, <2>4
<1> QED BY <1>2, <1>3, <1>4 DEF k, S

\* A write that ends early settles nothing.
LEMMA TornIs ==
  ASSUME NEW j \in Journals(Entries), NEW i \in Id, NEW s \in State,
         NEW k \in CutShort(j, <<[id |-> i, state |-> s]>>)
  PROVE  /\ k \in Journals(Entries)
         /\ \A x \in Id : Found(k, Settled(k), x) = Found(j, Settled(j), x)
<1> DEFINE r == [id |-> i, state |-> s]
           recs == <<r>>
<1>1. r \in Entries /\ recs \in Seq(Entries) /\ Len(recs) = 1 /\ recs[1] = r
  BY DEF Entries
<1> HIDE DEF r
<1> HIDE DEF recs
<1>2. PICK n \in 0..(Len(recs) - 1) :
        LET w == Written(j, SubSeq(recs, 1, n)) IN
        k \in {w, Put(w, Cut(recs[n + 1]), FALSE), Put(w, Whole(recs[n + 1]), FALSE)}
  BY DEF CutShort, recs, r
<1>3. n = 0
  BY <1>1, <1>2
<1>4. SubSeq(recs, 1, 0) = <<>>
  BY <1>1
<1>5. Written(j, SubSeq(recs, 1, n)) = j /\ recs[n + 1] = r
  BY <1>1, <1>3, <1>4 DEF Written
<1>6. k \in {j, Put(j, Cut(r), FALSE), Put(j, Whole(r), FALSE)}
  BY <1>2, <1>5
<1>7. Cut(r) \in Pieces(Entries) /\ Whole(r) \in Pieces(Entries) /\ FALSE \in BOOLEAN
  BY <1>1 DEF Cut, Whole, Pieces
<1>8. ASSUME NEW piece \in Pieces(Entries), k = Put(j, piece, FALSE)
      PROVE  /\ k \in Journals(Entries)
             /\ \A x \in Id : Found(k, Settled(k), x) = Found(j, Settled(j), x)
  <2>1. /\ k \in Journals(Entries) /\ k.open = ~FALSE /\ Len(k.lines) = Settled(j) + 1
        /\ \A n_1 \in 1..Settled(j) : k.lines[n_1] = j.lines[n_1]
    BY <1>7, <1>8, PutIs
  <2>2. /\ Settled(j) \in Nat /\ Settled(j) <= Len(j.lines) /\ Settled(j) <= Len(k.lines)
        /\ Settled(k) = Settled(j)
    <3>1. /\ Settled(j) \in Nat /\ Len(j.lines) = Settled(j) + (IF j.open THEN 1 ELSE 0)
          /\ Settled(k) \in Nat /\ Len(k.lines) = Settled(k) + (IF k.open THEN 1 ELSE 0)
      BY <2>1, LinesAre
    <3>2. k.open
      BY <2>1, Zenon
    <3>3. (IF k.open THEN 1 ELSE 0) = 1
      BY <3>2
    <3>4. (IF j.open THEN 1 ELSE 0) \in 0..1
      OBVIOUS
    <3> QED BY <2>1, <3>1, <3>3, <3>4
  <2> QED BY <2>1, <2>2, FoundAlike
<1> QED BY <1>6, <1>7, <1>8

\* What Compact writes: each entry that is not finished as load finds it, and
\* nothing of the others.
LEMMA CompactedIs ==
  ASSUME SpoolFileAssumption, NEW j \in Journals(Entries), NEW order \in Orders(Remaining(j))
  PROVE  LET k == Compacted(j, order) IN
         /\ k \in Journals(Entries) /\ ~k.open
         /\ \A i \in Id : Load(k)[i] = IF Load(j)[i] \in Unfinished THEN Load(j)[i] ELSE NoState
<1> DEFINE S == Remaining(j)
           N == Cardinality(S)
           recs == [n \in DOMAIN order |-> [id |-> order[n], state |-> Load(j)[order[n]]]]
           k == Written(Empty, recs)
<1>1. S \subseteq Id /\ IsFiniteSet(S) /\ N \in Nat
  <2>1. S \subseteq Id
    BY DEF Remaining
  <2> QED BY <2>1, FS_Subset, FS_CardinalityType DEF SpoolFileAssumption
<1>2. order \in [1..N -> S] /\ DOMAIN order = 1..N /\ \A i \in S : \E n \in 1..N : order[n] = i
  BY DEF Orders
<1>3. \A i \in S : Load(j)[i] \in State /\ Load(j)[i] \in Unfinished
  BY LoadIs DEF Remaining, State, Unfinished
<1> HIDE DEF S, N
<1>4. recs \in Seq(Entries) /\ Len(recs) = N
      /\ \A n \in 1..N : recs[n] = [id |-> order[n], state |-> Load(j)[order[n]]] /\ recs[n] \in Entries
  <2>1. \A n \in 1..N : [id |-> order[n], state |-> Load(j)[order[n]]] \in Entries
    BY <1>1, <1>2, <1>3 DEF Entries
  <2>2. recs \in [1..N -> Entries]
    BY <1>2, <2>1
  <2> QED BY <1>1, <1>2, <2>1, <2>2
<1>5. /\ Empty \in Journals(Entries) /\ ~Empty.open /\ Settled(Empty) = 0 /\ Readable(Empty) = {}
  BY EmptyIs
<1>6. k = Compacted(j, order)
  BY DEF Compacted
<1> HIDE DEF recs
<1>7. /\ k \in Journals(Entries) /\ ~k.open /\ Readable(k) = 1..N
      /\ \A n \in 1..N : Rec(k, n) = recs[n]
  <2>1. CASE N = 0
    <3>1. recs = <<>>
      BY <1>4, <2>1
    <3>2. k = Empty
      BY <3>1 DEF Written
    <3> QED BY <1>5, <2>1, <3>2
  <2>2. CASE N # 0
    <3>1. recs # <<>>
      BY <1>4, <2>2
    <3>2. /\ k \in Journals(Entries) /\ ~k.open /\ Len(k.lines) = Settled(Empty) + Len(recs)
          /\ k.lines[Settled(Empty) + 1] = <<Whole(recs[1])>>
          /\ \A n \in 2..Len(recs) : k.lines[Settled(Empty) + n] = <<Whole(recs[n])>>
      BY <1>4, <1>5, <3>1, WrittenIs
    <3> HIDE DEF k
    <3>3. \A n \in 1..N : k.lines[n] = <<Whole(recs[n])>>
      <4> TAKE n \in 1..N
      <4>1. CASE n = 1
        BY <1>5, <3>2, <4>1
      <4>2. CASE n # 1
        <5>1. n \in 2..N /\ 0 + n = n
          BY <1>1, <4>2
        <5> QED BY <1>4, <1>5, <3>2, <5>1
      <4> QED BY <4>1, <4>2
    <3>4. DOMAIN k.lines = 1..N
      <4>1. DOMAIN k.lines = 1..Len(k.lines) /\ Len(k.lines) = 0 + N
        BY <1>4, <1>5, <3>2, LinesAre
      <4> QED BY <1>1, <4>1
    <3>5. \A n \in 1..N : Parses(k.lines[n]) /\ Rec(k, n) = recs[n]
      <4> TAKE n \in 1..N
      <4>1. /\ Len(<<Whole(recs[n])>>) = 1 /\ <<Whole(recs[n])>>[1] = Whole(recs[n])
            /\ Whole(recs[n]).whole /\ Whole(recs[n]).rec = recs[n]
        BY DEF Whole
      <4> QED BY <3>3, <4>1 DEF Parses, Rec
    <3>6. Readable(k) = 1..N
      BY <3>4, <3>5 DEF Readable
    <3> QED BY <3>2, <3>5, <3>6
  <2> QED BY <2>1, <2>2
<1> HIDE DEF k
<1>8. ASSUME NEW i \in Id
      PROVE  Load(k)[i] = IF Load(j)[i] \in Unfinished THEN Load(j)[i] ELSE NoState
  <2> DEFINE A == {n \in Readable(k) : Rec(k, n).id = i}
  <2>1. Load(k)[i] = IF A = {} THEN NoState
                     ELSE Rec(k, CHOOSE n \in A : \A m \in A : m <= n).state
    BY DEF Load
  <2>2. A = {n \in 1..N : order[n] = i}
    BY <1>4, <1>7
  <2>3. CASE i \in S
    <3>1. A # {} /\ A \in SUBSET (1..N)
      BY <1>2, <2>2, <2>3
    <3> DEFINE x == CHOOSE n \in A : \A m \in A : m <= n
    <3>2. x \in A
      BY <1>1, <3>1, LastLine
    <3> HIDE DEF x
    <3>3. Rec(k, x).state = Load(j)[i]
      BY <1>4, <1>7, <2>2, <3>2
    <3> QED BY <1>3, <2>1, <2>3, <3>1, <3>3 DEF x
  <2>4. CASE i \notin S
    <3>1. A = {}
      BY <1>2, <2>2, <2>4
    <3>2. Load(j)[i] \notin Unfinished
      BY <1>8, <2>4 DEF S, Remaining
    <3> QED BY <2>1, <3>1, <3>2
  <2> QED BY <2>3, <2>4
<1> QED BY <1>6, <1>7, <1>8

\* Hand-offs accepted and not finished that the settled lines do not say so of:
\* those that are lost, and those that would be with the next compaction.
AtRisk == {i \in Id : acked[i] \in Unfinished /\ Found(spool, Settled(spool), i) \notin Unfinished}

\* The inductive invariant: what Compact has written is what is not finished,
\* and each write that ended early has paid for one hand-off at risk, or for
\* the line it left without a newline.
Pending(j) == IF j.open THEN 1 ELSE 0
Drawn ==
  tmp # NoTmp =>
    /\ tmp \in Journals(Entries) /\ ~tmp.open
    /\ \A i \in Id : Load(tmp)[i] = IF Load(spool)[i] \in Unfinished THEN Load(spool)[i] ELSE NoState
SpoolInv ==
  /\ spool \in Journals(Entries) /\ spoolTears \in Nat
  /\ acked \in [Id -> State \cup {NoState}]
  /\ Drawn
  /\ Cardinality(AtRisk) + Pending(spool) <= spoolTears

\* Those at risk are finitely many, and what is lost is among them.
LEMMA AtRiskIs ==
  ASSUME SpoolFileAssumption, spool \in Journals(Entries)
  PROVE  IsFiniteSet(AtRisk) /\ Cardinality(AtRisk) \in Nat /\ Lost \subseteq AtRisk
<1>1. IsFiniteSet(Id) /\ AtRisk \subseteq Id
  BY DEF SpoolFileAssumption, AtRisk
<1>2. IsFiniteSet(AtRisk)
  BY <1>1, FS_Subset
<1>3. ASSUME NEW i \in Lost PROVE i \in AtRisk
  <2>1. i \in Id /\ acked[i] \in Unfinished /\ Load(spool)[i] = NoState
    BY <1>3 DEF Lost
  <2>2. Found(spool, Settled(spool), i) = NoState
    <3>1. spool.open \in BOOLEAN /\ \A n \in Readable(spool) : Rec(spool, n).state # NoState
      BY LinesAre DEF Entries, State, NoState
    <3> QED BY <2>1, <3>1, LoadIs
  <2> QED BY <2>1, <2>2 DEF AtRisk, Unfinished, NoState
<1> QED BY <1>2, <1>3, FS_CardinalityType

\* One more at risk, if the line that waited for its newline waits no more; or
\* none more.
LEMMA RiskGrows ==
  ASSUME SpoolFileAssumption, SpoolInv, spool' \in Journals(Entries), NEW i,
         AtRisk' \subseteq AtRisk \cup (IF spool.open THEN {i} ELSE {}),
         ~spool'.open, spoolTears' = spoolTears
  PROVE  Cardinality(AtRisk') + Pending(spool') <= spoolTears'
<1>1. IsFiniteSet(AtRisk) /\ Cardinality(AtRisk) \in Nat /\ spoolTears \in Nat
      /\ Cardinality(AtRisk) + Pending(spool) <= spoolTears
  BY AtRiskIs DEF SpoolInv
<1>2. Pending(spool') = 0
  BY DEF Pending
<1>3. CASE ~spool.open
  <2>1. IsFiniteSet(AtRisk') /\ Cardinality(AtRisk') <= Cardinality(AtRisk)
    BY <1>1, <1>3, FS_Subset
  <2>2. Cardinality(AtRisk') \in Nat /\ Pending(spool) = 0
    BY <1>3, <2>1, FS_CardinalityType DEF Pending
  <2> QED BY <1>1, <1>2, <2>1, <2>2
<1>4. CASE spool.open
  <2>1. AtRisk' \subseteq AtRisk \cup {i}
    BY <1>4
  <2>2. IsFiniteSet(AtRisk \cup {i}) /\ Cardinality(AtRisk \cup {i}) <= Cardinality(AtRisk) + 1
        /\ Cardinality(AtRisk \cup {i}) \in Nat
    <3>1. IsFiniteSet(AtRisk \cup {i})
          /\ Cardinality(AtRisk \cup {i}) \in {Cardinality(AtRisk), Cardinality(AtRisk) + 1}
      BY <1>1, FS_AddElement
    <3> QED BY <1>1, <3>1
  <2>3. IsFiniteSet(AtRisk') /\ Cardinality(AtRisk') <= Cardinality(AtRisk \cup {i})
    BY <2>1, <2>2, FS_Subset
  <2>4. Cardinality(AtRisk') \in Nat /\ Pending(spool) = 1
    BY <1>4, <2>3, FS_CardinalityType DEF Pending
  <2> QED BY <1>1, <1>2, <2>2, <2>3, <2>4
<1> QED BY <1>3, <1>4

\* An append that returns.
LEMMA AppendSyncPreserves ==
  ASSUME SpoolFileAssumption, SpoolInv, NEW i \in Id, NEW s \in State, AppendSync(i, s)
  PROVE  SpoolInv'
<1>1. /\ tmp = NoTmp /\ tmp' = tmp /\ spoolTears' = spoolTears
      /\ spool' = Written(spool, <<[id |-> i, state |-> s]>>)
      /\ acked' = [acked EXCEPT ![i] = s] /\ spool \in Journals(Entries)
  BY DEF AppendSync, Appends, SpoolInv
<1>2. /\ spool' \in Journals(Entries) /\ ~spool'.open
      /\ \A x \in Id : Found(spool', Settled(spool'), x) =
           IF ~spool.open /\ x = i THEN s ELSE Found(spool, Settled(spool), x)
  BY <1>1, AppendedIs
<1>3. acked' \in [Id -> State \cup {NoState}] /\ Drawn'
  BY <1>1 DEF SpoolInv, Drawn
<1>4. \A x \in Id : acked'[x] = IF x = i THEN s ELSE acked[x]
  BY <1>1 DEF SpoolInv
<1>5. AtRisk' = {x \in Id : acked'[x] \in Unfinished /\ Found(spool', Settled(spool'), x) \notin Unfinished}
  BY DEF AtRisk, Found, FoundAt, Settled, Readable, Rec
<1>6. spool.open \in BOOLEAN
  BY <1>1, LinesAre
<1>7. AtRisk' \subseteq AtRisk \cup (IF spool.open THEN {i} ELSE {})
  BY <1>2, <1>4, <1>5, <1>6 DEF AtRisk
<1>8. Cardinality(AtRisk') + Pending(spool') <= spoolTears'
  BY <1>1, <1>2, <1>7, RiskGrows
<1> QED BY <1>1, <1>2, <1>3, <1>8 DEF SpoolInv, Pending

\* An append that ends early.
LEMMA AppendTornPreserves ==
  ASSUME SpoolFileAssumption, SpoolInv, NEW i \in Id, NEW s \in State, AppendTorn(i, s)
  PROVE  SpoolInv'
<1>1. /\ tmp = NoTmp /\ tmp' = tmp /\ spoolTears' = spoolTears + 1
      /\ spool' \in CutShort(spool, <<[id |-> i, state |-> s]>>)
      /\ acked' = acked /\ spool \in Journals(Entries) /\ spoolTears \in Nat
  BY DEF AppendTorn, Appends, SpoolInv
<1>2. /\ spool' \in Journals(Entries)
      /\ \A x \in Id : Found(spool', Settled(spool'), x) = Found(spool, Settled(spool), x)
  BY <1>1, TornIs
<1>3. acked' \in [Id -> State \cup {NoState}] /\ Drawn'
  BY <1>1 DEF SpoolInv, Drawn
<1>4. AtRisk' = {x \in Id : acked'[x] \in Unfinished /\ Found(spool', Settled(spool'), x) \notin Unfinished}
  BY DEF AtRisk, Found, FoundAt, Settled, Readable, Rec
<1>5. AtRisk' = AtRisk
  BY <1>1, <1>2, <1>4 DEF AtRisk
<1>6. Cardinality(AtRisk) \in Nat /\ Pending(spool) \in 0..1 /\ Pending(spool') \in 0..1
      /\ Cardinality(AtRisk) + Pending(spool) <= spoolTears
  BY <1>1, AtRiskIs DEF SpoolInv, Pending
<1>7. Cardinality(AtRisk') + Pending(spool') <= spoolTears'
  BY <1>1, <1>5, <1>6
<1> QED BY <1>1, <1>2, <1>3, <1>7 DEF SpoolInv, Pending

\* Compact's two halves, and its death between them.
LEMMA CompactPreserves ==
  ASSUME SpoolFileAssumption, SpoolInv, CompactWrite \/ CompactRename \/ CompactDies
  PROVE  SpoolInv'
<1>1. UNCHANGED <<acked, spoolTears>> /\ spool \in Journals(Entries)
  BY DEF CompactWrite, CompactRename, CompactDies, SpoolInv
<1>2. CASE CompactWrite
  <2>1. PICK order \in Orders(Remaining(spool)) : tmp' = Compacted(spool, order)
    BY <1>2 DEF CompactWrite
  <2>2. spool' = spool
    BY <1>2 DEF CompactWrite
  <2>3. /\ tmp' \in Journals(Entries) /\ ~tmp'.open
        /\ \A i \in Id : Load(tmp')[i] = IF Load(spool)[i] \in Unfinished THEN Load(spool)[i] ELSE NoState
    BY <1>1, <2>1, CompactedIs
  <2>4. Drawn'
    BY <2>2, <2>3 DEF Drawn
  <2>5. AtRisk' = AtRisk
    BY <1>1, <2>2 DEF AtRisk, Found, FoundAt, Settled, Readable, Rec
  <2> QED BY <1>1, <2>2, <2>4, <2>5 DEF SpoolInv, Pending
<1>3. CASE CompactRename
  <2>1. tmp # NoTmp /\ spool' = tmp /\ tmp' = NoTmp
    BY <1>3 DEF CompactRename
  <2>2. /\ tmp \in Journals(Entries) /\ ~tmp.open
        /\ \A i \in Id : Load(tmp)[i] = IF Load(spool)[i] \in Unfinished THEN Load(spool)[i] ELSE NoState
    BY <2>1 DEF SpoolInv, Drawn
  <2>3. \A i \in Id : Load(tmp)[i] = Found(tmp, Settled(tmp), i)
    BY <2>2, LoadIs
  <2> DEFINE last == Rec(spool, Len(spool.lines)).id
  <2>4. AtRisk' = {x \in Id : acked[x] \in Unfinished /\ Found(tmp, Settled(tmp), x) \notin Unfinished}
    BY <1>1, <2>1 DEF AtRisk, Found, FoundAt, Settled, Readable, Rec
  <2>5. ASSUME NEW x \in Id, acked[x] \in Unfinished, Found(tmp, Settled(tmp), x) \notin Unfinished
        PROVE  x \in AtRisk \cup (IF spool.open THEN {last} ELSE {})
    <3>1. Load(spool)[x] \notin Unfinished
      BY <2>2, <2>3, <2>5
    <3>2. spool.open \in BOOLEAN
      BY <1>1, LinesAre
    <3>3. CASE spool.open /\ last = x
      BY <3>3
    <3>4. CASE ~(spool.open /\ last = x)
      <4>1. Load(spool)[x] = Found(spool, Settled(spool), x)
        BY <1>1, <3>2, <3>4, LoadIs
      <4> QED BY <2>5, <3>1, <4>1 DEF AtRisk
    <3> QED BY <3>3, <3>4
  <2> HIDE DEF last
  <2>6. AtRisk' \subseteq AtRisk \cup (IF spool.open THEN {last} ELSE {})
    BY <2>4, <2>5
  <2>7. Cardinality(AtRisk') + Pending(spool') <= spoolTears'
    BY <1>1, <2>1, <2>2, <2>6, RiskGrows
  <2>8. Drawn'
    BY <2>1 DEF Drawn
  <2> QED BY <1>1, <2>1, <2>2, <2>7, <2>8 DEF SpoolInv, Pending
<1>4. CASE CompactDies
  <2>1. tmp' = NoTmp /\ spool' = spool
    BY <1>4 DEF CompactDies
  <2>2. Drawn'
    BY <2>1 DEF Drawn
  <2>3. AtRisk' = AtRisk
    BY <1>1, <2>1 DEF AtRisk, Found, FoundAt, Settled, Readable, Rec
  <2> QED BY <1>1, <2>1, <2>2, <2>3 DEF SpoolInv, Pending
<1> QED BY <1>2, <1>3, <1>4

\* The invariant holds.
LEMMA SpoolInvHolds ==
  ASSUME SpoolFileAssumption
  PROVE  SpecSpool => []SpoolInv
<1>1. InitSpool => SpoolInv
  <2> SUFFICES ASSUME InitSpool PROVE SpoolInv
    OBVIOUS
  <2>1. spool \in Journals(Entries) /\ ~spool.open /\ Pending(spool) = 0
    BY EmptyIs DEF InitSpool, Pending
  <2>2. AtRisk = {}
    BY DEF InitSpool, AtRisk, Unfinished, NoState
  <2>3. Cardinality(AtRisk) = 0
    BY <2>2, FS_EmptySet
  <2>4. spoolTears = 0 /\ acked \in [Id -> State \cup {NoState}] /\ Drawn
    BY DEF InitSpool, Drawn
  <2> QED BY <2>1, <2>3, <2>4 DEF SpoolInv
<1>2. SpoolInv /\ [NextSpool]_spoolVars => SpoolInv'
  <2> SUFFICES ASSUME SpoolInv, [NextSpool]_spoolVars PROVE SpoolInv'
    OBVIOUS
  <2>1. CASE UNCHANGED spoolVars
    <3>1. spool' = spool /\ tmp' = tmp /\ acked' = acked /\ spoolTears' = spoolTears
      BY <2>1 DEF spoolVars
    <3>2. AtRisk' = AtRisk
      BY <3>1 DEF AtRisk, Found, FoundAt, Settled, Readable, Rec
    <3>3. Drawn'
      BY <3>1 DEF SpoolInv, Drawn
    <3> QED BY <3>1, <3>2, <3>3 DEF SpoolInv, Pending
  <2>2. ASSUME NEW i \in Id, NEW s \in State, AppendSync(i, s) \/ AppendTorn(i, s) PROVE SpoolInv'
    BY <2>2, AppendSyncPreserves, AppendTornPreserves
  <2>3. CASE CompactWrite \/ CompactRename \/ CompactDies
    BY <2>3, CompactPreserves
  <2> QED BY <2>1, <2>2, <2>3 DEF NextSpool
<1> QED BY <1>1, <1>2, PTL DEF SpecSpool

\* The queue, whatever the appends, the tears and the compactions: a hand-off
\* that was accepted and is not finished disappears from the file at most once
\* for each write that ended early, and Compact drops what is finished and
\* nothing else (internal/spool: appendSync, load, Compact).
THEOREM SpoolLosesOnePerTear == SpecSpool => [](OneLossPerTear /\ CompactKeepsUnfinished)
<1>1. SpoolInv => OneLossPerTear /\ CompactKeepsUnfinished
  <2> SUFFICES ASSUME SpoolInv PROVE OneLossPerTear /\ CompactKeepsUnfinished
    OBVIOUS
  <2>1. IsFiniteSet(AtRisk) /\ Cardinality(AtRisk) \in Nat /\ Lost \subseteq AtRisk
    BY AtRiskIs, SpoolFileAssumption DEF SpoolInv
  <2>2. IsFiniteSet(Lost) /\ Cardinality(Lost) <= Cardinality(AtRisk)
    BY <2>1, FS_Subset
  <2>3. Cardinality(Lost) \in Nat /\ Pending(spool) \in 0..1 /\ spoolTears \in Nat
    BY <2>2, FS_CardinalityType DEF Pending, SpoolInv
  <2>4. OneLossPerTear
    BY <2>1, <2>2, <2>3 DEF SpoolInv, OneLossPerTear
  <2>5. CompactKeepsUnfinished
    BY DEF SpoolInv, Drawn, CompactKeepsUnfinished
  <2> QED BY <2>4, <2>5
<1>2. SpecSpool => []SpoolInv
  BY SpoolInvHolds, SpoolFileAssumption
<1> QED BY <1>1, <1>2, PTL

\* The two journals of a room, each by its own specification, together: what
\* they can lose is what the writes cut short account for.
THEOREM JournalsLoseWhatTearsPay == SpecSpool /\ SpecMirror => []JournalsLose
<1>1. OneLossPerTear /\ CompactKeepsUnfinished /\ TwoGapsPerTear => JournalsLose
  BY DEF JournalsLose
<1> QED BY <1>1, SpoolLosesOnePerTear, MirrorLosesTwoPerTear, PTL
=============================================================================
