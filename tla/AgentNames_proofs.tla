-------------------------- MODULE AgentNames_proofs --------------------------
(***************************************************************************)
(* Proofs about AgentNames, for every number of panes, names and handlers  *)
(* that work at once, in five parts:                                       *)
(*                                                                         *)
(*   1. the candidates of a pane: strides that are coprime with the number *)
(*      of names come to every name once;                                  *)
(*   2. types;                                                             *)
(*   3. what spawn reports: nobody but the user names the agent in the new *)
(*      pane, for it is never without a name;                              *)
(*   4. how names settle: while no name comes free again, the handlers of  *)
(*      a pane take the same one, and it is the one that is shown;         *)
(*   5. who is left without a name: with fewer panes than names, nobody,   *)
(*      unless a command failed or names were moving.                      *)
(***************************************************************************)
EXTENDS AgentNames, FiniteSetTheorems, WellFoundedInduction, TLAPS

-----------------------------------------------------------------------------
(* 1. Candidates.                                                          *)

\* A set of naturals that is not empty has a least member.
LEMMA LeastNumber ==
  ASSUME NEW T, T \subseteq Nat, T # {}
  PROVE  \E x \in T : \A y \in T : x <= y
<1> DEFINE R == OpToRel(<, Nat)
<1>1. IsWellFoundedOn(R, Nat)
  BY NatLessThanWellFounded
<1> HIDE DEF R
<1>2. PICK x \in T : \A y \in T : ~(<<y, x>> \in R)
  BY <1>1, WFMin
<1>3. ASSUME NEW y \in T, y < x
      PROVE  <<y, x>> \in R
  BY <1>3 DEF R, OpToRel
<1>4. ASSUME NEW y \in T
      PROVE  x <= y
  <2>1. ~(y < x)
    BY <1>2, <1>3
  <2>2. x \in Nat /\ y \in Nat
    OBVIOUS
  <2>3. QED
    BY <2>1, <2>2
<1>5. QED
  BY <1>4

\* Division with remainder.
LEMMA Division ==
  ASSUME NEW a \in Nat, NEW n \in Nat \ {0}
  PROVE  \E q \in Nat : a = n * q + (a % n) /\ a % n \in 0 .. n - 1
<1>1. a \div n \in Nat /\ a % n \in 0 .. n - 1
  OBVIOUS
<1>2. a = n * (a \div n) + (a % n)
  OBVIOUS
<1>3. QED
  BY <1>1, <1>2

\* If n divides m * k, and n and k have no divisor in common, n divides m.
LEMMA CoprimeDivides ==
  ASSUME NEW n \in Nat \ {0}, NEW k \in Nat, NEW m \in 1 .. n - 1,
         \A d \in 1 .. n : n % d = 0 /\ k % d = 0 => d = 1
  PROVE  (m * k) % n # 0
<1> DEFINE T == {t \in Nat \ {0} : (t * k) % n = 0}
<1> SUFFICES ASSUME (m * k) % n = 0
             PROVE  FALSE
  OBVIOUS
<1>1. m \in T
  OBVIOUS
<1>2. PICK t \in T : \A y \in T : t <= y
  BY <1>1, LeastNumber
<1>3. t \in Nat \ {0} /\ (t * k) % n = 0 /\ t <= m /\ t < n
  <2>1. t <= m
    BY <1>1, <1>2
  <2>2. t \in Nat \ {0} /\ (t * k) % n = 0
    BY <1>2
  <2>3. QED
    BY <2>1, <2>2
<1>4. n \in T
  <2>1. (n * k) % n = 0
    OBVIOUS
  <2>2. QED
    BY <2>1
<1>5. PICK c \in Nat : t * k = n * c
  <2>1. t * k \in Nat
    BY <1>3
  <2>2. PICK q \in Nat : t * k = n * q + ((t * k) % n)
    BY <2>1, Division
  <2>3. t * k = n * q
    BY <1>3, <2>2
  <2>4. QED
    BY <2>3
<1>6. PICK d \in Nat : n = t * d + (n % t) /\ n % t \in 0 .. t - 1
  BY <1>3, Division
<1> DEFINE r == n % t
<1> HIDE DEF r, T
<1>7. n = t * d + r /\ r \in 0 .. t - 1 /\ r \in Nat
  BY <1>3, <1>6 DEF r
<1>8. r = 0
  <2>1. n * k = (t * d) * k + r * k
    BY <1>3, <1>7
  <2>2. (t * d) * k = d * (t * k)
    BY <1>3
  <2>3. d * (t * k) = n * (d * c)
    BY <1>5
  <2>4. r * k = n * (k - d * c)
    <3>1. n * k = n * (d * c) + r * k
      BY <2>1, <2>2, <2>3
    <3>2. n * (k - d * c) = n * k - n * (d * c)
      OBVIOUS
    <3>3. n * (d * c) \in Int /\ r * k \in Int /\ n * k \in Int
      BY <1>7
    <3>4. QED
      BY <3>1, <3>2, <3>3
  <2>5. (r * k) % n = 0
    <3> DEFINE e == k - d * c
    <3>1. e \in Int
      OBVIOUS
    <3> HIDE DEF e
    <3>2. (n * e) % n = 0
      BY <3>1
    <3>3. QED
      BY <2>4, <3>2 DEF e
  <2>6. r # 0 => r \in T
    BY <1>7, <2>5 DEF T
  <2>7. QED
    BY <1>2, <1>3, <1>7, <2>6
<1>9. n = t * d /\ d \in 1 .. n
  <2>1. n = t * d
    BY <1>3, <1>7, <1>8
  <2>2. d # 0
    BY <1>3, <2>1
  <2>3. d <= t * d
    BY <1>3
  <2>4. QED
    BY <2>1, <2>2, <2>3
<1>10. k = d * c
  <2>1. t * k = t * (d * c)
    BY <1>3, <1>5, <1>9
  <2>2. d * c \in Nat
    OBVIOUS
  <2>3. QED
    BY <1>3, <2>1, <2>2
<1>11. n % d = 0 /\ k % d = 0
  <2>1. d \in Nat \ {0}
    BY <1>9
  <2>2. (d * t) % d = 0 /\ (d * c) % d = 0
    BY <1>3, <2>1
  <2>3. n = d * t
    BY <1>3, <1>9
  <2>4. QED
    BY <1>10, <2>2, <2>3
<1>12. d = 1
  BY <1>9, <1>11
<1>13. QED
  BY <1>3, <1>9, <1>12

\* Numbers that leave the same remainder differ by a multiple.
LEMMA SameRemainder ==
  ASSUME NEW n \in Nat \ {0}, NEW a \in Nat, NEW b \in Nat, a % n = b % n
  PROVE  (b - a) % n = 0
<1>1. PICK q \in Nat : a = n * q + (a % n)
  BY Division
<1>2. PICK p \in Nat : b = n * p + (b % n)
  BY Division
<1>3. b - a = n * (p - q)
  <2>1. a % n \in Int /\ n * p \in Int /\ n * q \in Int
    OBVIOUS
  <2>2. n * (p - q) = n * p - n * q
    OBVIOUS
  <2>3. QED
    BY <1>1, <1>2, <2>1, <2>2
<1> DEFINE e == p - q
<1>4. e \in Int
  OBVIOUS
<1> HIDE DEF e
<1>5. (n * e) % n = 0
  BY <1>4
<1>6. QED
  BY <1>3, <1>5 DEF e

\* So strides from one place do not meet before they have been everywhere.
LEMMA StridesDiffer ==
  ASSUME NEW s \in 0 .. N - 1, NEW i \in 0 .. N - 1, NEW j \in 0 .. N - 1,
         (s + i * Stride) % N = (s + j * Stride) % N
  PROVE  i = j
<1>1. /\ N \in Nat \ {0} /\ Stride \in Nat
      /\ \A d \in 1 .. N : N % d = 0 /\ Stride % d = 0 => d = 1
  BY NamesAssumption
<1>2. ASSUME NEW a \in 0 .. N - 1, NEW b \in 0 .. N - 1, a < b
      PROVE  (s + a * Stride) % N # (s + b * Stride) % N
  <2> DEFINE x == s + a * Stride
             y == s + b * Stride
             m == b - a
  <2>1. x \in Nat /\ y \in Nat
    BY <1>1
  <2>2. m \in 1 .. N - 1
    BY <1>1, <1>2
  <2>3. y - x = m * Stride
    BY <1>1
  <2> HIDE DEF x, y, m
  <2>4. (m * Stride) % N # 0
    BY <1>1, <2>2, CoprimeDivides
  <2>5. x % N # y % N
    <3>1. x % N = y % N => (y - x) % N = 0
      BY <1>1, <2>1, SameRemainder
    <3>2. QED
      BY <2>3, <2>4, <3>1
  <2>6. QED
    BY <2>5 DEF x, y
<1>3. i < j \/ j < i \/ i = j
  BY <1>1
<1>4. QED
  BY <1>2, <1>3

LEMMA CandidateIndex ==
  ASSUME NEW p \in AllPanes, NEW s \in BOOLEAN, NEW k \in 0 .. N - 1
  PROVE  /\ First[p][s] \in 0 .. N - 1
         /\ (First[p][s] + k * Stride) % N \in 0 .. N - 1
<1>1. First[p][s] \in 0 .. N - 1 /\ N \in Nat \ {0} /\ Stride \in Nat
  BY NamesAssumption
<1>2. k * Stride \in Nat
  BY <1>1
<1> DEFINE a == First[p][s] + k * Stride
<1>3. a \in Nat
  BY <1>1, <1>2
<1> HIDE DEF a
<1>4. a % N \in 0 .. N - 1
  BY <1>1, <1>3
<1>5. QED
  BY <1>1, <1>4 DEF a

\* A candidate is a name of the palette.
LEMMA CandidateIs ==
  ASSUME NEW p \in AllPanes, NEW s \in BOOLEAN, NEW k \in 0 .. N - 1
  PROVE  /\ Candidate(p, s, k) \in Aliases /\ Candidate(p, s, k) \in Names
         /\ Candidate(p, s, k) # NoName /\ Candidate(p, s, k) \notin Manual
<1> DEFINE i == (First[p][s] + k * Stride) % N
<1>1. i \in 0 .. N - 1 /\ N \in Nat
  BY CandidateIndex, NamesAssumption
<1> HIDE DEF i
<1>2. i + 1 \in 1 .. N
  BY <1>1
<1>3. Palette[i + 1] \in Aliases
  BY <1>2 DEF Aliases
<1>4. Candidate(p, s, k) \in Aliases
  BY <1>3 DEF Candidate, i
<1>5. QED
  BY <1>4, NamesAssumption DEF Names

\* The candidates of a pane are different names.
LEMMA CandidatesDiffer ==
  ASSUME NEW p \in AllPanes, NEW s \in BOOLEAN, NEW j \in 0 .. N - 1, NEW k \in 0 .. N - 1,
         Candidate(p, s, j) = Candidate(p, s, k)
  PROVE  j = k
<1> DEFINE f == First[p][s]
           a == (f + j * Stride) % N
           b == (f + k * Stride) % N
<1>1. a \in 0 .. N - 1 /\ b \in 0 .. N - 1 /\ f \in 0 .. N - 1 /\ N \in Nat
  BY CandidateIndex, NamesAssumption
<1>2. Palette[a + 1] = Palette[b + 1]
  BY DEF Candidate
<1>3. a = b => j = k
  BY <1>1, StridesDiffer
<1> HIDE DEF a, b
<1>4. a + 1 \in 1 .. N /\ b + 1 \in 1 .. N
  BY <1>1
<1>5. a + 1 = b + 1
  BY <1>2, <1>4, NamesAssumption
<1>6. a = b
  BY <1>1, <1>5
<1>7. QED
  BY <1>3, <1>6

\* "So every alias is visited exactly once": the candidates of a pane are all
\* the names of the palette, and by CandidatesDiffer none comes twice.
THEOREM EveryAliasIsCandidate ==
  ASSUME NEW p \in AllPanes, NEW s \in BOOLEAN
  PROVE  Aliases = {Candidate(p, s, k) : k \in 0 .. N - 1}
<1> DEFINE S == 0 .. N - 1
           f == [k \in S |-> (First[p][s] + k * Stride) % N]
<1>0. N \in Nat \ {0} /\ First[p][s] \in 0 .. N - 1
  BY NamesAssumption
<1>1. f \in [S -> S]
  BY CandidateIndex
<1>2. \A i, j \in S : f[i] = f[j] => i = j
  BY <1>0, StridesDiffer
<1>3. IsFiniteSet(S)
  BY <1>0, FS_Interval
<1> HIDE DEF f
<1>4. f \in Injection(S, S)
  BY <1>1, <1>2 DEF Injection, IsInjective
<1>5. f \in Surjection(S, S)
  BY <1>3, <1>4, FS_Injection
<1>6. ASSUME NEW i \in 1 .. N
      PROVE  \E k \in S : Palette[i] = Candidate(p, s, k)
  <2>1. i - 1 \in S
    BY <1>0
  <2>2. PICK k \in S : f[k] = i - 1
    BY <1>5, <2>1 DEF Surjection
  <2>3. f[k] + 1 = i
    BY <2>2
  <2>4. QED
    BY <2>3 DEF f, Candidate
<1>7. \A k \in S : Candidate(p, s, k) \in Aliases
  BY CandidateIs
<1>8. QED
  BY <1>6, <1>7 DEF Aliases

-----------------------------------------------------------------------------
(* 2. Types.                                                               *)

AgentsTyped ==
    /\ agent \in [AllPanes -> {"no", "yes", "left"}]
    /\ name \in [AllPanes -> Names \cup {NoName}]
    /\ \A p, x \in AllPanes : name[p] = name[x] /\ name[p] # NoName => p = x
    /\ \A p \in AllPanes : name[p] # NoName => agent[p] = "yes"
    /\ session \in [AllPanes -> BOOLEAN]
    /\ given \in [AllPanes -> Manual \cup {NoName}]
    /\ display \in [AllPanes -> Names \cup {NoName}]
    /\ trouble \in [AllPanes -> {"", "failed", "exhausted"}]

HandlersTyped ==
    /\ due \subseteq {"label", "clear"} \X AllPanes
    /\ todo \in [Labelers -> SUBSET AllPanes]
    /\ work \in [Labelers -> Works]

SpawnTyped ==
    /\ spawn \in {"off", "list", "start", "report", "relist", "close",
                 "ok", "error", "raised"}
    /\ label \in Names \cup {NoName} /\ chosen \in Names \cup {NoName}
    /\ taken \subseteq Names /\ try \in 0 .. N

FlagsTyped ==
    /\ {starting, exists, told, unclosed, churn} \subseteq BOOLEAN
    /\ moves \in 0 .. MaxMoves

Typed == AgentsTyped /\ HandlersTyped /\ SpawnTyped /\ FlagsTyped

LEMMA ZeroIsNext == 0 \in 0 .. N - 1
<1>1. N \in Nat \ {0}
  BY NamesAssumption
<1>2. QED
  BY <1>1

LEMMA IdleWorks == Idle \in Works
BY ZeroIsNext DEF Idle, Works, AllPanes

\* A server names an agent that is there, with a name that is no other's.
LEMMA NamingIsTyped ==
  ASSUME AgentsTyped, NEW p \in AllPanes, NEW n \in Names, agent'[p] = "yes",
         n \notin InUse \ {name[p]}, name' = [name EXCEPT ![p] = n],
         \A x \in AllPanes : x # p => agent'[x] = agent[x]
  PROVE  /\ name' \in [AllPanes -> Names \cup {NoName}]
         /\ \A x, y \in AllPanes : name'[x] = name'[y] /\ name'[x] # NoName => x = y
         /\ \A x \in AllPanes : name'[x] # NoName => agent'[x] = "yes"
<1>1. name'[p] = n /\ \A x \in AllPanes : x # p => name'[x] = name[x]
  BY DEF AgentsTyped
<1>2. n # NoName
  BY NamesAssumption DEF Names
<1>3. ASSUME NEW x \in AllPanes, x # p
      PROVE  name[x] # n
  <2>1. name[x] = n => name[x] \in InUse /\ name[x] # name[p]
    BY <1>2, <1>3 DEF InUse, AgentsTyped
  <2>2. QED
    BY <2>1
<1>4. QED
  BY <1>1, <1>2, <1>3 DEF AgentsTyped

\* And takes names away.
LEMMA UnnamingIsTyped ==
  ASSUME AgentsTyped, NEW p \in AllPanes, name' = [name EXCEPT ![p] = NoName],
         \A x \in AllPanes : x # p => agent'[x] = agent[x]
  PROVE  /\ name' \in [AllPanes -> Names \cup {NoName}]
         /\ \A x, y \in AllPanes : name'[x] = name'[y] /\ name'[x] # NoName => x = y
         /\ \A x \in AllPanes : name'[x] # NoName => agent'[x] = "yes"
BY DEF AgentsTyped

\* A name is in use when some agent has it.
LEMMA InUseIs ==
  ASSUME AgentsTyped
  PROVE  /\ InUse \subseteq Names
         /\ \A n \in Names : n \in InUse <=> \E p \in AllPanes : name[p] = n
<1>1. NoName \notin Names
  BY NamesAssumption
<1>2. \A p \in AllPanes : name[p] \in Names \cup {NoName}
  BY DEF AgentsTyped
<1>3. QED
  BY <1>1, <1>2 DEF InUse

LEMMA TypedInit ==
  ASSUME Init
  PROVE  Typed
<1>1. AgentsTyped
  BY DEF Init, AgentsTyped
<1>2. HandlersTyped
  BY IdleWorks DEF Init, HandlersTyped
<1>3. SpawnTyped
  <2>1. N \in Nat /\ 0 \in 0 .. N
    BY NamesAssumption
  <2>2. QED
    BY <2>1 DEF Init, SpawnTyped
<1>4. FlagsTyped
  <2>1. 0 \in 0 .. MaxMoves
    BY NamesAssumption
  <2>2. QED
    BY <2>1 DEF Init, FlagsTyped
<1>5. QED
  BY <1>1, <1>2, <1>3, <1>4 DEF Typed

LEMMA WorldTyped ==
  ASSUME Typed, World
  PROVE  Typed'
<1>0. AgentsTyped /\ HandlersTyped /\ SpawnTyped /\ FlagsTyped /\ Panes \subseteq AllPanes
      /\ MaxMoves \in Nat
  BY NamesAssumption DEF Typed, AllPanes
<1>1. moves < MaxMoves => moves + 1 \in 0 .. MaxMoves
  BY <1>0 DEF FlagsTyped
<1>2. ASSUME NEW p \in Panes, AgentComes(p)
      PROVE  Typed'
  <2>1. AgentsTyped'
    BY <1>0, <1>2 DEF AgentsTyped, AgentComes
  <2>2. HandlersTyped'
    <3>1. p \in AllPanes
      BY <1>0
    <3>2. due' = due \cup {<<"label", p>>} /\ todo' = todo /\ work' = work
      BY <1>2 DEF AgentComes, labVars
    <3>3. QED
      BY <1>0, <3>1, <3>2 DEF HandlersTyped
  <2>3. SpawnTyped'
    BY <1>0, <1>2 DEF SpawnTyped, AgentComes, spawnVars
  <2>4. FlagsTyped'
    BY <1>0, <1>1, <1>2 DEF FlagsTyped, AgentComes, spawnVars, Moves
  <2>5. QED
    BY <2>1, <2>2, <2>3, <2>4 DEF Typed
<1>3. ASSUME NEW p \in AllPanes, AgentLeaves(p)
      PROVE  Typed'
  <2>1. AgentsTyped'
    <3>1. /\ name' \in [AllPanes -> Names \cup {NoName}]
          /\ \A x, y \in AllPanes : name'[x] = name'[y] /\ name'[x] # NoName => x = y
          /\ \A x \in AllPanes : name'[x] # NoName => agent'[x] = "yes"
      BY <1>0, <1>3, UnnamingIsTyped DEF AgentLeaves, AgentsTyped
    <3>2. QED
      BY <1>0, <1>3, <3>1 DEF AgentsTyped, AgentLeaves
  <2>2. HandlersTyped'
    BY <1>0, <1>3 DEF HandlersTyped, AgentLeaves, labVars
  <2>3. SpawnTyped'
    BY <1>0, <1>3 DEF SpawnTyped, AgentLeaves, spawnVars
  <2>4. FlagsTyped'
    BY <1>0, <1>1, <1>3 DEF FlagsTyped, AgentLeaves, spawnVars, Moves
  <2>5. QED
    BY <2>1, <2>2, <2>3, <2>4 DEF Typed
<1>4. ASSUME NEW p \in AllPanes, NEW n \in Manual, UserRenames(p, n)
      PROVE  Typed'
  <2>1. AgentsTyped'
    <3>1. n \in Names /\ n \notin InUse \ {name[p]}
      BY <1>4 DEF Names, UserRenames
    <3>2. /\ name' \in [AllPanes -> Names \cup {NoName}]
          /\ \A x, y \in AllPanes : name'[x] = name'[y] /\ name'[x] # NoName => x = y
          /\ \A x \in AllPanes : name'[x] # NoName => agent'[x] = "yes"
      BY <1>0, <1>4, <3>1, NamingIsTyped DEF UserRenames
    <3>3. QED
      BY <1>0, <1>4, <3>2 DEF AgentsTyped, UserRenames
  <2>2. HandlersTyped'
    BY <1>0, <1>4 DEF HandlersTyped, UserRenames, labVars
  <2>3. SpawnTyped'
    BY <1>0, <1>4 DEF SpawnTyped, UserRenames, spawnVars
  <2>4. FlagsTyped'
    BY <1>0, <1>1, <1>4 DEF FlagsTyped, UserRenames, spawnVars, Moves
  <2>5. QED
    BY <2>1, <2>2, <2>3, <2>4 DEF Typed
<1>5. ASSUME NEW p \in AllPanes, StatusChanges(p)
      PROVE  Typed'
  <2>1. AgentsTyped'
    BY <1>0, <1>5 DEF AgentsTyped, StatusChanges
  <2>2. HandlersTyped'
    BY <1>0, <1>5 DEF HandlersTyped, StatusChanges, labVars
  <2>3. SpawnTyped'
    BY <1>0, <1>5 DEF SpawnTyped, StatusChanges, spawnVars
  <2>4. FlagsTyped'
    BY <1>0, <1>1, <1>5 DEF FlagsTyped, StatusChanges, spawnVars, Moves
  <2>5. QED
    BY <2>1, <2>2, <2>3, <2>4 DEF Typed
<1>6. QED
  BY <1>2, <1>3, <1>4, <1>5 DEF World

\* How a labeler's work goes on: it stops, or comes to another step of the
\* same pane, at the same candidate or the next.
LEMMA WorkTyped ==
  ASSUME HandlersTyped, NEW l \in Labelers
  PROVE  /\ work[l] \in Works /\ work[l].pane \in AllPanes /\ work[l].next \in 0 .. N - 1
         /\ \A where \in {"idle", "rename", "again", "report", "clear"} :
               Goes(l, where) => work' \in [Labelers -> Works]
         /\ \A why : Stops(l, why) => work' \in [Labelers -> Works]
         /\ \A why : TurnedDown(l, why) => work' \in [Labelers -> Works]
<1>1. work[l] \in Works /\ work \in [Labelers -> Works]
  BY DEF HandlersTyped
<1>2. work[l].pane \in AllPanes /\ work[l].next \in 0 .. N - 1
  BY <1>1 DEF Works
<1>3. ASSUME NEW where \in {"idle", "rename", "again", "report", "clear"}, Goes(l, where)
      PROVE  work' \in [Labelers -> Works]
  <2>1. [work[l] EXCEPT !.at = where] \in Works
    BY <1>1 DEF Works
  <2>2. work' = [work EXCEPT ![l] = [work[l] EXCEPT !.at = where]]
    BY <1>3 DEF Goes
  <2>3. QED
    BY <1>1, <2>1, <2>2
<1>4. ASSUME NEW why, Stops(l, why)
      PROVE  work' \in [Labelers -> Works]
  BY <1>1, <1>4, IdleWorks DEF Stops
<1>5. ASSUME NEW why, TurnedDown(l, why)
      PROVE  work' \in [Labelers -> Works]
  <2>1. CASE work[l].next + 1 < N /\ work' = [work EXCEPT ![l].at = "rename", ![l].next = @ + 1]
    <3> DEFINE w == work[l]
               v == [w EXCEPT !.at = "rename"]
               k == w.next + 1
    <3>1. v \in Works /\ k \in 0 .. N - 1
      <4>1. N \in Nat
        BY NamesAssumption
      <4>2. QED
        BY <1>1, <1>2, <2>1, <4>1 DEF Works
    <3>2. work' = [work EXCEPT ![l] = [v EXCEPT !.next = k]]
      BY <1>1, <2>1 DEF Works
    <3> HIDE DEF v, k
    <3>3. [v EXCEPT !.next = k] \in Works
      BY <3>1 DEF Works
    <3>4. QED
      BY <1>1, <3>2, <3>3
  <2>2. CASE Stops(l, IF why = "" THEN "exhausted" ELSE why)
    BY <1>4, <2>2
  <2>3. QED
    BY <1>5, <2>1, <2>2 DEF TurnedDown
<1>6. QED
  BY <1>1, <1>2, <1>3, <1>4, <1>5

\* What a labeler does not touch.
LEMMA LabelerRestsTyped ==
  ASSUME Typed, LabelerRests
  PROVE  SpawnTyped' /\ moves' \in 0 .. MaxMoves /\ churn' \in BOOLEAN
         /\ {exists', told', unclosed'} \subseteq BOOLEAN
         /\ UNCHANGED <<agent, session, given, due>>
BY DEF Typed, SpawnTyped, FlagsTyped, LabelerRests, agentVars, spawnVars

LEMMA LabelerTyped ==
  ASSUME Typed, NEW l \in Labelers, LabelerStep(l)
  PROVE  Typed'
<1>0. AgentsTyped /\ HandlersTyped /\ SpawnTyped /\ FlagsTyped
  BY DEF Typed
<1>1. work[l] \in Works /\ work[l].pane \in AllPanes /\ work[l].next \in 0 .. N - 1
      /\ work[l].seed \in BOOLEAN
  BY <1>0, WorkTyped DEF Works
<1>2. Tries(l) \in Names
  BY <1>1, CandidateIs DEF Tries
<1>3. ASSUME NEW p \in AllPanes, Handle(l, p)
      PROVE  Typed'
  <2>1. [Idle EXCEPT !.at = "clear", !.pane = p] \in Works
    BY ZeroIsNext DEF Idle, Works
  <2>2. due' \subseteq due /\ todo' \in [Labelers -> SUBSET AllPanes]
        /\ work' \in [Labelers -> Works]
    <3>1. CASE due' = due \ {<<"label", p>>} /\ todo' = [todo EXCEPT ![l] = {p}] /\ work' = work
      BY <1>0, <3>1 DEF HandlersTyped
    <3>2. CASE /\ due' = due \ {<<"clear", p>>} /\ todo' = todo
               /\ work' = [work EXCEPT ![l] = [Idle EXCEPT !.at = "clear", !.pane = p]]
      BY <1>0, <2>1, <3>2 DEF HandlersTyped
    <3>3. QED
      BY <1>3, <3>1, <3>2 DEF Handle
  <2>3. HandlersTyped'
    BY <1>0, <2>2 DEF HandlersTyped
  <2>4. /\ UNCHANGED <<name, display, starting, trouble, churn, moves>>
        /\ UNCHANGED agentVars /\ UNCHANGED spawnVars
    BY <1>3 DEF Handle
  <2>5. AgentsTyped'
    BY <1>0, <2>4 DEF AgentsTyped, agentVars
  <2>6. SpawnTyped' /\ FlagsTyped'
    BY <1>0, <2>4 DEF SpawnTyped, FlagsTyped, spawnVars
  <2>7. QED
    BY <2>3, <2>5, <2>6 DEF Typed
<1>4. ASSUME NEW p \in AllPanes, Fetch(l, p)
      PROVE  Typed'
  <2>1. LabelerRests /\ UNCHANGED <<name, display, starting>>
    BY <1>4 DEF Fetch
  <2>2. /\ todo' = [todo EXCEPT ![l] = @ \ {p}]
        /\ \/ /\ work' = [work EXCEPT ![l] =
                    [at |-> "rename", pane |-> p, seed |-> session[p], next |-> 0]]
              /\ UNCHANGED trouble
           \/ UNCHANGED <<work, trouble>>
           \/ trouble' = [trouble EXCEPT ![p] = "failed"] /\ UNCHANGED work
    BY <1>4 DEF Fetch
  <2>3. todo' \in [Labelers -> SUBSET AllPanes]
    BY <1>0, <2>2 DEF HandlersTyped
  <2>4. [at |-> "rename", pane |-> p, seed |-> session[p], next |-> 0] \in Works
    BY <1>0, ZeroIsNext DEF Works, AgentsTyped
  <2>5. work' \in [Labelers -> Works]
    BY <1>0, <2>2, <2>4 DEF HandlersTyped
  <2>6. trouble' \in [AllPanes -> {"", "failed", "exhausted"}]
    BY <1>0, <2>2 DEF AgentsTyped
  <2>7. AgentsTyped'
    BY <1>0, <2>1, <2>6, LabelerRestsTyped DEF AgentsTyped
  <2>8. HandlersTyped'
    BY <1>0, <2>1, <2>3, <2>5, LabelerRestsTyped DEF HandlersTyped
  <2>9. QED
    BY <1>0, <2>1, <2>7, <2>8, LabelerRestsTyped DEF Typed, FlagsTyped
<1>5. CASE Reconcile(l)
  <2>1. LabelerRests /\ UNCHANGED <<name, display, work>> /\ starting' = FALSE
    BY <1>5 DEF Reconcile
  <2> DEFINE unnamed == {p \in AllPanes : Unnamed(p)}
  <2>2. \/ todo' = [todo EXCEPT ![l] = unnamed] /\ UNCHANGED trouble
        \/ /\ trouble' = [p \in AllPanes |-> IF p \in unnamed THEN "failed" ELSE trouble[p]]
           /\ UNCHANGED todo
    BY <1>5 DEF Reconcile
  <2>3. unnamed \subseteq AllPanes
    OBVIOUS
  <2> HIDE DEF unnamed
  <2>4. todo' \in [Labelers -> SUBSET AllPanes]
    BY <1>0, <2>2, <2>3 DEF HandlersTyped
  <2>5. trouble' \in [AllPanes -> {"", "failed", "exhausted"}]
    BY <1>0, <2>2 DEF AgentsTyped
  <2>6. AgentsTyped'
    BY <1>0, <2>1, <2>5, LabelerRestsTyped DEF AgentsTyped
  <2>7. HandlersTyped'
    BY <1>0, <2>1, <2>4, LabelerRestsTyped DEF HandlersTyped
  <2>8. QED
    BY <1>0, <2>1, <2>6, <2>7, LabelerRestsTyped DEF Typed, FlagsTyped
<1>6. CASE Rename(l) \/ Again(l) \/ Report(l) \/ Clear(l)
  <2>1. LabelerRests /\ UNCHANGED <<starting, todo>>
    BY <1>6 DEF Rename, Again, Report, Clear
  <2>2. work' \in [Labelers -> Works]
    BY <1>0, <1>6, WorkTyped DEF Rename, Again, Report, Clear
  <2>3. trouble' \in [AllPanes -> {"", "failed", "exhausted"}]
    <3>1. ASSUME NEW why \in {"", "failed", "exhausted"}, Stops(l, why)
          PROVE  trouble' \in [AllPanes -> {"", "failed", "exhausted"}]
      BY <1>0, <3>1 DEF Stops, AgentsTyped
    <3>2. ASSUME NEW why \in {"", "failed"}, TurnedDown(l, why)
          PROVE  trouble' \in [AllPanes -> {"", "failed", "exhausted"}]
      <4>1. CASE Stops(l, IF why = "" THEN "exhausted" ELSE why)
        BY <3>1, <4>1
      <4>2. CASE trouble' = IF why = "" THEN trouble ELSE [trouble EXCEPT ![work[l].pane] = why]
        BY <1>0, <4>2 DEF AgentsTyped
      <4>3. QED
        BY <3>2, <4>1, <4>2 DEF TurnedDown
    <3>3. CASE UNCHANGED trouble
      BY <1>0, <3>3 DEF AgentsTyped
    <3>4. QED
      BY <1>6, <3>1, <3>2, <3>3 DEF Rename, Again, Report, Clear
  <2>4. display' \in [AllPanes -> Names \cup {NoName}]
    BY <1>0, <1>1, <1>2, <1>6 DEF AgentsTyped, Rename, Again, Report, Clear
  <2>5. /\ name' \in [AllPanes -> Names \cup {NoName}]
        /\ \A x, y \in AllPanes : name'[x] = name'[y] /\ name'[x] # NoName => x = y
        /\ \A x \in AllPanes : name'[x] # NoName => agent'[x] = "yes"
    <3>1. UNCHANGED agent
      BY <2>1, LabelerRestsTyped
    <3>2. CASE UNCHANGED name
      BY <1>0, <3>1, <3>2 DEF AgentsTyped
    <3>3. CASE Named(work[l].pane, Tries(l))
      BY <1>0, <1>1, <1>2, <3>1, <3>3, NamingIsTyped DEF Named
    <3>4. QED
      BY <1>6, <3>2, <3>3 DEF Rename, Again, Report, Clear
  <2>6. AgentsTyped'
    BY <1>0, <2>1, <2>3, <2>4, <2>5, LabelerRestsTyped DEF AgentsTyped
  <2>7. HandlersTyped'
    BY <1>0, <2>1, <2>2, LabelerRestsTyped DEF HandlersTyped
  <2>8. QED
    BY <1>0, <2>1, <2>6, <2>7, LabelerRestsTyped DEF Typed, FlagsTyped
<1>7. QED
  BY <1>3, <1>4, <1>5, <1>6 DEF LabelerStep

\* One "agent start", for the name it is done with.
StartsNow(n) == /\ n \notin InUse
                /\ agent' = [agent EXCEPT ![New] = "yes"]
                /\ name' = [name EXCEPT ![New] = n]
                /\ due' = due \cup {<<"label", New>>}

LEMMA SpawnStartsIs ==
  ASSUME Typed, SpawnStarts
  PROVE  \E n \in Names :
            /\ spawn = "start" /\ try' \in 0 .. N
            /\ UNCHANGED <<session, given, label, taken, exists, told, unclosed>>
            /\ UNCHANGED <<display, churn, starting, moves, todo, work>>
            /\ \/ StartsNow(n) /\ spawn' = "report" /\ chosen' = n /\ UNCHANGED trouble
               \/ /\ UNCHANGED <<agent, name, due, chosen, trouble>>
                  /\ spawn' \in {"start", "close"}
               \/ /\ spawn' = "close" /\ UNCHANGED chosen
                  /\ StartsNow(n) \/ UNCHANGED <<agent, name, due>>
                  /\ trouble' = [trouble EXCEPT ![New] = "failed"]
<1> DEFINE ks == IF label = NoName THEN {i \in Left(try) : \A j \in Left(try) : i <= j} ELSE {0}
           Name(k) == IF label = NoName THEN Candidate(New, FALSE, k) ELSE label
<1>1. PICK k \in ks :
         LET n == Name(k)
             starts == /\ n \notin InUse
                       /\ agent' = [agent EXCEPT ![New] = "yes"]
                       /\ name' = [name EXCEPT ![New] = n]
                       /\ due' = due \cup {<<"label", New>>}
             stays == UNCHANGED <<agent, name, due>>
         IN  \/ /\ starts
                /\ spawn' = "report" /\ chosen' = n
                /\ UNCHANGED <<try, trouble>>
             \/ /\ n \in InUse /\ stays
                /\ spawn' = IF label = NoName THEN "start" ELSE "close"
                /\ try' = k + 1
                /\ UNCHANGED <<chosen, trouble>>
             \/ /\ spawn' = "close"
                /\ starts \/ stays
                /\ trouble' = [trouble EXCEPT ![New] = "failed"]
                /\ UNCHANGED <<try, chosen>>
  BY DEF SpawnStarts
<1>2. k \in 0 .. N - 1 /\ k + 1 \in 0 .. N
  <2>1. N \in Nat \ {0} /\ try \in 0 .. N
    BY NamesAssumption DEF Typed, SpawnTyped
  <2>2. CASE label = NoName
    BY <2>1, <2>2 DEF Left
  <2>3. CASE label # NoName
    BY <2>1, <2>3
  <2>4. QED
    BY <2>2, <2>3
<1>3. Name(k) \in Names
  <2>1. CASE label = NoName
    <3>1. New \in AllPanes
      BY DEF AllPanes
    <3>2. QED
      BY <1>2, <2>1, <3>1, CandidateIs
  <2>2. CASE label # NoName
    BY <2>2 DEF Typed, SpawnTyped
  <2>3. QED
    BY <2>1, <2>2
<1> DEFINE n == Name(k)
<1>4. try' \in 0 .. N
  BY <1>1, <1>2 DEF Typed, SpawnTyped
<1>5. /\ spawn = "start"
      /\ UNCHANGED <<session, given, label, taken, exists, told, unclosed>>
      /\ UNCHANGED <<display, churn, starting, moves, todo, work>>
  BY DEF SpawnStarts, SpawnRests, labVars
<1> HIDE DEF ks, Name
<1>6. \/ StartsNow(n) /\ spawn' = "report" /\ chosen' = n /\ UNCHANGED trouble
      \/ /\ UNCHANGED <<agent, name, due, chosen, trouble>>
         /\ spawn' \in {"start", "close"}
      \/ /\ spawn' = "close" /\ UNCHANGED chosen
         /\ StartsNow(n) \/ UNCHANGED <<agent, name, due>>
         /\ trouble' = [trouble EXCEPT ![New] = "failed"]
  BY <1>1 DEF StartsNow
<1>7. QED
  BY <1>3, <1>4, <1>5, <1>6

LEMMA SpawnStepTyped ==
  ASSUME Typed, SpawnStep
  PROVE  Typed'
<1>0. AgentsTyped /\ HandlersTyped /\ SpawnTyped /\ FlagsTyped
      /\ New \in AllPanes /\ 0 \in 0 .. N /\ NoName \in Names \cup {NoName}
  <2>1. N \in Nat
    BY NamesAssumption
  <2>2. QED
    BY <2>1 DEF Typed, AllPanes
<1>1. SpawnRests => /\ UNCHANGED <<todo, work, starting, moves>>
  BY DEF SpawnRests, labVars
<1>2. ASSUME NEW n \in Wanted, SpawnCreates(n)
      PROVE  Typed'
  <2>1. n \in Names \cup {NoName}
    BY NamesAssumption
  <2>2. /\ UNCHANGED <<name, display, due, trouble, churn, agent, session, given>>
        /\ UNCHANGED <<todo, work, starting, moves, unclosed>>
    BY <1>1, <1>2 DEF SpawnCreates, agentVars
  <2>3. SpawnTyped' /\ exists' \in BOOLEAN /\ told' \in BOOLEAN
    BY <1>0, <1>2, <2>1 DEF SpawnCreates, SpawnTyped, SpawnEnds, FlagsTyped
  <2>4. QED
    BY <1>0, <2>2, <2>3 DEF Typed, AgentsTyped, HandlersTyped, FlagsTyped
<1>3. CASE SpawnLists \/ SpawnFindsNone \/ SpawnRelists
  <2>1. /\ UNCHANGED <<name, display, due, trouble, churn, agent, session, given>>
        /\ UNCHANGED <<todo, work, starting, moves, exists, told, unclosed>>
    BY <1>1, <1>3 DEF SpawnLists, SpawnFindsNone, SpawnRelists, agentVars
  <2>2. InUse \subseteq Names
    BY <1>0, InUseIs
  <2>3. SpawnTyped'
    BY <1>0, <1>3, <2>2 DEF SpawnLists, SpawnFindsNone, SpawnRelists, SpawnTyped,
       SpawnEnds, SpawnRaises
  <2>4. QED
    BY <1>0, <2>1, <2>3 DEF Typed, AgentsTyped, HandlersTyped, FlagsTyped
<1>4. CASE SpawnReports
  <2>1. /\ UNCHANGED <<name, due, churn, agent, session, given>>
        /\ UNCHANGED <<todo, work, starting, moves, exists, told, unclosed>>
        /\ UNCHANGED <<label, taken, try, chosen>> /\ spawn' = "relist"
    BY <1>1, <1>4 DEF SpawnReports, agentVars
  <2>2. /\ display' \in [AllPanes -> Names \cup {NoName}]
        /\ trouble' \in [AllPanes -> {"", "failed", "exhausted"}]
    BY <1>0, <1>4 DEF SpawnReports, AgentsTyped, Names
  <2>3. QED
    BY <1>0, <2>1, <2>2 DEF Typed, AgentsTyped, HandlersTyped, FlagsTyped, SpawnTyped
<1>5. CASE SpawnCloses
  <2>1. /\ UNCHANGED <<session, told, due, trouble, todo, work, starting, moves>>
        /\ SpawnEnds("error", NoName)
    BY <1>1, <1>5 DEF SpawnCloses
  <2>2. SpawnTyped'
    BY <1>0, <2>1 DEF SpawnTyped, SpawnEnds
  <2>3. ASSUME agent' = [agent EXCEPT ![New] = "no"],
               name' = [name EXCEPT ![New] = NoName],
               given' = [given EXCEPT ![New] = NoName],
               display' = [display EXCEPT ![New] = NoName]
        PROVE  AgentsTyped'
    <3>1. /\ name' \in [AllPanes -> Names \cup {NoName}]
          /\ \A x, y \in AllPanes : name'[x] = name'[y] /\ name'[x] # NoName => x = y
          /\ \A x \in AllPanes : name'[x] # NoName => agent'[x] = "yes"
      BY <1>0, <2>3, UnnamingIsTyped DEF AgentsTyped
    <3>2. QED
      BY <1>0, <2>1, <2>3, <3>1 DEF AgentsTyped
  <2>4. ASSUME UNCHANGED <<agent, name, given, display>>
        PROVE  AgentsTyped'
    BY <1>0, <2>1, <2>4 DEF AgentsTyped
  <2>5. AgentsTyped'
    BY <1>5, <2>3, <2>4 DEF SpawnCloses
  <2>6. {exists', unclosed', churn'} \subseteq BOOLEAN
    BY <1>0, <1>5 DEF SpawnCloses, FlagsTyped
  <2>7. QED
    BY <1>0, <2>1, <2>2, <2>5, <2>6 DEF Typed, HandlersTyped, FlagsTyped
<1>6. CASE SpawnStarts
  <2>1. PICK n \in Names :
            /\ try' \in 0 .. N
            /\ UNCHANGED <<session, given, label, taken, exists, told, unclosed>>
            /\ UNCHANGED <<display, churn, starting, moves, todo, work>>
            /\ \/ StartsNow(n) /\ spawn' = "report" /\ chosen' = n /\ UNCHANGED trouble
               \/ /\ UNCHANGED <<agent, name, due, chosen, trouble>>
                  /\ spawn' \in {"start", "close"}
               \/ /\ spawn' = "close" /\ UNCHANGED chosen
                  /\ StartsNow(n) \/ UNCHANGED <<agent, name, due>>
                  /\ trouble' = [trouble EXCEPT ![New] = "failed"]
    BY <1>0, <1>6, SpawnStartsIs DEF Typed
  <2>2. SpawnTyped' /\ FlagsTyped'
    BY <1>0, <2>1 DEF SpawnTyped, FlagsTyped
  <2>3. trouble' \in [AllPanes -> {"", "failed", "exhausted"}]
    BY <1>0, <2>1 DEF AgentsTyped
  <2>4. CASE StartsNow(n)
    <3>1. /\ agent' = [agent EXCEPT ![New] = "yes"] /\ name' = [name EXCEPT ![New] = n]
          /\ n \notin InUse \ {name[New]} /\ due' = due \cup {<<"label", New>>}
      BY <2>4 DEF StartsNow
    <3>2. /\ name' \in [AllPanes -> Names \cup {NoName}]
          /\ \A x, y \in AllPanes : name'[x] = name'[y] /\ name'[x] # NoName => x = y
          /\ \A x \in AllPanes : name'[x] # NoName => agent'[x] = "yes"
      BY <1>0, <3>1, NamingIsTyped DEF AgentsTyped
    <3>3. AgentsTyped'
      BY <1>0, <2>1, <2>3, <3>1, <3>2 DEF AgentsTyped
    <3>4. HandlersTyped'
      BY <1>0, <2>1, <3>1 DEF HandlersTyped
    <3>5. QED
      BY <2>2, <3>3, <3>4 DEF Typed
  <2>5. CASE UNCHANGED <<agent, name, due>>
    BY <1>0, <2>1, <2>2, <2>3, <2>5 DEF Typed, AgentsTyped, HandlersTyped
  <2>6. QED
    BY <2>1, <2>4, <2>5
<1>7. QED
  BY <1>2, <1>3, <1>4, <1>5, <1>6 DEF SpawnStep

LEMMA TypedStep ==
  ASSUME Typed, [Next]_vars
  PROVE  Typed'
<1>1. CASE UNCHANGED vars
  BY <1>1 DEF vars, Typed, AgentsTyped, HandlersTyped, SpawnTyped, FlagsTyped
<1>2. QED
  BY <1>1, WorldTyped, SpawnStepTyped, LabelerTyped DEF Next

THEOREM AlwaysTyped == Spec => []Typed
<1>1. Init => Typed
  BY TypedInit
<1>2. Typed /\ [Next]_vars => Typed'
  BY TypedStep
<1>3. QED
  BY <1>1, <1>2, PTL DEF Spec

\* Every variable has its type, and no two agents have one name.
THEOREM TypeCorrect == Spec => []TypeOK
<1>1. Typed => TypeOK
  BY DEF Typed, AgentsTyped, HandlersTyped, SpawnTyped, FlagsTyped, TypeOK
<1>2. QED
  BY <1>1, AlwaysTyped, PTL

-----------------------------------------------------------------------------
(* 3. What spawn reports.                                                  *)

\* The agent that spawn starts has a name from the first.
NewIsNamed == agent[New] = "yes" => name[New] # NoName

\* So the handlers leave it alone.
OnlyOthersLabeled == \A l \in Labelers : work[l].pane = New => work[l].at \in {"idle", "clear"}

SpawnSound == NewIsNamed /\ OnlyOthersLabeled /\ SpawnReportIsTrue

\* What a labeler may do to its work: nothing, begin a pane it is to look at,
\* or to clear, or go on with the pane it has.
LEMMA LabelerWorks ==
  ASSUME Typed, NEW l \in Labelers, LabelerStep(l)
  PROVE  /\ \A m \in Labelers : m # l => work'[m] = work[m] /\ todo'[m] = todo[m]
         /\ \/ work'[l] = work[l]
            \/ work'[l] = Idle
            \/ /\ work'[l].at = "clear" /\ work[l] = Idle
               /\ <<"clear", work'[l].pane>> \in due
            \/ \E p \in todo[l] :
                  /\ Unnamed(p) /\ work[l] = Idle
                  /\ work'[l] = [at |-> "rename", pane |-> p, seed |-> session[p], next |-> 0]
            \/ /\ work[l].at \in {"rename", "again", "report"}
               /\ work'[l].at \in {"rename", "again", "report"}
               /\ work'[l].pane = work[l].pane /\ work'[l].seed = work[l].seed
<1>0. work \in [Labelers -> Works] /\ work[l] \in Works /\ todo \in [Labelers -> SUBSET AllPanes]
  BY DEF Typed, HandlersTyped
<1>1. ASSUME NEW where, Goes(l, where)
      PROVE  /\ \A m \in Labelers : m # l => work'[m] = work[m]
             /\ work'[l].pane = work[l].pane /\ work'[l].seed = work[l].seed
             /\ work'[l].at = where /\ work'[l].next = work[l].next
  BY <1>0, <1>1 DEF Goes, Works
<1>2. ASSUME NEW why, Stops(l, why)
      PROVE  /\ \A m \in Labelers : m # l => work'[m] = work[m]
             /\ work'[l] = Idle
  BY <1>0, <1>2 DEF Stops
<1>3. ASSUME NEW why, TurnedDown(l, why)
      PROVE  /\ \A m \in Labelers : m # l => work'[m] = work[m]
             /\ \/ work'[l] = Idle
                \/ /\ work'[l].pane = work[l].pane /\ work'[l].seed = work[l].seed
                   /\ work'[l].at = "rename"
  <2>1. CASE work' = [work EXCEPT ![l].at = "rename", ![l].next = @ + 1]
    BY <1>0, <2>1 DEF Works
  <2>2. CASE Stops(l, IF why = "" THEN "exhausted" ELSE why)
    BY <1>2, <2>2
  <2>3. QED
    BY <1>3, <2>1, <2>2 DEF TurnedDown
<1>4. CASE Rename(l) \/ Again(l) \/ Report(l) \/ Clear(l)
  <2>1. UNCHANGED todo
    BY <1>4 DEF Rename, Again, Report, Clear
  <2>2. CASE Rename(l)
    BY <1>1, <1>2, <2>1, <2>2 DEF Rename
  <2>3. CASE Again(l)
    BY <1>2, <1>3, <2>1, <2>3 DEF Again
  <2>4. CASE Report(l) \/ Clear(l)
    BY <1>2, <2>1, <2>4 DEF Report, Clear
  <2>5. QED
    BY <1>4, <2>2, <2>3, <2>4
<1>5. CASE Reconcile(l)
  BY <1>0, <1>5 DEF Reconcile
<1>6. ASSUME NEW p \in AllPanes, Fetch(l, p)
      PROVE  /\ \A m \in Labelers : m # l => work'[m] = work[m] /\ todo'[m] = todo[m]
             /\ \/ work'[l] = work[l]
                \/ /\ p \in todo[l] /\ Unnamed(p) /\ work[l] = Idle
                   /\ work'[l] = [at |-> "rename", pane |-> p, seed |-> session[p], next |-> 0]
  BY <1>0, <1>6 DEF Fetch
<1>7. ASSUME NEW p \in AllPanes, Handle(l, p)
      PROVE  /\ \A m \in Labelers : m # l => work'[m] = work[m] /\ todo'[m] = todo[m]
             /\ \/ work'[l] = work[l]
                \/ /\ work'[l].at = "clear" /\ work[l] = Idle
                   /\ <<"clear", work'[l].pane>> \in due
  <2>1. work[l] = Idle
    BY <1>7 DEF Handle, Free
  <2>2. [Idle EXCEPT !.at = "clear", !.pane = p].at = "clear"
        /\ [Idle EXCEPT !.at = "clear", !.pane = p].pane = p
    BY DEF Idle
  <2>3. QED
    BY <1>0, <1>7, <2>1, <2>2 DEF Handle
<1>8. QED
  BY <1>4, <1>5, <1>6, <1>7 DEF LabelerStep

\* What it may do to a name: give the candidate at its turn to the agent it
\* is at.
LEMMA LabelerNames ==
  ASSUME NEW l \in Labelers, LabelerStep(l)
  PROVE  \/ UNCHANGED name
         \/ work[l].at = "rename" /\ Named(work[l].pane, Tries(l))
BY DEF LabelerStep, Handle, Fetch, Reconcile, Rename, Again, Report, Clear

\* What it does not do.
LEMMA LabelerLeaves ==
  ASSUME NEW l \in Labelers, LabelerStep(l)
  PROVE  /\ UNCHANGED <<agent, session, given, churn, moves>>
         /\ UNCHANGED <<spawn, label, taken, try, chosen, exists, told, unclosed>>
         /\ due' \subseteq due
BY DEF LabelerStep, Handle, Fetch, Reconcile, Rename, Again, Report, Clear,
   LabelerRests, agentVars, spawnVars

LEMMA SpawnSoundInit ==
  ASSUME Init
  PROVE  SpawnSound
<1>1. New \in AllPanes
  BY DEF AllPanes
<1>2. QED
  BY <1>1 DEF Init, SpawnSound, NewIsNamed, OnlyOthersLabeled, SpawnReportIsTrue, Idle

LEMMA SpawnSoundStep ==
  ASSUME Typed, SpawnSound, [Next]_vars
  PROVE  SpawnSound'
<1>0. /\ New \in AllPanes /\ New \notin Panes /\ AgentsTyped
      /\ NewIsNamed /\ OnlyOthersLabeled /\ SpawnReportIsTrue
      /\ NoName \notin Names /\ Manual \subseteq Names
  BY NamesAssumption DEF AllPanes, Typed, SpawnSound, Names
<1>1. CASE UNCHANGED vars
  BY <1>0, <1>1 DEF vars, SpawnSound, NewIsNamed, OnlyOthersLabeled, SpawnReportIsTrue
<1>2. CASE World
  <2>1. /\ UNCHANGED work
        /\ UNCHANGED <<spawn, label, taken, try, chosen, exists, told, unclosed>>
    BY <1>2 DEF World, AgentComes, AgentLeaves, UserRenames, StatusChanges, labVars, spawnVars
  <2>2. \/ UNCHANGED <<agent, name, given>>
        \/ agent'[New] = agent[New] /\ name'[New] = name[New] /\ given'[New] = given[New]
        \/ agent'[New] = "left"
        \/ /\ agent[New] = "yes" /\ agent'[New] = "yes"
           /\ name'[New] \in Manual /\ given'[New] \in Manual
    <3>1. ASSUME NEW p \in Panes, AgentComes(p)
          PROVE  agent'[New] = agent[New] /\ name' = name /\ given' = given
      BY <1>0, <3>1 DEF AgentComes, AgentsTyped
    <3>2. ASSUME NEW p \in AllPanes, AgentLeaves(p)
          PROVE  \/ agent'[New] = agent[New] /\ name'[New] = name[New] /\ given'[New] = given[New]
                 \/ agent'[New] = "left"
      BY <1>0, <3>2 DEF AgentLeaves, AgentsTyped
    <3>3. ASSUME NEW p \in AllPanes, NEW n \in Manual, UserRenames(p, n)
          PROVE  \/ agent'[New] = agent[New] /\ name'[New] = name[New] /\ given'[New] = given[New]
                 \/ /\ agent[New] = "yes" /\ agent'[New] = "yes"
                    /\ name'[New] \in Manual /\ given'[New] \in Manual
      BY <1>0, <3>3 DEF UserRenames, AgentsTyped
    <3>4. ASSUME NEW p \in AllPanes, StatusChanges(p)
          PROVE  UNCHANGED <<agent, name, given>>
      BY <3>4 DEF StatusChanges
    <3>5. QED
      BY <1>2, <3>1, <3>2, <3>3, <3>4 DEF World
  <2>3. NewIsNamed'
    BY <1>0, <2>2 DEF NewIsNamed
  <2>4. OnlyOthersLabeled'
    BY <1>0, <2>1 DEF OnlyOthersLabeled
  <2>5. SpawnReportIsTrue'
    BY <1>0, <2>1, <2>2 DEF SpawnReportIsTrue
  <2>6. QED
    BY <2>3, <2>4, <2>5 DEF SpawnSound
<1>3. ASSUME NEW l \in Labelers, LabelerStep(l)
      PROVE  SpawnSound'
  <2>1. name'[New] = name[New]
    <3>1. work[l].at = "rename" => work[l].pane # New
      BY <1>0 DEF OnlyOthersLabeled
    <3>2. QED
      BY <1>0, <1>3, <3>1, LabelerNames DEF Named, AgentsTyped
  <2>2. UNCHANGED <<agent, given, spawn, chosen, told, exists, unclosed>>
    BY <1>3, LabelerLeaves
  <2>3. ASSUME NEW m \in Labelers, work'[m].pane = New
        PROVE  work'[m].at \in {"idle", "clear"}
    <3>1. CASE work'[m] = work[m]
      BY <1>0, <2>3, <3>1 DEF OnlyOthersLabeled
    <3>2. CASE m = l /\ work'[l] = Idle
      BY <3>2 DEF Idle
    <3>3. CASE m = l /\ work'[l].at = "clear"
      BY <3>3
    <3>4. ASSUME m = l, NEW p \in todo[l], Unnamed(p),
                 work'[l] = [at |-> "rename", pane |-> p, seed |-> session[p], next |-> 0]
          PROVE  FALSE
      BY <1>0, <2>3, <3>4 DEF Unnamed, NewIsNamed
    <3>5. CASE m = l /\ work[l].at \in {"rename", "again", "report"}
               /\ work'[l].pane = work[l].pane
      BY <1>0, <2>3, <3>5 DEF OnlyOthersLabeled
    <3>6. QED
      BY <1>3, <3>1, <3>2, <3>3, <3>4, <3>5, LabelerWorks
  <2>4. QED
    BY <1>0, <2>1, <2>2, <2>3
       DEF SpawnSound, NewIsNamed, OnlyOthersLabeled, SpawnReportIsTrue
<1>4. CASE SpawnStep
  <2>1. UNCHANGED work
    BY <1>4 DEF SpawnStep, SpawnCreates, SpawnLists, SpawnStarts, SpawnFindsNone,
       SpawnReports, SpawnRelists, SpawnCloses, SpawnRests, labVars
  <2>2. OnlyOthersLabeled'
    BY <1>0, <2>1 DEF OnlyOthersLabeled
  <2>3. CASE (\E n \in Wanted : SpawnCreates(n)) \/ SpawnLists \/ SpawnFindsNone
             \/ SpawnReports \/ SpawnRelists
    <3>1. UNCHANGED <<agent, name, given>>
      BY <2>3 DEF SpawnCreates, SpawnLists, SpawnFindsNone, SpawnReports, SpawnRelists, agentVars
    <3>2. spawn' = "error" => ~told'
      BY <2>3 DEF SpawnCreates, SpawnLists, SpawnFindsNone, SpawnReports, SpawnRelists,
         SpawnEnds, SpawnRaises
    <3>3. spawn' = "ok" => agent[New] = "yes" /\ name[New] = chosen'
      BY <2>3 DEF SpawnCreates, SpawnLists, SpawnFindsNone, SpawnReports, SpawnRelists,
         SpawnEnds, SpawnRaises
    <3>4. QED
      BY <1>0, <2>2, <3>1, <3>2, <3>3 DEF SpawnSound, NewIsNamed, SpawnReportIsTrue
  <2>4. CASE SpawnStarts
    <3>1. PICK n \in Names :
            /\ spawn' \in {"start", "report", "close"}
            /\ StartsNow(n) \/ UNCHANGED <<agent, name>>
      BY <2>4, SpawnStartsIs
    <3>2. NewIsNamed'
      BY <1>0, <3>1 DEF StartsNow, NewIsNamed, AgentsTyped
    <3>3. QED
      BY <2>2, <3>1, <3>2 DEF SpawnSound, SpawnReportIsTrue
  <2>5. CASE SpawnCloses
    <3>1. spawn' = "error"
      BY <2>5 DEF SpawnCloses, SpawnEnds
    <3>2. \/ agent' = [agent EXCEPT ![New] = "no"] /\ ~exists'
          \/ UNCHANGED <<agent, name>> /\ unclosed'
      BY <2>5 DEF SpawnCloses
    <3>3. QED
      BY <1>0, <2>2, <3>1, <3>2 DEF SpawnSound, NewIsNamed, SpawnReportIsTrue, AgentsTyped
  <2>6. QED
    BY <1>4, <2>3, <2>4, <2>5 DEF SpawnStep
<1>5. QED
  BY <1>1, <1>2, <1>3, <1>4 DEF Next

THEOREM SpawnIsSound == Spec => []SpawnSound
<1>1. Init => SpawnSound
  BY SpawnSoundInit
<1>2. Typed /\ SpawnSound /\ [Next]_vars => SpawnSound'
  BY SpawnSoundStep
<1>3. QED
  BY <1>1, <1>2, AlwaysTyped, PTL DEF Spec

\* A successful spawn leaves an agent under the name it reports, whatever the
\* handlers do at the same time; a failed one leaves nothing behind unsaid.
THEOREM SpawnReportHolds == Spec => []SpawnReportIsTrue
<1>1. SpawnSound => SpawnReportIsTrue
  BY DEF SpawnSound
<1>2. QED
  BY <1>1, SpawnIsSound, PTL

-----------------------------------------------------------------------------
(* 4. How names settle.                                                    *)

\* Until some agent has left, changed its seed or given up its name: nothing
\* is to be cleared, labelers are at agents that are there and know their
\* seeds, and nothing has happened to a pane no agent has come to.
Untouched ==
    ~churn =>
        /\ \A x \in AllPanes : <<"clear", x>> \notin due /\ agent[x] # "left"
        /\ \A l \in Labelers :
              /\ work[l].at # "clear"
              /\ work[l].at # "idle" => /\ work[l].seed = session[work[l].pane]
                                        /\ agent[work[l].pane] = "yes"
        /\ \A x \in AllPanes : agent[x] = "no" =>
              /\ <<"label", x>> \notin due /\ \A l \in Labelers : x \notin todo[l]
              /\ x # New => trouble[x] = ""

\* Spawn has started nothing before it starts something.
NotYet == spawn \in {"off", "list", "start"} => agent[New] = "no"

\* What becomes of an agent that is there, as long as nothing is upset.
LEMMA CalmStep ==
  ASSUME Typed, [Next]_vars, ~churn'
  PROVE  /\ ~churn
         /\ \A x \in AllPanes : agent[x] = "yes" =>
               /\ agent'[x] = "yes" /\ session'[x] = session[x]
               /\ name[x] # NoName => name'[x] # NoName
<1>0. AgentsTyped /\ HandlersTyped /\ NoName \notin Names /\ New \in AllPanes
      /\ churn \in BOOLEAN
  BY NamesAssumption DEF Typed, AllPanes, FlagsTyped
<1> DEFINE Kept == /\ ~churn
                   /\ \A x \in AllPanes : agent[x] = "yes" =>
                         /\ agent'[x] = "yes" /\ session'[x] = session[x]
                         /\ name[x] # NoName => name'[x] # NoName
<1>1. CASE UNCHANGED vars
  BY <1>0, <1>1 DEF vars
<1>2. ASSUME NEW p \in Panes, AgentComes(p)
      PROVE  Kept
  BY <1>0, <1>2 DEF AgentComes, AgentsTyped
<1>3. ASSUME NEW p \in AllPanes, AgentLeaves(p)
      PROVE  Kept
  BY <1>3 DEF AgentLeaves
<1>4. ASSUME NEW p \in AllPanes, NEW n \in Manual, UserRenames(p, n)
      PROVE  Kept
  <2>1. n # NoName
    BY <1>0 DEF Names
  <2>2. ~churn /\ UNCHANGED <<agent, session>> /\ name' = [name EXCEPT ![p] = n]
    BY <1>0, <1>4 DEF UserRenames
  <2>3. QED
    BY <1>0, <2>1, <2>2 DEF AgentsTyped
<1>5. ASSUME NEW p \in AllPanes, StatusChanges(p)
      PROVE  Kept
  <2>1. ~churn /\ UNCHANGED <<agent, name, session>>
    BY <1>0, <1>5 DEF StatusChanges
  <2>2. QED
    BY <2>1
<1>6. ASSUME NEW l \in Labelers, LabelerStep(l)
      PROVE  Kept
  <2>1. UNCHANGED <<agent, session, churn>>
    BY <1>6, LabelerLeaves
  <2>2. work[l].at = "rename" => work[l].pane \in AllPanes /\ Tries(l) # NoName
    <3>1. work[l] \in Works
      BY <1>0 DEF HandlersTyped
    <3>2. QED
      BY <3>1, CandidateIs DEF Works, Tries
  <2>3. \A x \in AllPanes : name[x] # NoName => name'[x] # NoName
    BY <1>0, <1>6, <2>2, LabelerNames DEF Named, AgentsTyped
  <2>4. QED
    BY <2>1, <2>3
<1>7. CASE SpawnStep
  <2>1. CASE (\E n \in Wanted : SpawnCreates(n)) \/ SpawnLists \/ SpawnFindsNone
             \/ SpawnReports \/ SpawnRelists
    BY <2>1 DEF SpawnCreates, SpawnLists, SpawnFindsNone, SpawnReports, SpawnRelists, agentVars
  <2>2. CASE SpawnStarts
    <3>1. PICK n \in Names :
             /\ UNCHANGED <<session, churn>>
             /\ StartsNow(n) \/ UNCHANGED <<agent, name>>
      BY <2>2, SpawnStartsIs
    <3>2. n # NoName
      BY <1>0
    <3>3. QED
      BY <1>0, <3>1, <3>2 DEF StartsNow, AgentsTyped
  <2>3. CASE SpawnCloses
    <3>1. UNCHANGED <<agent, name, session, churn>>
      BY <2>3 DEF SpawnCloses
    <3>2. QED
      BY <3>1
  <2>4. QED
    BY <1>7, <2>1, <2>2, <2>3 DEF SpawnStep
<1>8. QED
  BY <1>1, <1>2, <1>3, <1>4, <1>5, <1>6, <1>7 DEF Next, World

\* Where a labeler reports trouble: for the unnamed agents it finds, a pane it
\* is to look at, or the one it is at.
LEMMA LabelerTroubles ==
  ASSUME Typed, NEW l \in Labelers, LabelerStep(l), NEW x \in AllPanes,
         trouble'[x] # trouble[x]
  PROVE  \/ trouble'[x] = "failed" /\ (Unnamed(x) \/ x \in todo[l])
         \/ /\ work[l].at \in {"rename", "again", "report"} /\ x = work[l].pane
            /\ \/ trouble'[x] = "failed"
               \/ /\ trouble'[x] = "exhausted" /\ work[l].at = "again"
                  /\ name[x] = NoName /\ work[l].next + 1 = N
<1>0. trouble \in [AllPanes -> {"", "failed", "exhausted"}]
  BY DEF Typed, AgentsTyped
<1>1. ASSUME NEW why \in {"", "failed", "exhausted"}, Stops(l, why)
      PROVE  x = work[l].pane /\ trouble'[x] = why /\ why # ""
  BY <1>0, <1>1 DEF Stops
<1>2. ASSUME NEW why \in {"", "failed"}, TurnedDown(l, why)
      PROVE  x = work[l].pane /\ (\/ trouble'[x] = "failed" /\ why = "failed"
                                  \/ /\ trouble'[x] = "exhausted" /\ why = ""
                                     /\ work[l].next + 1 = N)
  <2>1. CASE trouble' = IF why = "" THEN trouble ELSE [trouble EXCEPT ![work[l].pane] = why]
    BY <1>0, <1>2, <2>1
  <2>2. CASE work[l].next + 1 = N /\ Stops(l, IF why = "" THEN "exhausted" ELSE why)
    BY <1>1, <1>2, <2>2
  <2>3. QED
    BY <1>2, <2>1, <2>2 DEF TurnedDown
<1>3. CASE Rename(l)
  BY <1>1, <1>3 DEF Rename
<1>4. CASE Again(l)
  BY <1>1, <1>2, <1>4 DEF Again
<1>5. CASE Report(l)
  BY <1>1, <1>5 DEF Report
<1>6. CASE Clear(l)
  BY <1>1, <1>6 DEF Clear
<1>7. CASE Reconcile(l)
  BY <1>0, <1>7 DEF Reconcile
<1>8. ASSUME NEW p \in AllPanes, Fetch(l, p)
      PROVE  trouble'[x] = "failed" /\ x \in todo[l]
  BY <1>0, <1>8 DEF Fetch
<1>9. ASSUME NEW p \in AllPanes, Handle(l, p)
      PROVE  FALSE
  BY <1>9 DEF Handle
<1>10. QED
  BY <1>3, <1>4, <1>5, <1>6, <1>7, <1>8, <1>9 DEF LabelerStep

\* What becomes of the panes a labeler is to look at.
LEMMA LabelerLooks ==
  ASSUME Typed, NEW l \in Labelers, LabelerStep(l), NEW m \in Labelers,
         NEW x \in todo'[m]
  PROVE  x \in todo[m] \/ <<"label", x>> \in due \/ Unnamed(x)
<1>0. todo \in [Labelers -> SUBSET AllPanes]
  BY DEF Typed, HandlersTyped
<1>1. CASE Reconcile(l)
  BY <1>0, <1>1 DEF Reconcile
<1>2. ASSUME NEW p \in AllPanes, Fetch(l, p)
      PROVE  x \in todo[m]
  BY <1>0, <1>2 DEF Fetch
<1>3. ASSUME NEW p \in AllPanes, Handle(l, p)
      PROVE  x \in todo[m] \/ <<"label", x>> \in due
  BY <1>0, <1>3 DEF Handle
<1>4. CASE Rename(l) \/ Again(l) \/ Report(l) \/ Clear(l)
  BY <1>4 DEF Rename, Again, Report, Clear
<1>5. QED
  BY <1>1, <1>2, <1>3, <1>4 DEF LabelerStep
LEMMA UntouchedInit ==
  ASSUME Init
  PROVE  Untouched /\ NotYet
<1>1. \A l \in Labelers : work[l].at = "idle"
  BY DEF Init, Idle
<1>2. New \in AllPanes
  BY DEF AllPanes
<1>3. QED
  BY <1>1, <1>2 DEF Init, Untouched, NotYet

\* What the server reports, and what it finds of the panes, while nothing is
\* upset.
LEMMA EventsAre ==
  ASSUME Typed, [Next]_vars, ~churn', NEW x \in AllPanes
  PROVE  /\ <<"clear", x>> \in due' => <<"clear", x>> \in due
         /\ agent'[x] = "left" => agent[x] = "left"
         /\ agent'[x] = "no" /\ <<"label", x>> \in due' =>
               <<"label", x>> \in due \/ agent[x] = "yes"
<1>0. AgentsTyped /\ New \in AllPanes
  BY DEF Typed, AllPanes
<1> DEFINE Goal == /\ <<"clear", x>> \in due' => <<"clear", x>> \in due
                   /\ agent'[x] = "left" => agent[x] = "left"
                   /\ agent'[x] = "no" /\ <<"label", x>> \in due' =>
                         <<"label", x>> \in due \/ agent[x] = "yes"
<1>1. CASE UNCHANGED <<agent, due>>
  BY <1>1
<1>2. ASSUME NEW p \in Panes, AgentComes(p)
      PROVE  Goal
  BY <1>0, <1>2 DEF AgentComes, AgentsTyped
<1>3. ASSUME NEW p \in AllPanes, AgentLeaves(p)
      PROVE  Goal
  BY <1>3 DEF AgentLeaves
<1>4. ASSUME NEW p \in AllPanes, StatusChanges(p)
      PROVE  Goal
  <2>1. due' = due \cup {<<"label", p>>} /\ agent[p] = "yes" /\ UNCHANGED agent
    BY <1>4 DEF StatusChanges
  <2>2. QED
    BY <2>1
<1>5. ASSUME NEW l \in Labelers, LabelerStep(l)
      PROVE  Goal
  BY <1>5, LabelerLeaves
<1>6. CASE SpawnStep
  <2>1. CASE (\E n \in Wanted : SpawnCreates(n)) \/ SpawnLists \/ SpawnFindsNone
             \/ SpawnReports \/ SpawnRelists
    <3>1. UNCHANGED <<agent, due>>
      BY <2>1 DEF SpawnCreates, SpawnLists, SpawnFindsNone, SpawnReports, SpawnRelists, agentVars
    <3>2. QED
      BY <1>1, <3>1
  <2>2. CASE SpawnStarts
    <3>1. PICK n \in Names : StartsNow(n) \/ UNCHANGED <<agent, name, due>>
      BY <2>2, SpawnStartsIs
    <3>2. CASE StartsNow(n)
      BY <1>0, <3>2 DEF StartsNow, AgentsTyped
    <3>3. QED
      BY <1>1, <3>1, <3>2
  <2>3. CASE SpawnCloses
    BY <2>3 DEF SpawnCloses
  <2>4. QED
    BY <1>6, <2>1, <2>2, <2>3 DEF SpawnStep
<1>7. ASSUME NEW p \in AllPanes, NEW n \in Manual, UserRenames(p, n)
      PROVE  Goal
  BY <1>7 DEF UserRenames
<1>8. QED
  BY <1>1, <1>2, <1>3, <1>4, <1>5, <1>6, <1>7 DEF Next, World, vars

\* Who else touches what the labelers have: nobody.
LEMMA OthersRest ==
  ASSUME World \/ SpawnStep
  PROVE  UNCHANGED <<todo, work>>
BY DEF World, AgentComes, AgentLeaves, UserRenames, StatusChanges, SpawnStep, SpawnCreates,
   SpawnLists, SpawnStarts, SpawnFindsNone, SpawnReports, SpawnRelists, SpawnCloses,
   SpawnRests, labVars

\* And who else reports trouble: spawn, for its own pane.
LEMMA OthersTroubles ==
  ASSUME Typed, World \/ SpawnStep, NEW x \in AllPanes, trouble'[x] # trouble[x]
  PROVE  \/ trouble'[x] = "" /\ Unnamed(x)' /\ <<"label", x>> \in due' /\ name[x] = NoName
         \/ x = New /\ trouble'[x] = "failed"
<1>0. AgentsTyped /\ New \in AllPanes
  BY DEF Typed, AllPanes
<1>1. ASSUME NEW p \in Panes, AgentComes(p)
      PROVE  trouble'[x] = "" /\ Unnamed(x)' /\ <<"label", x>> \in due' /\ name[x] = NoName
  <2>1. x = p /\ trouble'[x] = "" /\ <<"label", x>> \in due' /\ agent'[x] = "yes"
        /\ agent[x] # "yes" /\ name' = name
    BY <1>0, <1>1 DEF AgentComes, AgentsTyped
  <2>2. QED
    BY <1>0, <2>1 DEF Unnamed, AgentsTyped
<1>2. ASSUME NEW p \in AllPanes, AgentLeaves(p) \/ StatusChanges(p) \/ \E n \in Manual : UserRenames(p, n)
      PROVE  FALSE
  BY <1>2 DEF AgentLeaves, StatusChanges, UserRenames
<1>3. CASE SpawnStarts
  <2>1. UNCHANGED trouble \/ trouble' = [trouble EXCEPT ![New] = "failed"]
    BY <1>3, SpawnStartsIs
  <2>2. QED
    BY <1>0, <2>1 DEF AgentsTyped
<1>4. CASE SpawnReports
  BY <1>0, <1>4 DEF SpawnReports, AgentsTyped
<1>5. CASE (\E n \in Wanted : SpawnCreates(n)) \/ SpawnLists \/ SpawnFindsNone
           \/ SpawnRelists \/ SpawnCloses
  BY <1>5 DEF SpawnCreates, SpawnLists, SpawnFindsNone, SpawnRelists, SpawnCloses
<1>6. QED
  BY <1>1, <1>2, <1>3, <1>4, <1>5 DEF World, SpawnStep

LEMMA UntouchedStep ==
  ASSUME Typed, Untouched, [Next]_vars
  PROVE  Untouched'
<1> SUFFICES ASSUME ~churn'
             PROVE  /\ \A x \in AllPanes : <<"clear", x>> \notin due' /\ agent'[x] # "left"
                    /\ \A l \in Labelers :
                          /\ work'[l].at # "clear"
                          /\ work'[l].at # "idle" => /\ work'[l].seed = session'[work'[l].pane]
                                                     /\ agent'[work'[l].pane] = "yes"
                    /\ \A x \in AllPanes : agent'[x] = "no" =>
                          /\ <<"label", x>> \notin due' /\ \A l \in Labelers : x \notin todo'[l]
                          /\ x # New => trouble'[x] = ""
  BY DEF Untouched
<1>0. /\ ~churn /\ AgentsTyped /\ HandlersTyped /\ New \in AllPanes
      /\ \A x \in AllPanes : agent[x] = "yes" =>
            agent'[x] = "yes" /\ session'[x] = session[x]
  BY CalmStep DEF Typed, AllPanes
<1>1. ASSUME NEW x \in AllPanes
      PROVE  <<"clear", x>> \notin due' /\ agent'[x] # "left"
  BY <1>0, EventsAre DEF Untouched
<1>2. ASSUME NEW m \in Labelers
      PROVE  /\ work'[m].at # "clear"
             /\ work'[m].at # "idle" => /\ work'[m].seed = session'[work'[m].pane]
                                        /\ agent'[work'[m].pane] = "yes"
  <2>1. /\ work[m] \in Works /\ work[m].pane \in AllPanes
        /\ work[m].at # "clear"
        /\ work[m].at # "idle" => /\ work[m].seed = session[work[m].pane]
                                  /\ agent[work[m].pane] = "yes"
    BY <1>0 DEF HandlersTyped, Works, Untouched
  <2>2. CASE work'[m] = work[m]
    BY <1>0, <2>1, <2>2
  <2>3. CASE work'[m] = Idle
    BY <2>3 DEF Idle
  <2>4. ASSUME LabelerStep(m)
        PROVE  /\ work'[m].at # "clear"
               /\ work'[m].at # "idle" => /\ work'[m].seed = session'[work'[m].pane]
                                          /\ agent'[work'[m].pane] = "yes"
    <3>1. ASSUME work'[m].at = "clear"
          PROVE  FALSE
      <4>1. work'[m].pane \in AllPanes
        <5>1. HandlersTyped'
          BY TypedStep DEF Typed
        <5>2. QED
          BY <5>1 DEF HandlersTyped, Works
      <4>2. work[m].at # "clear" /\ <<"clear", work'[m].pane>> \notin due
        BY <1>0, <4>1 DEF Untouched
      <4>3. \/ work'[m] = work[m] \/ work'[m] = Idle
            \/ <<"clear", work'[m].pane>> \in due
            \/ \E p \in todo[m] :
                  work'[m] = [at |-> "rename", pane |-> p, seed |-> session[p], next |-> 0]
            \/ work'[m].at \in {"rename", "again", "report"}
        BY <2>4, LabelerWorks
      <4>4. ASSUME NEW p \in todo[m],
                   work'[m] = [at |-> "rename", pane |-> p, seed |-> session[p], next |-> 0]
            PROVE  FALSE
        BY <3>1, <4>4
      <4>5. work'[m] # Idle
        BY <3>1 DEF Idle
      <4>6. QED
        BY <3>1, <4>2, <4>3, <4>4, <4>5
    <3>2. ASSUME NEW p \in todo[m], Unnamed(p),
                 work'[m] = [at |-> "rename", pane |-> p, seed |-> session[p], next |-> 0]
          PROVE  work'[m].seed = session'[work'[m].pane] /\ agent'[work'[m].pane] = "yes"
      <4>1. p \in AllPanes
        BY <1>0 DEF HandlersTyped
      <4>2. QED
        BY <1>0, <3>2, <4>1 DEF Unnamed
    <3>3. CASE work[m].at \in {"rename", "again", "report"}
               /\ work'[m].pane = work[m].pane /\ work'[m].seed = work[m].seed
      BY <1>0, <2>1, <3>1, <3>3
    <3>4. QED
      BY <2>2, <2>3, <2>4, <3>1, <3>2, <3>3, LabelerWorks
  <2>5. QED
    BY <2>2, <2>4, LabelerWorks, OthersRest DEF Next, vars
<1>3. ASSUME NEW x \in AllPanes, agent'[x] = "no"
      PROVE  /\ <<"label", x>> \notin due' /\ \A l \in Labelers : x \notin todo'[l]
             /\ x # New => trouble'[x] = ""
  <2>1. agent[x] = "no"
    BY <1>0, <1>3 DEF Untouched, AgentsTyped
  <2>2. /\ <<"label", x>> \notin due /\ ~Unnamed(x)
        /\ \A l \in Labelers : x \notin todo[l]
        /\ x # New => trouble[x] = ""
    BY <1>0, <2>1 DEF Untouched, Unnamed
  <2>3. <<"label", x>> \notin due'
    BY <1>3, <2>1, <2>2, EventsAre
  <2>4. ASSUME NEW m \in Labelers
        PROVE  x \notin todo'[m]
    <3>1. CASE UNCHANGED todo
      BY <2>2, <3>1
    <3>2. ASSUME NEW l \in Labelers, LabelerStep(l)
          PROVE  x \notin todo'[m]
      BY <2>2, <3>2, LabelerLooks
    <3>3. QED
      BY <3>1, <3>2, OthersRest DEF Next, vars
  <2>5. ASSUME x # New, trouble'[x] # trouble[x]
        PROVE  FALSE
    <3>1. CASE World \/ SpawnStep
      BY <1>3, <2>5, <3>1, OthersTroubles DEF Unnamed
    <3>2. ASSUME NEW l \in Labelers, LabelerStep(l)
          PROVE  FALSE
      <4>1. work[l].at # "idle" => agent[work[l].pane] = "yes"
        BY <1>0 DEF Untouched
      <4>2. QED
        BY <2>1, <2>2, <2>5, <3>2, <4>1, LabelerTroubles
    <3>3. QED
      BY <2>5, <3>1, <3>2 DEF Next, vars
  <2>6. QED
    BY <2>2, <2>3, <2>4, <2>5
<1>4. QED
  BY <1>1, <1>2, <1>3

LEMMA NotYetStep ==
  ASSUME Typed, NotYet, [Next]_vars
  PROVE  NotYet'
<1>0. AgentsTyped /\ New \in AllPanes /\ New \notin Panes
  BY NamesAssumption DEF Typed, AllPanes
<1>1. CASE UNCHANGED vars
  BY <1>1 DEF vars, NotYet
<1>2. CASE World
  <2>1. spawn' = spawn
    BY <1>2 DEF World, AgentComes, AgentLeaves, UserRenames, StatusChanges, spawnVars
  <2>2. agent[New] = "no" => agent'[New] = "no"
    BY <1>0, <1>2 DEF World, AgentComes, AgentLeaves, UserRenames, StatusChanges, AgentsTyped
  <2>3. QED
    BY <2>1, <2>2 DEF NotYet
<1>3. ASSUME NEW l \in Labelers, LabelerStep(l)
      PROVE  NotYet'
  BY <1>3, LabelerLeaves DEF NotYet
<1>4. CASE SpawnStep
  <2>1. CASE (\E n \in Wanted : SpawnCreates(n)) \/ SpawnLists
    BY <2>1 DEF SpawnCreates, SpawnLists, SpawnEnds, SpawnRaises, agentVars, NotYet
  <2>2. CASE SpawnFindsNone \/ SpawnReports \/ SpawnRelists \/ SpawnCloses
    BY <2>2 DEF SpawnFindsNone, SpawnReports, SpawnRelists, SpawnCloses, SpawnEnds,
       SpawnRaises, NotYet
  <2>3. CASE SpawnStarts
    <3>1. PICK n \in Names :
            \/ spawn' \in {"report", "close"}
            \/ UNCHANGED agent
      BY <2>3, SpawnStartsIs
    <3>2. QED
      BY <2>3, <3>1 DEF NotYet, SpawnStarts
  <2>4. QED
    BY <1>4, <2>1, <2>2, <2>3 DEF SpawnStep
<1>5. QED
  BY <1>1, <1>2, <1>3, <1>4 DEF Next

\* No name comes free again: it has not so far.
LEMMA SteadyBefore ==
  ASSUME Typed, [Next]_vars, Steady'
  PROVE  Steady
<1>0. /\ AgentsTyped /\ ~churn
      /\ \A x \in AllPanes : agent[x] = "yes" /\ name[x] # NoName => name'[x] # NoName
  BY CalmStep DEF Typed, Steady
<1>1. ASSUME NEW x \in AllPanes, trouble[x] = "failed", name[x] # NoName
      PROVE  FALSE
  <2>1. name'[x] # NoName
    BY <1>0, <1>1 DEF AgentsTyped
  <2>2. trouble'[x] # "failed"
    BY <2>1 DEF Steady
  <2>3. CASE World \/ SpawnStep
    BY <1>1, <2>2, <2>3, OthersTroubles
  <2>4. ASSUME NEW l \in Labelers, LabelerStep(l)
        PROVE  FALSE
    BY <1>1, <2>2, <2>4, LabelerTroubles
  <2>5. QED
    BY <1>1, <2>2, <2>3, <2>4 DEF Next, vars
<1>2. QED
  BY <1>0, <1>1 DEF Steady

\* An agent in another pane has the name.
OthersName(x, n) == \E y \in AllPanes \ {x} : name[y] = n

\* A labeler comes to a candidate when others have all before it; and what it
\* reports is the name of the agent.
InTurn ==
    \A l \in Labelers :
        /\ work[l].at \in {"rename", "again"} =>
              \A k \in 0 .. work[l].next - 1 :
                  OthersName(work[l].pane, Candidate(work[l].pane, work[l].seed, k))
        /\ work[l].at = "again" => \E y \in AllPanes : name[y] = Tries(l)
        /\ work[l].at = "report" => name[work[l].pane] = Tries(l)

\* So the alias of an agent is its first candidate that no other has.
InOrder ==
    \A x \in Panes : name[x] \in Aliases =>
        \E k \in 0 .. N - 1 :
            /\ name[x] = Candidate(x, session[x], k)
            /\ \A j \in 0 .. k - 1 : OthersName(x, Candidate(x, session[x], j))

\* The alias of an agent is shown, or about to be.
Shown ==
    \A x \in AllPanes : name[x] \in Aliases =>
        \/ display[x] = name[x]
        \/ \E l \in Labelers : work[l].pane = x /\ work[l].at = "report"
        \/ x = New /\ spawn = "report"

Settling ==
    Steady => InTurn /\ InOrder /\ Shown /\ (spawn = "report" => name[New] = chosen)

NamesSettle == SpawnSound /\ Untouched /\ NotYet /\ Settling

\* How a labeler gets on with a pane.
LEMMA LabelerGetsOn ==
  ASSUME Typed, NEW l \in Labelers, LabelerStep(l), work'[l] # work[l], work'[l] # Idle
  PROVE  \/ work'[l].at = "clear"
         \/ work'[l].at = "rename" /\ work'[l].next = 0
         \/ /\ work[l].at = "rename"
            /\ work'[l] = [work[l] EXCEPT !.at = "report"]
            /\ Named(work[l].pane, Tries(l))
         \/ /\ work[l].at = "rename" /\ UNCHANGED name
            /\ work'[l] = [work[l] EXCEPT !.at = "again"]
            /\ Tries(l) \in InUse
         \/ /\ work[l].at = "again" /\ UNCHANGED name /\ work'[l].at = "rename"
            /\ work'[l].pane = work[l].pane /\ work'[l].seed = work[l].seed
            /\ work'[l].next = work[l].next + 1
            /\ name[work[l].pane] = NoName \/ trouble'[work[l].pane] = "failed"
<1>0. /\ work \in [Labelers -> Works] /\ work[l] \in Works
      /\ trouble \in [AllPanes -> {"", "failed", "exhausted"}] /\ work[l].pane \in AllPanes
  BY DEF Typed, HandlersTyped, AgentsTyped, Works
<1>1. \A why : ~Stops(l, why)
  BY <1>0 DEF Stops
<1>2. \A where : Goes(l, where) => work'[l] = [work[l] EXCEPT !.at = where]
  BY <1>0 DEF Goes
<1>3. CASE Rename(l)
  BY <1>1, <1>2, <1>3 DEF Rename
<1>4. CASE Again(l)
  <2>1. PICK why \in {"", "failed"} :
          /\ TurnedDown(l, why)
          /\ why = "" => name[work[l].pane] = NoName
    BY <1>1, <1>4 DEF Again
  <2>2. /\ work' = [work EXCEPT ![l].at = "rename", ![l].next = @ + 1]
        /\ trouble' = IF why = "" THEN trouble ELSE [trouble EXCEPT ![work[l].pane] = why]
    BY <1>1, <2>1 DEF TurnedDown
  <2>3. /\ work'[l].at = "rename" /\ work'[l].next = work[l].next + 1
        /\ work'[l].pane = work[l].pane /\ work'[l].seed = work[l].seed
    BY <1>0, <2>2 DEF Works
  <2>4. why = "failed" => trouble'[work[l].pane] = "failed"
    BY <1>0, <2>2
  <2>5. QED
    BY <1>4, <2>1, <2>3, <2>4 DEF Again
<1>5. CASE Report(l) \/ Clear(l)
  BY <1>1, <1>5 DEF Report, Clear
<1>6. CASE Reconcile(l)
  BY <1>6 DEF Reconcile
<1>7. ASSUME NEW p \in AllPanes, Fetch(l, p)
      PROVE  work'[l].at = "rename" /\ work'[l].next = 0
  <2>1. work' = [work EXCEPT ![l] =
                   [at |-> "rename", pane |-> p, seed |-> session[p], next |-> 0]]
    BY <1>7 DEF Fetch
  <2>2. QED
    BY <1>0, <2>1
<1>8. ASSUME NEW p \in AllPanes, Handle(l, p)
      PROVE  work'[l].at = "clear"
  <2>1. work' = [work EXCEPT ![l] = [Idle EXCEPT !.at = "clear", !.pane = p]]
    BY <1>8 DEF Handle
  <2>2. QED
    BY <1>0, <2>1 DEF Idle
<1>9. QED
  BY <1>3, <1>4, <1>5, <1>6, <1>7, <1>8 DEF LabelerStep

\* An alias that an agent has is not free for another handler of its pane:
\* who comes to it finds it to be the name of its own agent.
LEMMA SameAgain ==
  ASSUME Typed, NamesSettle, Steady, NEW l \in Labelers, work[l].at = "rename",
         name[work[l].pane] \in Aliases, Named(work[l].pane, Tries(l))
  PROVE  name[work[l].pane] = Tries(l)
<1> DEFINE p == work[l].pane
<1>0. /\ AgentsTyped /\ work[l] \in Works /\ p \in AllPanes /\ New \notin Panes
      /\ work[l].next \in 0 .. N - 1 /\ N \in Nat
  BY NamesAssumption DEF Typed, HandlersTyped, Works
<1>1. p \in Panes
  BY <1>0 DEF NamesSettle, SpawnSound, OnlyOthersLabeled, AllPanes
<1>2. work[l].seed = session[p]
  BY DEF NamesSettle, Untouched, Steady
<1>3. InOrder /\ \A k \in 0 .. work[l].next - 1 : OthersName(p, Candidate(p, session[p], k))
  BY <1>2 DEF NamesSettle, Settling, InTurn
<1>4. PICK k \in 0 .. N - 1 :
         /\ name[p] = Candidate(p, session[p], k)
         /\ \A j \in 0 .. k - 1 : OthersName(p, Candidate(p, session[p], j))
  BY <1>1, <1>3 DEF InOrder
<1>5. ~OthersName(p, name[p])
  <2>1. name[p] # NoName
    BY NamesAssumption DEF Names
  <2>2. QED
    BY <1>0, <2>1 DEF OthersName, AgentsTyped
<1>6. ~(k < work[l].next)
  <2>1. k < work[l].next => k \in 0 .. work[l].next - 1
    BY <1>0
  <2>2. QED
    BY <1>3, <1>4, <1>5, <2>1
<1>7. ~(work[l].next < k)
  <2>1. SUFFICES ASSUME work[l].next < k
                 PROVE  FALSE
    OBVIOUS
  <2>2. work[l].next \in 0 .. k - 1
    BY <1>0, <2>1
  <2>3. OthersName(p, Tries(l))
    BY <1>2, <1>4, <2>2 DEF Tries
  <2>4. Tries(l) # NoName
    BY <1>0, CandidateIs DEF Tries, Works
  <2>5. Tries(l) \in InUse
    BY <2>3, <2>4 DEF OthersName, InUse
  <2>6. Tries(l) = name[p]
    BY <2>5 DEF Named
  <2>7. QED
    BY <1>5, <2>3, <2>6
<1>8. k = work[l].next
  BY <1>0, <1>6, <1>7
<1>9. QED
  BY <1>2, <1>4, <1>8 DEF Tries

\* Who else names an agent, while nothing is upset: the user, one that has no
\* name, and spawn its own.
LEMMA OthersNames ==
  ASSUME Typed, NotYet, World \/ SpawnStep, ~churn', NEW x \in AllPanes, name'[x] # name[x]
  PROVE  /\ name[x] = NoName
         /\ \/ name'[x] \in Manual
            \/ /\ x = New /\ spawn = "start"
               /\ \/ spawn' = "report" /\ chosen' = name'[x]
                  \/ trouble'[x] = "failed" /\ name'[x] # NoName
<1>0. AgentsTyped /\ New \in AllPanes /\ NoName \notin Names
  BY NamesAssumption DEF Typed, AllPanes
<1>1. ASSUME NEW p \in AllPanes, NEW n \in Manual, UserRenames(p, n)
      PROVE  name[x] = NoName /\ name'[x] \in Manual
  <2>1. x = p /\ name'[x] = n
    BY <1>0, <1>1 DEF UserRenames, AgentsTyped
  <2>2. QED
    BY <1>1, <2>1 DEF UserRenames
<1>2. ASSUME NEW p \in Panes, AgentComes(p)
      PROVE  FALSE
  BY <1>2 DEF AgentComes
<1>3. ASSUME NEW p \in AllPanes, AgentLeaves(p) \/ StatusChanges(p)
      PROVE  FALSE
  BY <1>3 DEF AgentLeaves, StatusChanges
<1>4. CASE SpawnStarts
  <2>1. PICK n \in Names :
            /\ spawn = "start"
            /\ \/ StartsNow(n) /\ spawn' = "report" /\ chosen' = n
               \/ UNCHANGED name
               \/ StartsNow(n) /\ trouble' = [trouble EXCEPT ![New] = "failed"]
    BY <1>4, SpawnStartsIs
  <2>2. StartsNow(n)
    BY <2>1
  <2>3. x = New /\ name'[x] = n /\ n # NoName
    BY <1>0, <2>2 DEF StartsNow, AgentsTyped
  <2>4. name[New] = NoName
    BY <1>0, <2>1 DEF NotYet, AgentsTyped
  <2>5. QED
    BY <1>0, <2>1, <2>3, <2>4 DEF AgentsTyped
<1>5. CASE (\E n \in Wanted : SpawnCreates(n)) \/ SpawnLists \/ SpawnFindsNone
           \/ SpawnReports \/ SpawnRelists \/ SpawnCloses
  BY <1>5 DEF SpawnCreates, SpawnLists, SpawnFindsNone, SpawnReports, SpawnRelists, SpawnCloses,
     agentVars
<1>6. QED
  BY <1>1, <1>2, <1>3, <1>4, <1>5 DEF World, SpawnStep

\* While no name comes free, an agent keeps its alias.
LEMMA AliasStays ==
  ASSUME Typed, NamesSettle, [Next]_vars, Steady', NEW x \in AllPanes, name[x] \in Aliases
  PROVE  name'[x] = name[x]
<1>0. Steady /\ ~churn' /\ AgentsTyped /\ name[x] # NoName
  BY SteadyBefore, NamesAssumption DEF Steady, Typed, Names
<1>1. CASE World \/ SpawnStep
  BY <1>0, <1>1, OthersNames DEF NamesSettle
<1>2. ASSUME NEW l \in Labelers, LabelerStep(l), name'[x] # name[x]
      PROVE  FALSE
  <2>1. work[l].at = "rename" /\ Named(work[l].pane, Tries(l))
    BY <1>2, LabelerNames
  <2>2. x = work[l].pane /\ name'[x] = Tries(l)
    BY <1>0, <1>2, <2>1 DEF Named, AgentsTyped
  <2>3. QED
    BY <1>0, <1>2, <2>1, <2>2, SameAgain
<1>3. QED
  BY <1>1, <1>2 DEF Next, vars

LEMMA InTurnStep ==
  ASSUME Typed, NamesSettle, [Next]_vars, Steady'
  PROVE  InTurn'
<1>0. /\ Steady /\ InTurn /\ AgentsTyped /\ HandlersTyped
      /\ HandlersTyped' /\ N \in Nat \ {0}
  BY SteadyBefore, TypedStep, NamesAssumption DEF NamesSettle, Settling, Typed
<1> SUFFICES ASSUME NEW m \in Labelers
             PROVE  /\ work'[m].at \in {"rename", "again"} =>
                          \A k \in 0 .. work'[m].next - 1 :
                             OthersName(work[m].pane, Candidate(work[m].pane, work[m].seed, k))'
                    /\ work'[m].at = "again" => \E y \in AllPanes : name'[y] = Tries(m)'
                    /\ work'[m].at = "report" => name'[work'[m].pane] = Tries(m)'
  BY DEF InTurn
<1>1. /\ work[m] \in Works /\ work[m].pane \in AllPanes /\ work[m].seed \in BOOLEAN
      /\ work[m].next \in 0 .. N - 1 /\ work'[m] \in Works /\ work'[m].next \in 0 .. N - 1
  BY <1>0 DEF HandlersTyped, Works
<1> DEFINE p == work[m].pane
           s == work[m].seed
           Before(k) == \A j \in 0 .. k - 1 : OthersName(p, Candidate(p, s, j))
           Before2(k) == \A j \in 0 .. k - 1 : \E y \in AllPanes \ {p} : name'[y] = Candidate(p, s, j)
<1>2. ASSUME NEW k \in 0 .. N - 1, Before(k)
      PROVE  Before2(k)
  <2>1. ASSUME NEW j \in 0 .. k - 1
        PROVE  \E y \in AllPanes \ {p} : name'[y] = Candidate(p, s, j)
    <3>1. j \in 0 .. N - 1
      BY <1>0
    <3>2. OthersName(p, Candidate(p, s, j))
      BY <1>2
    <3>3. PICK y \in AllPanes \ {p} : name[y] = Candidate(p, s, j)
      BY <3>2 DEF OthersName
    <3>4. Candidate(p, s, j) \in Aliases
      BY <1>1, <3>1, CandidateIs
    <3>5. name'[y] = name[y]
      BY <3>3, <3>4, AliasStays
    <3>6. QED
      BY <3>3, <3>5
  <2>2. QED
    BY <2>1
<1>3. /\ Tries(m) \in Aliases
      /\ \A y \in AllPanes : name[y] = Tries(m) => name'[y] = Tries(m)
  <2>1. Tries(m) \in Aliases
    BY <1>1, CandidateIs DEF Tries
  <2>2. QED
    BY <2>1, AliasStays
<1>4. /\ work[m].at \in {"rename", "again"} => Before(work[m].next)
      /\ work[m].at = "again" => \E y \in AllPanes : name[y] = Tries(m)
      /\ work[m].at = "report" => name[p] = Tries(m)
  BY <1>0 DEF InTurn
<1>5. CASE work'[m] = work[m]
  <2>1. /\ work[m].at \in {"rename", "again"} => Before2(work[m].next)
        /\ work[m].at = "again" => \E y \in AllPanes : name'[y] = Tries(m)
        /\ work[m].at = "report" => name'[p] = Tries(m)
    BY <1>1, <1>2, <1>3, <1>4
  <2>2. QED
    BY <1>5, <2>1 DEF OthersName, Candidate, Tries
<1>6. CASE work'[m] = Idle
  BY <1>6 DEF Idle
<1>7. ASSUME LabelerStep(m), work'[m] # work[m], work'[m] # Idle
      PROVE  /\ work'[m].at \in {"rename", "again"} =>
                   \A k \in 0 .. work'[m].next - 1 :
                      OthersName(work[m].pane, Candidate(work[m].pane, work[m].seed, k))'
             /\ work'[m].at = "again" => \E y \in AllPanes : name'[y] = Tries(m)'
             /\ work'[m].at = "report" => name'[work'[m].pane] = Tries(m)'
  <2>1. CASE work'[m].at = "clear"
    BY <2>1
  <2>2. CASE work'[m].at = "rename" /\ work'[m].next = 0
    BY <2>2
  <2>3. CASE /\ work'[m] = [work[m] EXCEPT !.at = "report"]
             /\ Named(p, Tries(m))
    <3>1. name'[p] = Tries(m)
      BY <1>0, <1>1, <2>3 DEF Named, AgentsTyped
    <3>2. work'[m].at = "report" /\ work'[m].pane = p /\ work'[m].seed = s
          /\ work'[m].next = work[m].next
      BY <1>1, <2>3 DEF Works
    <3>3. QED
      BY <3>1, <3>2 DEF Tries, Candidate
  <2>4. CASE /\ work[m].at = "rename" /\ UNCHANGED name
             /\ work'[m] = [work[m] EXCEPT !.at = "again"]
             /\ Tries(m) \in InUse
    <3>1. work'[m].at = "again" /\ work'[m].pane = p /\ work'[m].seed = s
          /\ work'[m].next = work[m].next
      BY <1>1, <2>4 DEF Works
    <3>2. Before2(work[m].next) /\ \E y \in AllPanes : name'[y] = Tries(m)
      BY <1>1, <1>2, <1>4, <2>4 DEF InUse
    <3>3. QED
      BY <3>1, <3>2 DEF OthersName, Candidate, Tries
  <2>5. CASE /\ work[m].at = "again" /\ UNCHANGED name /\ work'[m].at = "rename"
             /\ work'[m].pane = p /\ work'[m].seed = s
             /\ work'[m].next = work[m].next + 1
             /\ name[p] = NoName \/ trouble'[p] = "failed"
    <3>1. name'[p] = NoName
      BY <1>1, <2>5 DEF Steady
    <3>2. PICK y \in AllPanes : name[y] = Tries(m)
      BY <1>4, <2>5
    <3>3. Tries(m) # NoName
      BY <1>3, NamesAssumption DEF Names
    <3>4. name'[y] = Tries(m) /\ y # p
      BY <1>3, <2>5, <3>1, <3>2, <3>3
    <3>5. Before2(work[m].next)
      BY <1>1, <1>2, <1>4, <2>5
    <3>6. ASSUME NEW k \in 0 .. work[m].next
          PROVE  \E z \in AllPanes \ {p} : name'[z] = Candidate(p, s, k)
      <4>1. CASE k = work[m].next
        BY <3>4, <4>1 DEF Tries
      <4>2. CASE k # work[m].next
        <5>1. k \in 0 .. work[m].next - 1
          BY <1>1, <4>2
        <5>2. QED
          BY <3>5, <5>1
      <4>3. QED
        BY <4>1, <4>2
    <3>7. work'[m].next - 1 = work[m].next
      BY <1>1, <2>5
    <3>8. QED
      BY <2>5, <3>6, <3>7 DEF OthersName, Candidate
  <2>6. QED
    BY <1>7, <2>1, <2>2, <2>3, <2>4, <2>5, LabelerGetsOn
<1>8. QED
  <2>1. work'[m] = work[m] \/ LabelerStep(m)
    BY LabelerWorks, OthersRest DEF Next, vars
  <2>2. QED
    BY <1>5, <1>6, <1>7, <2>1
LEMMA InOrderStep ==
  ASSUME Typed, NamesSettle, [Next]_vars, Steady'
  PROVE  InOrder'
<1>0. /\ Steady /\ ~churn' /\ InOrder /\ InTurn /\ AgentsTyped /\ HandlersTyped
      /\ New \notin Panes /\ Panes \subseteq AllPanes /\ N \in Nat \ {0}
      /\ \A x \in AllPanes : agent[x] = "yes" => session'[x] = session[x]
  BY SteadyBefore, CalmStep, NamesAssumption DEF NamesSettle, Settling, Typed, AllPanes, Steady
<1> DEFINE OthersName2(x, n) == \E y \in AllPanes \ {x} : name'[y] = n
<1> SUFFICES ASSUME NEW x \in Panes, name'[x] \in Aliases
             PROVE  \E k \in 0 .. N - 1 :
                       /\ name'[x] = Candidate(x, session'[x], k)
                       /\ \A j \in 0 .. k - 1 : OthersName2(x, Candidate(x, session'[x], j))
  BY DEF InOrder, OthersName, Candidate
<1>1. x \in AllPanes /\ session[x] \in BOOLEAN
  BY <1>0 DEF AgentsTyped
<1>2. ASSUME NEW k \in 0 .. N - 1, NEW j \in 0 .. k - 1,
             OthersName(x, Candidate(x, session[x], j))
      PROVE  OthersName2(x, Candidate(x, session[x], j))
  <2>1. j \in 0 .. N - 1
    BY <1>0
  <2>2. PICK y \in AllPanes \ {x} : name[y] = Candidate(x, session[x], j)
    BY <1>2 DEF OthersName
  <2>3. Candidate(x, session[x], j) \in Aliases
    BY <1>1, <2>1, CandidateIs
  <2>4. name'[y] = name[y]
    BY <2>2, <2>3, AliasStays
  <2>5. QED
    BY <2>2, <2>4
<1> HIDE DEF OthersName2
<1>3. CASE name[x] \in Aliases
  <2>1. name'[x] = name[x] /\ session'[x] = session[x]
    <3>1. name[x] # NoName
      BY <1>3, NamesAssumption DEF Names
    <3>2. QED
      BY <1>0, <1>1, <1>3, <3>1, AliasStays DEF AgentsTyped
  <2>2. PICK k \in 0 .. N - 1 :
           /\ name[x] = Candidate(x, session[x], k)
           /\ \A j \in 0 .. k - 1 : OthersName(x, Candidate(x, session[x], j))
    BY <1>0, <1>3 DEF InOrder
  <2>3. QED
    BY <1>2, <2>1, <2>2
<1>4. CASE name[x] \notin Aliases
  <2>1. ~(World \/ SpawnStep)
    BY <1>0, <1>1, <1>4, OthersNames, NamesAssumption DEF NamesSettle
  <2>2. PICK l \in Labelers : LabelerStep(l)
    BY <1>4, <2>1 DEF Next, vars
  <2>3. work[l].at = "rename" /\ Named(work[l].pane, Tries(l))
    BY <1>4, <2>2, LabelerNames
  <2>4. x = work[l].pane /\ name'[x] = Tries(l)
    BY <1>0, <1>1, <1>4, <2>3 DEF Named, AgentsTyped
  <2>5. work[l].seed = session[x] /\ agent[x] = "yes" /\ session'[x] = session[x]
    BY <1>0, <1>1, <2>3, <2>4 DEF NamesSettle, Untouched, Steady
  <2>6. work[l].next \in 0 .. N - 1
    BY <1>0 DEF HandlersTyped, Works
  <2>7. \A j \in 0 .. work[l].next - 1 : OthersName(x, Candidate(x, session[x], j))
    BY <1>0, <2>3, <2>4, <2>5 DEF InTurn
  <2>8. QED
    BY <1>2, <2>4, <2>5, <2>6, <2>7 DEF Tries
<1>5. QED
  BY <1>3, <1>4

\* Who else changes what a pane is shown with: spawn, at its own pane.
LEMMA OthersShow ==
  ASSUME Typed, World \/ SpawnStep, ~churn'
  PROVE  /\ UNCHANGED work
         /\ \A x \in AllPanes : x # New => display'[x] = display[x]
         /\ \/ UNCHANGED <<display, spawn>>
            \/ UNCHANGED display /\ spawn # "report"
            \/ /\ spawn = "report" /\ UNCHANGED <<name, chosen>> /\ spawn' = "relist"
               /\ \/ chosen \notin Aliases
                  \/ display'[New] = chosen
                  \/ trouble'[New] = "failed"
<1>0. AgentsTyped /\ New \in AllPanes
  BY DEF Typed, AllPanes
<1>1. UNCHANGED work
  BY OthersRest
<1>2. CASE World
  <2>1. UNCHANGED <<display, spawn>>
    BY <1>2 DEF World, AgentComes, AgentLeaves, UserRenames, StatusChanges, spawnVars
  <2>2. QED
    BY <1>1, <2>1
<1>3. CASE SpawnReports
  BY <1>0, <1>1, <1>3 DEF SpawnReports, AgentsTyped
<1>4. CASE SpawnStarts
  <2>1. UNCHANGED display /\ spawn = "start"
    BY <1>4, SpawnStartsIs
  <2>2. QED
    BY <1>1, <2>1
<1>5. CASE (\E n \in Wanted : SpawnCreates(n)) \/ SpawnLists \/ SpawnFindsNone
           \/ SpawnRelists \/ SpawnCloses
  <2>1. UNCHANGED display /\ spawn # "report"
    BY <1>5 DEF SpawnCreates, SpawnLists, SpawnFindsNone, SpawnRelists, SpawnCloses
  <2>2. QED
    BY <1>1, <2>1
<1>6. QED
  BY <1>2, <1>3, <1>4, <1>5 DEF SpawnStep

\* When a labeler changes what is shown, while nothing is upset, it is done
\* with a report; and it ends one in no other way, unless it fails.
LEMMA LabelerShows ==
  ASSUME Typed, Untouched, ~churn, NEW l \in Labelers, LabelerStep(l)
  PROVE  \/ UNCHANGED display /\ work[l].at # "report"
         \/ /\ work[l].at = "report" /\ UNCHANGED name
            /\ \/ display' = [display EXCEPT ![work[l].pane] = Tries(l)]
               \/ UNCHANGED display /\ trouble'[work[l].pane] = "failed"
<1>0. work[l].at # "clear" /\ AgentsTyped /\ work[l].pane \in AllPanes
  BY DEF Untouched, Typed, HandlersTyped, Works
<1>1. CASE Report(l)
  BY <1>0, <1>1 DEF Report, Stops, AgentsTyped
<1>2. CASE Rename(l) \/ Again(l) \/ Clear(l)
  BY <1>0, <1>2 DEF Rename, Again, Clear
<1>3. CASE Reconcile(l)
  BY <1>3 DEF Reconcile, Free, Idle
<1>4. ASSUME NEW p \in AllPanes, Handle(l, p) \/ Fetch(l, p)
      PROVE  UNCHANGED display /\ work[l].at # "report"
  BY <1>4 DEF Handle, Fetch, Free, Idle
<1>5. QED
  BY <1>1, <1>2, <1>3, <1>4 DEF LabelerStep

LEMMA ShownStep ==
  ASSUME Typed, NamesSettle, [Next]_vars, Steady'
  PROVE  Shown'
<1>0. /\ Steady /\ ~churn /\ ~churn' /\ Shown /\ InTurn /\ AgentsTyped /\ HandlersTyped
      /\ spawn = "report" => name[New] = chosen
      /\ \A x \in AllPanes : trouble'[x] = "failed" => name'[x] = NoName
      /\ NoName \notin Aliases /\ NoName \notin Names /\ Aliases \cap Manual = {}
  BY SteadyBefore, NamesAssumption DEF NamesSettle, Settling, Typed, Steady, Names
<1> SUFFICES ASSUME NEW x \in AllPanes, name'[x] \in Aliases
             PROVE  \/ display'[x] = name'[x]
                    \/ \E m \in Labelers : work'[m].pane = x /\ work'[m].at = "report"
                    \/ x = New /\ spawn' = "report"
  BY DEF Shown
<1>1. trouble'[x] # "failed"
  BY <1>0
<1>2. name[x] \in Aliases => name'[x] = name[x]
  BY AliasStays
<1>3. CASE World \/ SpawnStep
  <2>1. CASE name[x] \notin Aliases
    BY <1>0, <1>1, <1>3, <2>1, OthersNames DEF NamesSettle
  <2>2. CASE name[x] \in Aliases
    <3>1. \/ display[x] = name[x]
          \/ \E m \in Labelers : work[m].pane = x /\ work[m].at = "report"
          \/ x = New /\ spawn = "report"
      BY <1>0, <2>2 DEF Shown
    <3>2. /\ UNCHANGED work
          /\ x # New => display'[x] = display[x]
          /\ \/ UNCHANGED <<display, spawn>>
             \/ UNCHANGED display /\ spawn # "report"
             \/ /\ spawn = "report" /\ UNCHANGED <<name, chosen>>
                /\ \/ chosen \notin Aliases
                   \/ display'[New] = chosen
                   \/ trouble'[New] = "failed"
      BY <1>0, <1>3, OthersShow
    <3>3. QED
      BY <1>0, <1>1, <1>2, <2>2, <3>1, <3>2
  <2>3. QED
    BY <2>1, <2>2
<1>4. ASSUME NEW l \in Labelers, LabelerStep(l)
      PROVE  \/ display'[x] = name'[x]
             \/ \E m \in Labelers : work'[m].pane = x /\ work'[m].at = "report"
             \/ x = New /\ spawn' = "report"
  <2>1. spawn' = spawn /\ \A m \in Labelers : m # l => work'[m] = work[m]
    BY <1>4, LabelerLeaves, LabelerWorks
  <2>2. work[l].pane \in AllPanes
    BY <1>0 DEF HandlersTyped, Works
  <2>3. \/ UNCHANGED display /\ work[l].at # "report"
        \/ /\ work[l].at = "report" /\ UNCHANGED name
           /\ \/ display' = [display EXCEPT ![work[l].pane] = Tries(l)]
              \/ UNCHANGED display /\ trouble'[work[l].pane] = "failed"
    BY <1>0, <1>4, LabelerShows DEF NamesSettle
  <2>4. CASE name[x] \in Aliases
    <3>1. \/ display[x] = name[x]
          \/ \E m \in Labelers : work[m].pane = x /\ work[m].at = "report"
          \/ x = New /\ spawn = "report"
      BY <1>0, <2>4 DEF Shown
    <3>2. CASE work[l].at = "report" /\ work[l].pane = x
      <4>1. name[x] = Tries(l)
        BY <1>0, <3>2 DEF InTurn
      <4>2. display'[x] = Tries(l)
        BY <1>0, <1>1, <2>3, <3>2 DEF AgentsTyped
      <4>3. QED
        BY <1>2, <2>4, <4>1, <4>2
    <3>3. CASE ~(work[l].at = "report" /\ work[l].pane = x)
      <4>1. display'[x] = display[x]
        BY <1>0, <2>2, <2>3, <3>3 DEF AgentsTyped
      <4>2. QED
        BY <1>2, <2>1, <2>4, <3>1, <3>3, <4>1
    <3>4. QED
      BY <3>2, <3>3
  <2>5. CASE name[x] \notin Aliases
    <3>1. work[l].at = "rename" /\ Named(work[l].pane, Tries(l))
      BY <1>4, <2>5, LabelerNames
    <3>2. x = work[l].pane
      BY <1>0, <2>2, <2>5, <3>1 DEF Named, AgentsTyped
    <3>3. work'[l].at = "report" /\ work'[l].pane = x
      <4>1. Rename(l)
        <5>1. ~(Again(l) \/ Report(l) \/ Clear(l))
          BY <3>1 DEF Again, Report, Clear
        <5>2. work[l] # Idle
          BY <3>1 DEF Idle
        <5>3. QED
          BY <1>4, <5>1, <5>2 DEF LabelerStep, Reconcile, Handle, Fetch, Free
      <4>2. ~Stops(l, "failed")
        BY <1>0, <1>1, <3>2 DEF Stops, AgentsTyped
      <4>3. Goes(l, "report")
        BY <2>5, <4>1, <4>2 DEF Rename
      <4>4. QED
        BY <1>0, <3>2, <4>3 DEF Goes, HandlersTyped, Works
    <3>4. QED
      BY <3>3
  <2>6. QED
    BY <2>4, <2>5
<1>5. CASE UNCHANGED vars
  BY <1>0, <1>5 DEF vars, Shown
<1>6. QED
  BY <1>3, <1>4, <1>5 DEF Next

LEMMA SpawnTellsStep ==
  ASSUME Typed, NamesSettle, [Next]_vars, Steady', spawn' = "report"
  PROVE  name'[New] = chosen'
<1>0. /\ Steady /\ ~churn' /\ AgentsTyped /\ New \in AllPanes /\ NoName \notin Names
      /\ spawn = "report" => name[New] = chosen
      /\ NewIsNamed /\ OnlyOthersLabeled
  BY SteadyBefore, NamesAssumption
     DEF NamesSettle, Settling, SpawnSound, Typed, Steady, AllPanes
<1>1. CASE UNCHANGED vars
  BY <1>0, <1>1 DEF vars
<1>2. CASE World
  <2>1. UNCHANGED <<spawn, chosen>>
    BY <1>2 DEF World, AgentComes, AgentLeaves, UserRenames, StatusChanges, spawnVars
  <2>2. ASSUME name'[New] # name[New]
        PROVE  FALSE
    <3>1. name[New] = NoName /\ name'[New] \in Manual
      BY <1>0, <1>2, <2>1, <2>2, OthersNames DEF NamesSettle
    <3>2. agent[New] = "yes"
      BY <1>0, <1>2, <2>2
         DEF World, AgentComes, AgentLeaves, UserRenames, StatusChanges, AgentsTyped
    <3>3. QED
      BY <1>0, <3>1, <3>2 DEF NewIsNamed
  <2>3. QED
    BY <1>0, <2>1, <2>2
<1>3. ASSUME NEW l \in Labelers, LabelerStep(l)
      PROVE  name'[New] = chosen'
  <2>1. UNCHANGED <<spawn, chosen>>
    BY <1>3, LabelerLeaves
  <2>2. work[l].at = "rename" => work[l].pane # New
    BY <1>0 DEF OnlyOthersLabeled
  <2>3. name'[New] = name[New]
    BY <1>0, <1>3, <2>2, LabelerNames DEF Named, AgentsTyped
  <2>4. QED
    BY <1>0, <2>1, <2>3
<1>4. CASE SpawnStep
  <2>1. SpawnStarts
    BY <1>4 DEF SpawnStep, SpawnCreates, SpawnLists, SpawnFindsNone, SpawnReports, SpawnRelists,
       SpawnCloses, SpawnEnds, SpawnRaises
  <2>2. PICK n \in Names : StartsNow(n) /\ chosen' = n
    BY <2>1, SpawnStartsIs
  <2>3. QED
    BY <1>0, <2>2 DEF StartsNow, AgentsTyped
<1>5. QED
  BY <1>1, <1>2, <1>3, <1>4 DEF Next

LEMMA NamesSettleInit ==
  ASSUME Init
  PROVE  NamesSettle
<1>1. NoName \notin Aliases /\ Panes \subseteq AllPanes
  BY NamesAssumption DEF Names, AllPanes
<1>2. \A l \in Labelers : work[l].at = "idle"
  BY DEF Init, Idle
<1>3. Settling
  BY <1>1, <1>2 DEF Init, Settling, InTurn, InOrder, Shown
<1>4. QED
  BY <1>3, SpawnSoundInit, UntouchedInit DEF NamesSettle

LEMMA NamesSettleStep ==
  ASSUME Typed, NamesSettle, [Next]_vars
  PROVE  NamesSettle'
<1>1. SpawnSound' /\ Untouched' /\ NotYet'
  BY SpawnSoundStep, UntouchedStep, NotYetStep DEF NamesSettle
<1>2. Steady' => InTurn' /\ InOrder' /\ Shown' /\ (spawn' = "report" => name'[New] = chosen')
  BY InTurnStep, InOrderStep, ShownStep, SpawnTellsStep
<1>3. QED
  BY <1>1, <1>2 DEF NamesSettle, Settling

THEOREM NamesAlwaysSettle == Spec => []NamesSettle
<1>1. Init => NamesSettle
  BY NamesSettleInit
<1>2. Typed /\ NamesSettle /\ [Next]_vars => NamesSettle'
  BY NamesSettleStep
<1>3. QED
  BY <1>1, <1>2, AlwaysTyped, PTL DEF Spec

\* However many handlers, and spawn, work at once, and in whatever order their
\* commands arrive: once they are through, and if no name has come free again,
\* every pane is shown with the alias of its agent.
THEOREM ShownAsNamedHolds == Spec => []ShownAsNamed
<1>1. NamesSettle => ShownAsNamed
  BY DEF NamesSettle, Settling, Shown, ShownAsNamed, Quiet, Free, Idle
<1>2. QED
  BY <1>1, NamesAlwaysSettle, PTL

-----------------------------------------------------------------------------
(* 5. No agent is forgotten.                                               *)

\* Who has no name is waited for by somebody, or something went wrong for him.
Attended ==
    \A x \in AllPanes : Unnamed(x) =>
        \/ starting \/ <<"label", x>> \in due
        \/ \E l \in Labelers : x \in todo[l]
        \/ \E l \in Labelers : work[l].pane = x /\ work[l].at \in {"rename", "again"}
        \/ trouble[x] \in {"failed", "exhausted"}

\* An agent is unnamed because it has been; or it has come just now.
LEMMA UnnamedBefore ==
  ASSUME Typed, [Next]_vars, NEW x \in AllPanes, Unnamed(x)'
  PROVE  \/ Unnamed(x)
         \/ <<"label", x>> \in due'
<1>0. AgentsTyped /\ NoName \notin Names /\ New \in AllPanes
  BY NamesAssumption DEF Typed, AllPanes
<1>1. CASE UNCHANGED vars
  BY <1>1 DEF vars, Unnamed
<1>2. ASSUME NEW p \in Panes, AgentComes(p)
      PROVE  Unnamed(x) \/ <<"label", x>> \in due'
  BY <1>0, <1>2 DEF AgentComes, Unnamed, AgentsTyped
<1>3. ASSUME NEW p \in AllPanes, AgentLeaves(p)
      PROVE  Unnamed(x)
  BY <1>0, <1>3 DEF AgentLeaves, Unnamed, AgentsTyped
<1>4. ASSUME NEW p \in AllPanes, NEW n \in Manual, UserRenames(p, n)
      PROVE  Unnamed(x)
  <2>1. n # NoName
    BY <1>0 DEF Names
  <2>2. QED
    BY <1>0, <1>4, <2>1 DEF UserRenames, Unnamed, AgentsTyped
<1>5. ASSUME NEW p \in AllPanes, StatusChanges(p)
      PROVE  Unnamed(x)
  BY <1>5 DEF StatusChanges, Unnamed
<1>6. ASSUME NEW l \in Labelers, LabelerStep(l)
      PROVE  Unnamed(x)
  <2>1. UNCHANGED agent
    BY <1>6, LabelerLeaves
  <2>2. CASE UNCHANGED name
    BY <2>1, <2>2 DEF Unnamed
  <2>3. CASE Named(work[l].pane, Tries(l))
    <3>1. work[l].pane \in AllPanes /\ Tries(l) # NoName
      BY CandidateIs DEF Typed, HandlersTyped, Works, Tries
    <3>2. QED
      BY <1>0, <2>1, <2>3, <3>1 DEF Named, Unnamed, AgentsTyped
  <2>4. QED
    BY <1>6, <2>2, <2>3, LabelerNames
<1>7. CASE SpawnStep
  <2>1. CASE SpawnStarts
    <3>1. PICK n \in Names : StartsNow(n) \/ UNCHANGED <<agent, name>>
      BY <2>1, SpawnStartsIs
    <3>2. n # NoName
      BY <1>0
    <3>3. QED
      BY <1>0, <3>1, <3>2 DEF StartsNow, Unnamed, AgentsTyped
  <2>2. CASE SpawnCloses
    BY <1>0, <2>2 DEF SpawnCloses, Unnamed, AgentsTyped
  <2>3. CASE (\E n \in Wanted : SpawnCreates(n)) \/ SpawnLists \/ SpawnFindsNone
             \/ SpawnReports \/ SpawnRelists
    BY <2>3 DEF SpawnCreates, SpawnLists, SpawnFindsNone, SpawnReports, SpawnRelists,
       agentVars, Unnamed
  <2>4. QED
    BY <1>7, <2>1, <2>2, <2>3 DEF SpawnStep
<1>8. QED
  BY <1>1, <1>2, <1>3, <1>4, <1>5, <1>6, <1>7 DEF Next, World

\* Trouble is not forgotten while the agent is there.
LEMMA TroubleStays ==
  ASSUME Typed, [Next]_vars, NEW x \in AllPanes, Unnamed(x)', trouble[x] \in {"failed", "exhausted"}
  PROVE  trouble'[x] \in {"failed", "exhausted"} \/ <<"label", x>> \in due'
<1>1. CASE World \/ SpawnStep
  BY <1>1, OthersTroubles
<1>2. ASSUME NEW l \in Labelers, LabelerStep(l)
      PROVE  trouble'[x] \in {"failed", "exhausted"}
  BY <1>2, LabelerTroubles
<1>3. QED
  BY <1>1, <1>2 DEF Next, vars

\* Others take no event from the labelers.
LEMMA OthersLeaveEvents ==
  ASSUME World \/ SpawnStep
  PROVE  due \subseteq due' /\ UNCHANGED starting
<1>1. CASE World
  BY <1>1 DEF World, AgentComes, AgentLeaves, UserRenames, StatusChanges
<1>2. CASE SpawnStarts
  <2>1. due \subseteq due'
    BY <1>2 DEF SpawnStarts
  <2>2. QED
    BY <1>2, <2>1 DEF SpawnStarts, SpawnRests
<1>3. CASE (\E n \in Wanted : SpawnCreates(n)) \/ SpawnLists \/ SpawnFindsNone
           \/ SpawnReports \/ SpawnRelists \/ SpawnCloses
  BY <1>3 DEF SpawnCreates, SpawnLists, SpawnFindsNone, SpawnReports, SpawnRelists, SpawnCloses,
     SpawnRests
<1>4. QED
  BY <1>1, <1>2, <1>3 DEF SpawnStep

\* What a labeler takes on it goes on with, until the agent has a name or
\* there is trouble.
LEMMA LabelerAttends ==
  ASSUME Typed, NEW l \in Labelers, LabelerStep(l), NEW x \in AllPanes, Unnamed(x), Unnamed(x)',
         \/ starting \/ <<"label", x>> \in due \/ x \in todo[l]
         \/ work[l].pane = x /\ work[l].at \in {"rename", "again"}
  PROVE  \/ starting' \/ <<"label", x>> \in due' \/ x \in todo'[l]
         \/ work'[l].pane = x /\ work'[l].at \in {"rename", "again"}
         \/ trouble'[x] \in {"failed", "exhausted"}
<1>0. AgentsTyped /\ HandlersTyped /\ work[l] \in Works /\ work[l].pane \in AllPanes
      /\ work \in [Labelers -> Works] /\ todo \in [Labelers -> SUBSET AllPanes]
      /\ trouble \in [AllPanes -> {"", "failed", "exhausted"}]
  BY DEF Typed, HandlersTyped, AgentsTyped, Works
<1> DEFINE Goal == \/ starting' \/ <<"label", x>> \in due' \/ x \in todo'[l]
                   \/ work'[l].pane = x /\ work'[l].at \in {"rename", "again"}
                   \/ trouble'[x] \in {"failed", "exhausted"}
<1>1. CASE Reconcile(l)
  <2>1. \/ x \in todo'[l] \/ trouble'[x] = "failed"
    BY <1>0, <1>1 DEF Reconcile
  <2>2. QED
    BY <2>1
<1>2. ASSUME NEW p \in AllPanes, Handle(l, p)
      PROVE  Goal
  <2>1. starting' = starting /\ work[l] = Idle
    BY <1>2 DEF Handle, Free
  <2>2. ~(work[l].at \in {"rename", "again"})
    BY <2>1 DEF Idle
  <2>3. CASE due' = due \ {<<"label", p>>} /\ todo' = [todo EXCEPT ![l] = {p}]
    <3>1. x # p => <<"label", x>> # <<"label", p>>
      OBVIOUS
    <3>2. todo[l] = {}
      BY <1>2 DEF Handle, Free
    <3>3. QED
      BY <1>0, <2>1, <2>2, <2>3, <3>1, <3>2
  <2>4. CASE due' = due \ {<<"clear", p>>} /\ todo' = todo
    <3>1. <<"label", x>> # <<"clear", p>>
      OBVIOUS
    <3>2. QED
      BY <2>1, <2>2, <2>4, <3>1
  <2>5. QED
    BY <1>2, <2>3, <2>4 DEF Handle
<1>3. ASSUME NEW p \in AllPanes, Fetch(l, p)
      PROVE  Goal
  <2>1. starting' = starting /\ due' = due /\ work[l] = Idle
    BY <1>3 DEF Fetch, LabelerRests
  <2>2. ~(work[l].at \in {"rename", "again"})
    BY <2>1 DEF Idle
  <2>3. CASE x # p
    <3>1. todo'[l] = todo[l] \ {p}
      BY <1>0, <1>3 DEF Fetch
    <3>2. QED
      BY <2>1, <2>2, <2>3, <3>1
  <2>4. CASE x = p
    <3>1. CASE work' = [work EXCEPT ![l] =
                 [at |-> "rename", pane |-> p, seed |-> session[p], next |-> 0]]
      BY <1>0, <2>4, <3>1
    <3>2. CASE trouble' = [trouble EXCEPT ![p] = "failed"]
      BY <1>0, <2>4, <3>2
    <3>3. QED
      BY <1>3, <2>4, <3>1, <3>2 DEF Fetch
  <2>5. QED
    BY <2>3, <2>4
<1>4. CASE Rename(l) \/ Again(l) \/ Report(l) \/ Clear(l)
  <2>1. UNCHANGED <<starting, due, todo>>
    BY <1>4 DEF Rename, Again, Report, Clear, LabelerRests
  <2>2. SUFFICES ASSUME work[l].pane = x, work[l].at \in {"rename", "again"}
                 PROVE  Goal
    BY <2>1
  <2>3. ~Named(x, Tries(l))
    <3>1. Tries(l) # NoName
      BY <1>0, CandidateIs DEF Tries, Works
    <3>2. QED
      BY <1>0, <3>1 DEF Named, Unnamed, AgentsTyped
  <2>4. \A why \in {"failed", "exhausted"} : Stops(l, why) => trouble'[x] = why
    BY <1>0, <2>2 DEF Stops
  <2>5. CASE Rename(l)
    <3>1. Goes(l, "again") \/ Stops(l, "failed")
      BY <2>2, <2>3, <2>5 DEF Rename
    <3>2. Goes(l, "again") => work'[l].pane = x /\ work'[l].at = "again"
      BY <1>0, <2>2 DEF Goes, Works
    <3>3. QED
      BY <2>4, <3>1, <3>2
  <2>6. CASE Again(l)
    <3>1. PICK why \in {"", "failed"} : TurnedDown(l, why)
      BY <2>2, <2>6 DEF Again, Unnamed
    <3>2. CASE work' = [work EXCEPT ![l].at = "rename", ![l].next = @ + 1]
      <4>1. work'[l].pane = x /\ work'[l].at = "rename"
        BY <1>0, <2>2, <3>2 DEF Works
      <4>2. QED
        BY <4>1
    <3>3. CASE Stops(l, IF why = "" THEN "exhausted" ELSE why)
      BY <2>4, <3>3
    <3>4. QED
      BY <3>1, <3>2, <3>3 DEF TurnedDown
  <2>7. QED
    BY <1>4, <2>2, <2>5, <2>6 DEF Report, Clear
<1>5. QED
  BY <1>1, <1>2, <1>3, <1>4 DEF LabelerStep
LEMMA AttendedStep ==
  ASSUME Typed, Attended, [Next]_vars
  PROVE  Attended'
<1> SUFFICES ASSUME NEW x \in AllPanes, Unnamed(x)'
             PROVE  \/ starting' \/ <<"label", x>> \in due'
                    \/ \E l \in Labelers : x \in todo'[l]
                    \/ \E l \in Labelers : work'[l].pane = x /\ work'[l].at \in {"rename", "again"}
                    \/ trouble'[x] \in {"failed", "exhausted"}
  BY DEF Attended, Unnamed
<1>1. CASE <<"label", x>> \in due'
  BY <1>1
<1>2. CASE <<"label", x>> \notin due'
  <2>1. Unnamed(x)
    BY <1>2, UnnamedBefore
  <2>2. \/ starting \/ <<"label", x>> \in due
        \/ \E l \in Labelers : x \in todo[l]
        \/ \E l \in Labelers : work[l].pane = x /\ work[l].at \in {"rename", "again"}
        \/ trouble[x] \in {"failed", "exhausted"}
    BY <2>1 DEF Attended
  <2>3. CASE trouble[x] \in {"failed", "exhausted"}
    BY <1>2, <2>3, TroubleStays
  <2>4. CASE UNCHANGED vars
    BY <2>2, <2>4 DEF vars, labVars
  <2>5. CASE World \/ SpawnStep
    <3>1. due \subseteq due' /\ UNCHANGED <<starting, todo, work>>
      BY <2>5, OthersLeaveEvents, OthersRest
    <3>2. QED
      BY <2>2, <2>3, <3>1
  <2>6. ASSUME NEW l \in Labelers, LabelerStep(l), ~(trouble[x] \in {"failed", "exhausted"})
        PROVE  \/ starting' \/ \E m \in Labelers : x \in todo'[m]
               \/ \E m \in Labelers : work'[m].pane = x /\ work'[m].at \in {"rename", "again"}
               \/ trouble'[x] \in {"failed", "exhausted"}
    <3>1. CASE \/ starting \/ <<"label", x>> \in due \/ x \in todo[l]
               \/ work[l].pane = x /\ work[l].at \in {"rename", "again"}
      BY <1>2, <2>1, <2>6, <3>1, LabelerAttends
    <3>2. ASSUME NEW m \in Labelers, m # l,
                 x \in todo[m] \/ (work[m].pane = x /\ work[m].at \in {"rename", "again"})
          PROVE  x \in todo'[m] \/ (work'[m].pane = x /\ work'[m].at \in {"rename", "again"})
      <4>1. work'[m] = work[m] /\ todo'[m] = todo[m]
        BY <2>6, <3>2, LabelerWorks
      <4>2. QED
        BY <3>2, <4>1
    <3>3. CASE \E m \in Labelers : x \in todo[m]
      <4>1. PICK m \in Labelers : x \in todo[m]
        BY <3>3
      <4>2. QED
        BY <3>1, <3>2, <4>1
    <3>4. CASE \E m \in Labelers : work[m].pane = x /\ work[m].at \in {"rename", "again"}
      <4>1. PICK m \in Labelers : work[m].pane = x /\ work[m].at \in {"rename", "again"}
        BY <3>4
      <4>2. QED
        BY <3>1, <3>2, <4>1
    <3>5. QED
      BY <2>2, <2>6, <3>1, <3>3, <3>4
  <2>7. QED
    BY <2>3, <2>4, <2>5, <2>6 DEF Next
<1>3. QED
  BY <1>1, <1>2

\* Fewer panes, but for the one of spawn, than names.
FewPanes == IsFiniteSet(Panes) /\ Cardinality(Panes) < N

\* The others cannot have all candidates of a pane.
LEMMA SomeNameIsLeft ==
  ASSUME FewPanes, NEW x \in AllPanes, NEW s \in BOOLEAN
  PROVE  \E k \in 0 .. N - 1 : ~OthersName(x, Candidate(x, s, k))
<1> SUFFICES ASSUME \A k \in 0 .. N - 1 : OthersName(x, Candidate(x, s, k))
             PROVE  FALSE
  OBVIOUS
<1> DEFINE S == 0 .. N - 1
           T == AllPanes \ {x}
           f == [k \in S |-> CHOOSE y \in T : name[y] = Candidate(x, s, k)]
<1>0. N \in Nat \ {0} /\ IsFiniteSet(Panes) /\ Cardinality(Panes) < N
  BY NamesAssumption DEF FewPanes
<1>1. ASSUME NEW k \in S
      PROVE  f[k] \in T /\ name[f[k]] = Candidate(x, s, k)
  BY DEF OthersName
<1>2. f \in [S -> T]
  BY <1>1
<1>3. IsFiniteSet(S) /\ Cardinality(S) = N
  <2>1. 0 \in Int /\ N - 1 \in Int /\ ~(0 > N - 1) /\ N - 1 - 0 + 1 = N
    BY <1>0
  <2>2. QED
    BY <2>1, FS_Interval
<1>4. IsFiniteSet(T) /\ Cardinality(T) = Cardinality(Panes)
  <2>1. /\ IsFiniteSet(AllPanes)
        /\ Cardinality(AllPanes) = Cardinality(Panes) + 1
    BY <1>0, FS_AddElement, NamesAssumption DEF AllPanes
  <2>2. Cardinality(Panes) \in Nat
    BY <1>0, FS_CardinalityType
  <2>3. IsFiniteSet(T) /\ Cardinality(T) = Cardinality(AllPanes) - 1
    BY <2>1, FS_RemoveElement
  <2>4. QED
    BY <2>1, <2>2, <2>3
<1> HIDE DEF S, T, f
<1>5. Cardinality(T) < Cardinality(S)
  BY <1>0, <1>3, <1>4
<1>6. \E i, j \in S : i # j /\ f[i] = f[j]
  BY <1>2, <1>3, <1>4, <1>5, FS_PigeonHole
<1>7. ASSUME NEW i \in S, NEW j \in S, f[i] = f[j]
      PROVE  i = j
  <2>1. Candidate(x, s, i) = Candidate(x, s, j)
    BY <1>1, <1>7
  <2>2. i \in 0 .. N - 1 /\ j \in 0 .. N - 1
    BY DEF S
  <2>3. QED
    BY <2>1, <2>2, CandidatesDiffer
<1>8. QED
  BY <1>6, <1>7

\* A labeler has run out of names only if one was about to come free.
Exhausting == \A x \in AllPanes : trouble[x] = "exhausted" => ~Steady

LEMMA ExhaustingStep ==
  ASSUME FewPanes, Typed, NamesSettle, Exhausting, [Next]_vars
  PROVE  Exhausting'
<1> SUFFICES ASSUME NEW x \in AllPanes, trouble'[x] = "exhausted", Steady'
             PROVE  FALSE
  BY DEF Exhausting
<1>0. /\ Steady /\ InTurn /\ HandlersTyped /\ N \in Nat
      /\ trouble[x] # "exhausted"
  BY SteadyBefore, NamesAssumption DEF NamesSettle, Settling, Typed, Exhausting
<1>1. ~(World \/ SpawnStep)
  BY <1>0, OthersTroubles
<1>2. PICK l \in Labelers : LabelerStep(l)
  BY <1>0, <1>1 DEF Next, vars
<1>3. /\ work[l].at = "again" /\ x = work[l].pane
      /\ name[x] = NoName /\ work[l].next + 1 = N
  BY <1>0, <1>2, LabelerTroubles
<1>4. work[l].seed \in BOOLEAN /\ work[l].next \in 0 .. N - 1
  BY <1>0 DEF HandlersTyped, Works
<1>5. ASSUME NEW k \in 0 .. N - 1
      PROVE  OthersName(x, Candidate(x, work[l].seed, k))
  <2>1. CASE k = work[l].next
    <3>1. PICK y \in AllPanes : name[y] = Candidate(x, work[l].seed, k)
      BY <1>0, <1>3, <2>1 DEF InTurn, Tries
    <3>2. y # x
      BY <1>3, <1>4, <3>1, CandidateIs
    <3>3. QED
      BY <3>1, <3>2 DEF OthersName
  <2>2. CASE k # work[l].next
    <3>1. k \in 0 .. work[l].next - 1
      BY <1>0, <1>3, <1>4, <2>2
    <3>2. QED
      BY <1>0, <1>3, <3>1 DEF InTurn
  <2>3. QED
    BY <2>1, <2>2
<1>6. QED
  BY <1>4, <1>5, SomeNameIsLeft

\* An agent is not left without a name: once the handlers are through, a
\* command has failed for who has none, or every name was taken in its turn
\* while names were moving between other agents.
THEOREM AgentsGetNamedHolds == ASSUME FewPanes PROVE Spec => []AgentsGetNamed
<1>1. Init => Attended /\ Exhausting
  BY DEF Init, Attended, Exhausting
<1>2. Typed /\ NamesSettle /\ Attended /\ Exhausting /\ [Next]_vars => Attended' /\ Exhausting'
  BY AttendedStep, ExhaustingStep
<1>3. Attended /\ Exhausting /\ churn \in BOOLEAN => AgentsGetNamed
  <2>1. SUFFICES ASSUME Attended, Exhausting, Quiet, NEW p \in AllPanes, Unnamed(p)
                 PROVE  \/ trouble[p] = "failed"
                        \/ /\ trouble[p] = "exhausted"
                           /\ churn \/ \E x \in AllPanes : trouble[x] = "failed"
    BY DEF AgentsGetNamed, Unnamed
  <2>2. \A l \in Labelers : todo[l] = {} /\ work[l].at = "idle"
    BY <2>1 DEF Quiet, Free, Idle
  <2>3. trouble[p] \in {"failed", "exhausted"}
    BY <2>1, <2>2 DEF Attended, Quiet
  <2>4. trouble[p] = "exhausted" => churn \/ \E x \in AllPanes : trouble[x] = "failed"
    BY <2>1 DEF Exhausting, Steady
  <2>5. QED
    BY <2>3, <2>4
<1>4. Typed => churn \in BOOLEAN
  BY DEF Typed, FlagsTyped
<1>5. QED
  BY <1>1, <1>2, <1>3, <1>4, AlwaysTyped, NamesAlwaysSettle, PTL DEF Spec
=============================================================================
