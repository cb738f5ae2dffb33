---------------------------- MODULE ScreenProofs ----------------------------
(***************************************************************************)
(* Theorems about the way to the screens: the sessions and shells whose    *)
(* output HQ relays (Terminals), a tab's WebSocket (BrowserLink) and the   *)
(* conversation view (Conversation), for any number of chunks, tabs,       *)
(* views, events, selections and lost connections; and about all the parts *)
(* that carry a session to the screen in one instance (MCSessions).        *)
(***************************************************************************)
EXTENDS MCSessions, SessionProofs, FiniteSetTheorems, SequenceTheorems, WellFoundedInduction, TLAPS

-----------------------------------------------------------------------------
(* Terminals: the output on its way. *)

Outputs == [type : {"data"}, term : Term, last : Nat, replay : BOOLEAN] \cup [type : {"exit"}, term : Term]

(* The output of t in a queue, what no replay follows, is there a replay?  *)
DataOf(q, t) == {i \in DOMAIN q : q[i].type = "data" /\ q[i].term = t}
Latest(q, t) == {i \in DataOf(q, t) : \A j \in DataOf(q, t) : j > i => ~q[j].replay}
Replayed(q, t) == \E i \in DataOf(q, t) : q[i].replay

(* The queue leads from chunk lo, or from anywhere if there is a replay,   *)
(* to chunk n without a hole.                                              *)
Streams(q, t, lo, n) ==
  /\ lo \in Nat /\ n \in Nat /\ lo <= n
  /\ \A i \in Latest(q, t) : q[i].last \in Nat /\ lo < q[i].last /\ q[i].last <= n
  /\ \A k \in Nat : lo < k /\ k <= n => \E i \in Latest(q, t) : q[i].last = k
  /\ \A i, j \in Latest(q, t) : i < j => q[i].last < q[j].last

(* r is q with one message more, or with its first message taken.          *)
Longer(q, r, m) ==
  \E z \in Nat : /\ DOMAIN r = DOMAIN q \cup {z} /\ r[z] = m
                 /\ \A i \in DOMAIN q : r[i] = q[i] /\ i \in Nat /\ i < z
Shorter(q, r) ==
  /\ \A i \in DOMAIN r : i \in Nat \ {0} /\ i + 1 \in DOMAIN q /\ r[i] = q[i + 1]
  /\ \A i \in DOMAIN q : i \in Nat \ {0} /\ (i = 1 \/ i - 1 \in DOMAIN r)

(* Append and Tail are that.                                               *)
LEMMA Appends ==
  ASSUME NEW q \in Seq(Outputs), NEW m \in Outputs
  PROVE  Append(q, m) \in Seq(Outputs) /\ Longer(q, Append(q, m), m)
  <1>1. /\ DOMAIN Append(q, m) = DOMAIN q \cup {Len(q) + 1} /\ Append(q, m)[Len(q) + 1] = m
        /\ \A i \in DOMAIN q : Append(q, m)[i] = q[i] /\ i \in Nat /\ i < Len(q) + 1
        /\ Len(q) + 1 \in Nat
    OBVIOUS
  <1>2. Append(q, m) \in Seq(Outputs)
    OBVIOUS
  <1>3. Longer(q, Append(q, m), m)
    BY <1>1 DEF Longer
  <1> QED BY <1>2, <1>3

LEMMA Takes ==
  ASSUME NEW q \in Seq(Outputs), q # << >>
  PROVE  /\ Tail(q) \in Seq(Outputs) /\ Head(q) \in Outputs /\ Head(q) = q[1]
         /\ Shorter(q, Tail(q)) /\ 1 \in DOMAIN q
  BY DEF Shorter

(* A message about another terminal, or an exit, is not output of this one.*)
LEMMA OthersStream ==
  ASSUME NEW q, NEW r, NEW m, Longer(q, r, m), NEW t, ~(m.type = "data" /\ m.term = t)
  PROVE  /\ Replayed(r, t) <=> Replayed(q, t)
         /\ \A lo, n : Streams(q, t, lo, n) => Streams(r, t, lo, n)
  <1>1. DataOf(r, t) = DataOf(q, t) /\ \A i \in DataOf(q, t) : r[i] = q[i]
    BY DEF DataOf, Longer
  <1>2. Latest(r, t) = Latest(q, t) /\ Latest(q, t) \subseteq DataOf(q, t)
    BY <1>1 DEF Latest
  <1> QED BY <1>1, <1>2 DEF Replayed, Streams

(* Live output goes on from the last chunk.                                *)
LEMMA LiveStreams ==
  ASSUME NEW q, NEW r, NEW t, NEW n \in Nat, Longer(q, r, Data(t, n + 1, FALSE))
  PROVE  /\ Replayed(r, t) <=> Replayed(q, t)
         /\ \A lo : Streams(q, t, lo, n) => Streams(r, t, lo, n + 1)
  <1>1. PICK z \in Nat : /\ DOMAIN r = DOMAIN q \cup {z} /\ r[z] = Data(t, n + 1, FALSE)
                         /\ \A i \in DOMAIN q : r[i] = q[i] /\ i \in Nat /\ i < z
    BY DEF Longer
  <1>2. r[z].type = "data" /\ r[z].term = t /\ r[z].last = n + 1 /\ ~r[z].replay
    BY <1>1 DEF Data
  <1>3. DataOf(r, t) = DataOf(q, t) \cup {z} /\ \A i \in DataOf(q, t) : r[i] = q[i] /\ i < z /\ i \in Nat
    BY <1>1, <1>2 DEF DataOf
  <1>4. Latest(r, t) = Latest(q, t) \cup {z} /\ Latest(q, t) \subseteq DataOf(q, t)
    BY <1>2, <1>3 DEF Latest
  <1>5. \A i \in Latest(q, t) : r[i] = q[i] /\ i < z /\ i \in Nat
    BY <1>3, <1>4
  <1>6. ASSUME NEW lo, Streams(q, t, lo, n) PROVE Streams(r, t, lo, n + 1)
    <2>0. /\ lo \in Nat /\ lo <= n
          /\ \A i \in Latest(q, t) : q[i].last \in Nat /\ lo < q[i].last /\ q[i].last <= n
          /\ \A k \in Nat : lo < k /\ k <= n => \E i \in Latest(q, t) : q[i].last = k
          /\ \A i, j \in Latest(q, t) : i < j => q[i].last < q[j].last
      BY <1>6 DEF Streams
    <2>1. \A i \in Latest(r, t) : r[i].last \in Nat /\ lo < r[i].last /\ r[i].last <= n + 1
      BY <1>2, <1>4, <1>5, <2>0
    <2>2. \A k \in Nat : lo < k /\ k <= n + 1 => \E i \in Latest(r, t) : r[i].last = k
      <3> SUFFICES ASSUME NEW k \in Nat, lo < k, k <= n + 1 PROVE \E i \in Latest(r, t) : r[i].last = k
        OBVIOUS
      <3>1. CASE k = n + 1
        BY <1>2, <1>4, <3>1
      <3>2. CASE k # n + 1
        <4>1. PICK i \in Latest(q, t) : q[i].last = k
          BY <2>0, <3>2
        <4> QED BY <1>4, <1>5, <4>1
      <3> QED BY <3>1, <3>2
    <2>3. \A i, j \in Latest(r, t) : i < j => r[i].last < r[j].last
      BY <1>2, <1>4, <1>5, <2>0
    <2> QED BY <2>0, <2>1, <2>2, <2>3 DEF Streams
  <1>7. Replayed(r, t) <=> Replayed(q, t)
    BY <1>2, <1>3 DEF Replayed
  <1> QED BY <1>6, <1>7

(* A replay leads from anywhere to the last chunk.                         *)
LEMMA ReplayStreams ==
  ASSUME NEW q, NEW r, NEW t, NEW n \in Nat \ {0}, Longer(q, r, Data(t, n, TRUE))
  PROVE  Replayed(r, t) /\ Streams(r, t, n - 1, n)
  <1>1. PICK z \in Nat : /\ DOMAIN r = DOMAIN q \cup {z} /\ r[z] = Data(t, n, TRUE)
                         /\ \A i \in DOMAIN q : r[i] = q[i] /\ i \in Nat /\ i < z
    BY DEF Longer
  <1>2. r[z].type = "data" /\ r[z].term = t /\ r[z].last = n /\ r[z].replay
    BY <1>1 DEF Data
  <1>3. DataOf(r, t) = DataOf(q, t) \cup {z} /\ \A i \in DataOf(q, t) : i < z /\ i \in Nat
    BY <1>1, <1>2 DEF DataOf
  <1>4. Latest(r, t) = {z}
    BY <1>2, <1>3 DEF Latest
  <1>5. Replayed(r, t)
    BY <1>2, <1>3 DEF Replayed
  <1>6. Streams(r, t, n - 1, n)
    BY <1>2, <1>4 DEF Streams
  <1> QED BY <1>5, <1>6

(* What comes after the head, and what of it is the latest.                *)
LEMMA QueueTaken ==
  ASSUME NEW q, NEW r, Shorter(q, r), 1 \in DOMAIN q, NEW t
  PROVE  /\ \A i \in DataOf(r, t) : i \in Nat \ {0} /\ i + 1 \in DataOf(q, t) /\ r[i] = q[i + 1]
         /\ \A i \in DataOf(q, t) : i \in Nat \ {0} /\ (i = 1 \/ (i - 1 \in DataOf(r, t) /\ r[i - 1] = q[i]))
  <1>1. ASSUME NEW i \in DataOf(q, t), i # 1 PROVE i - 1 \in DataOf(r, t) /\ r[i - 1] = q[i]
    <2>1. i \in Nat \ {0} /\ i - 1 \in DOMAIN r /\ q[i].type = "data" /\ q[i].term = t
      BY <1>1 DEF DataOf, Shorter
    <2>2. r[i - 1] = q[(i - 1) + 1] /\ (i - 1) + 1 = i
      BY <2>1 DEF Shorter
    <2> QED BY <2>1, <2>2 DEF DataOf
  <1>2. \A i \in DataOf(r, t) : i \in Nat \ {0} /\ i + 1 \in DataOf(q, t) /\ r[i] = q[i + 1]
    BY DEF DataOf, Shorter
  <1>3. \A i \in DataOf(q, t) : i \in Nat \ {0}
    BY DEF DataOf, Shorter
  <1> QED BY <1>1, <1>2, <1>3

LEMMA TakenLatest ==
  ASSUME NEW q, NEW r, Shorter(q, r), 1 \in DOMAIN q, NEW t
  PROVE  /\ \A i \in Latest(r, t) : i \in Nat \ {0} /\ i + 1 \in Latest(q, t) /\ r[i] = q[i + 1]
         /\ \A i \in Latest(q, t) : i \in Nat \ {0} /\ (i = 1 \/ (i - 1 \in Latest(r, t) /\ r[i - 1] = q[i]))
         /\ 1 \in Latest(q, t) <=> 1 \in DataOf(q, t) /\ ~Replayed(r, t)
  <1>a. /\ \A i \in DataOf(r, t) : i \in Nat \ {0} /\ i + 1 \in DataOf(q, t) /\ r[i] = q[i + 1]
        /\ \A i \in DataOf(q, t) : i \in Nat \ {0} /\ (i = 1 \/ (i - 1 \in DataOf(r, t) /\ r[i - 1] = q[i]))
    BY QueueTaken
  <1>1. ASSUME NEW i \in Latest(r, t)
        PROVE  i \in Nat \ {0} /\ i + 1 \in Latest(q, t) /\ r[i] = q[i + 1]
    <2>1. i \in DataOf(r, t) /\ i \in Nat \ {0} /\ i + 1 \in DataOf(q, t) /\ r[i] = q[i + 1]
      BY <1>a DEF Latest
    <2>2. ASSUME NEW j \in DataOf(q, t), j > i + 1 PROVE ~q[j].replay
      <3>1. j - 1 \in DataOf(r, t) /\ r[j - 1] = q[j] /\ j - 1 > i
        BY <1>a, <2>1, <2>2
      <3> QED BY <3>1 DEF Latest
    <2> QED BY <2>1, <2>2 DEF Latest
  <1>2. ASSUME NEW i \in Latest(q, t), i # 1
        PROVE  i - 1 \in Latest(r, t) /\ r[i - 1] = q[i]
    <2>1. i \in DataOf(q, t) /\ i \in Nat \ {0} /\ i - 1 \in DataOf(r, t) /\ r[i - 1] = q[i]
      BY <1>a, <1>2 DEF Latest
    <2>2. ASSUME NEW j \in DataOf(r, t), j > i - 1 PROVE ~r[j].replay
      <3>1. j + 1 \in DataOf(q, t) /\ r[j] = q[j + 1] /\ j + 1 > i
        BY <1>a, <2>1, <2>2
      <3> QED BY <3>1 DEF Latest
    <2> QED BY <2>1, <2>2 DEF Latest
  <1>3. \A i \in Latest(q, t) : i \in Nat \ {0}
    BY <1>a DEF Latest
  <1>4. 1 \in Latest(q, t) => ~Replayed(r, t)
    <2> SUFFICES ASSUME 1 \in Latest(q, t), NEW i \in DataOf(r, t), r[i].replay PROVE FALSE
      BY DEF Replayed
    <2>1. i + 1 \in DataOf(q, t) /\ r[i] = q[i + 1] /\ i + 1 > 1
      BY <1>a
    <2> QED BY <2>1 DEF Latest
  <1>5. ASSUME 1 \in DataOf(q, t), ~Replayed(r, t) PROVE 1 \in Latest(q, t)
    <2>1. ASSUME NEW j \in DataOf(q, t), j > 1 PROVE ~q[j].replay
      BY <1>a, <1>5, <2>1 DEF Replayed
    <2> QED BY <1>5, <2>1 DEF Latest
  <1>6. 1 \in Latest(q, t) => 1 \in DataOf(q, t)
    BY DEF Latest
  <1> QED BY <1>1, <1>2, <1>3, <1>4, <1>5, <1>6

(* The head is not output of t, or a replay follows.                       *)
LEMMA PassedStreams ==
  ASSUME NEW q, NEW r, Shorter(q, r), 1 \in DOMAIN q, NEW t, 1 \notin Latest(q, t),
         NEW lo, NEW n, Streams(q, t, lo, n)
  PROVE  Streams(r, t, lo, n)
  <1>1. /\ \A i \in Latest(r, t) : i \in Nat /\ i + 1 \in Latest(q, t) /\ r[i] = q[i + 1]
        /\ \A i \in Latest(q, t) : i - 1 \in Latest(r, t) /\ r[i - 1] = q[i]
    BY TakenLatest
  <1>2. /\ lo \in Nat /\ n \in Nat /\ lo <= n
        /\ \A i \in Latest(q, t) : q[i].last \in Nat /\ lo < q[i].last /\ q[i].last <= n
        /\ \A k \in Nat : lo < k /\ k <= n => \E i \in Latest(q, t) : q[i].last = k
        /\ \A i, j \in Latest(q, t) : i < j => q[i].last < q[j].last
    BY DEF Streams
  <1>3. \A i \in Latest(r, t) : r[i].last \in Nat /\ lo < r[i].last /\ r[i].last <= n
    BY <1>1, <1>2
  <1>4. \A k \in Nat : lo < k /\ k <= n => \E i \in Latest(r, t) : r[i].last = k
    <2> SUFFICES ASSUME NEW k \in Nat, lo < k, k <= n PROVE \E i \in Latest(r, t) : r[i].last = k
      OBVIOUS
    <2>1. PICK i \in Latest(q, t) : q[i].last = k
      BY <1>2
    <2> QED BY <1>1, <2>1
  <1>5. ASSUME NEW i \in Latest(r, t), NEW j \in Latest(r, t), i < j PROVE r[i].last < r[j].last
    <2>1. i + 1 \in Latest(q, t) /\ j + 1 \in Latest(q, t) /\ i + 1 < j + 1 /\ r[i] = q[i + 1] /\ r[j] = q[j + 1]
      BY <1>1, <1>5
    <2> QED BY <1>2, <2>1
  <1> QED BY <1>2, <1>3, <1>4, <1>5 DEF Streams

(* A head that is no replay of t's output leaves the question open.        *)
LEMMA PassedReplays ==
  ASSUME NEW q, NEW r, Shorter(q, r), 1 \in DOMAIN q, NEW t, 1 \notin DataOf(q, t) \/ ~q[1].replay
  PROVE  Replayed(r, t) <=> Replayed(q, t)
  <1>a. /\ \A i \in DataOf(r, t) : i + 1 \in DataOf(q, t) /\ r[i] = q[i + 1]
        /\ \A i \in DataOf(q, t) : i = 1 \/ (i - 1 \in DataOf(r, t) /\ r[i - 1] = q[i])
    BY QueueTaken
  <1> QED BY <1>a DEF Replayed

(* The head is the first of the latest: the next chunk from lo.            *)
LEMMA NextStreams ==
  ASSUME NEW q, NEW r, Shorter(q, r), 1 \in DOMAIN q, NEW t, 1 \in Latest(q, t),
         NEW lo, NEW n, Streams(q, t, lo, n)
  PROVE  q[1].last = lo + 1 /\ Streams(r, t, lo + 1, n)
  <1>1. /\ \A i \in Latest(r, t) : i \in Nat \ {0} /\ i + 1 \in Latest(q, t) /\ r[i] = q[i + 1]
        /\ \A i \in Latest(q, t) : i \in Nat \ {0} /\ (i = 1 \/ (i - 1 \in Latest(r, t) /\ r[i - 1] = q[i]))
    BY TakenLatest
  <1>2. /\ lo \in Nat /\ n \in Nat /\ lo <= n
        /\ \A i \in Latest(q, t) : q[i].last \in Nat /\ lo < q[i].last /\ q[i].last <= n
        /\ \A k \in Nat : lo < k /\ k <= n => \E i \in Latest(q, t) : q[i].last = k
        /\ \A i, j \in Latest(q, t) : i < j => q[i].last < q[j].last
    BY DEF Streams
  <1>3. q[1].last \in Nat /\ lo < q[1].last /\ q[1].last <= n
    BY <1>2
  <1>4. \A i \in Latest(q, t) : i = 1 \/ q[1].last < q[i].last
    BY <1>1, <1>2
  <1>5. q[1].last = lo + 1
    <2>1. lo + 1 \in Nat /\ lo < lo + 1 /\ lo + 1 <= n
      BY <1>2, <1>3
    <2>2. PICK i \in Latest(q, t) : q[i].last = lo + 1
      BY <1>2, <2>1
    <2>3. q[1].last <= q[i].last
      BY <1>2, <1>4, <2>2
    <2> QED BY <1>2, <1>3, <2>2, <2>3
  <1>6. \A i \in Latest(r, t) : r[i].last \in Nat /\ lo + 1 < r[i].last /\ r[i].last <= n
    <2> SUFFICES ASSUME NEW i \in Latest(r, t) PROVE r[i].last \in Nat /\ lo + 1 < r[i].last /\ r[i].last <= n
      OBVIOUS
    <2>1. i + 1 \in Latest(q, t) /\ i + 1 # 1 /\ r[i] = q[i + 1]
      BY <1>1
    <2> QED BY <1>2, <1>4, <1>5, <2>1
  <1>7. \A k \in Nat : lo + 1 < k /\ k <= n => \E i \in Latest(r, t) : r[i].last = k
    <2> SUFFICES ASSUME NEW k \in Nat, lo + 1 < k, k <= n PROVE \E i \in Latest(r, t) : r[i].last = k
      OBVIOUS
    <2>1. PICK i \in Latest(q, t) : q[i].last = k
      BY <1>2
    <2>2. i # 1
      BY <1>2, <1>5, <2>1
    <2> QED BY <1>1, <2>1, <2>2
  <1>8. ASSUME NEW i \in Latest(r, t), NEW j \in Latest(r, t), i < j PROVE r[i].last < r[j].last
    <2>1. i + 1 \in Latest(q, t) /\ j + 1 \in Latest(q, t) /\ i + 1 < j + 1 /\ r[i] = q[i + 1] /\ r[j] = q[j + 1]
      BY <1>1, <1>8
    <2> QED BY <1>2, <2>1
  <1>9. lo + 1 \in Nat /\ lo + 1 <= n
    BY <1>2, <1>3
  <1> QED BY <1>2, <1>5, <1>6, <1>7, <1>8, <1>9 DEF Streams

(* Nothing on the way: all there is.                                       *)
LEMMA NothingStreams ==
  ASSUME NEW q, NEW t, DataOf(q, t) = {}
  PROVE  /\ ~Replayed(q, t)
         /\ \A n \in Nat : Streams(q, t, n, n)
         /\ \A lo, n : Streams(q, t, lo, n) => lo = n
  <1>1. Latest(q, t) = {}
    BY DEF Latest
  <1>2. ASSUME NEW lo, NEW n, Streams(q, t, lo, n) PROVE lo = n
    <2>1. lo < n => \E i \in Latest(q, t) : q[i].last = n
      BY <1>2 DEF Streams
    <2> QED BY <1>1, <1>2, <2>1 DEF Streams
  <1> QED BY <1>1, <1>2 DEF Streams, Replayed

(* Where nothing is replayed, as many messages as chunks.                  *)
LEMMA StreamCounts ==
  ASSUME NEW q \in Seq(Outputs), NEW t, NEW lo, NEW n, Streams(q, t, lo, n), ~Replayed(q, t)
  PROVE  Cardinality(DataOf(q, t)) = n - lo
  <1>1. Latest(q, t) = DataOf(q, t)
    BY DEF Latest, Replayed
  <1> DEFINE f == [i \in DataOf(q, t) |-> q[i].last]
  <1>2. lo \in Nat /\ n \in Nat /\ lo <= n /\ DataOf(q, t) \subseteq Nat
    BY DEF Streams, DataOf
  <1>3. f \in [DataOf(q, t) -> lo + 1 .. n]
    BY <1>1, <1>2 DEF Streams
  <1>4. \A i, j \in DataOf(q, t) : f[i] = f[j] => i = j
    BY <1>1, <1>2 DEF Streams
  <1>5. \A k \in lo + 1 .. n : \E i \in DataOf(q, t) : f[i] = k
    BY <1>1, <1>2 DEF Streams
  <1> HIDE DEF f
  <1>6. f \in Bijection(DataOf(q, t), lo + 1 .. n)
    BY <1>3, <1>4, <1>5 DEF Bijection, Injection, Surjection, IsInjective
  <1>7. IsFiniteSet(DataOf(q, t))
    <2>1. DataOf(q, t) \subseteq 1 .. Len(q) /\ Len(q) \in Nat
      BY DEF DataOf
    <2>2. IsFiniteSet(1 .. Len(q))
      BY <2>1, FS_Interval
    <2> QED BY <2>1, <2>2, FS_Subset
  <1>8. Cardinality(lo + 1 .. n) = n - lo
    <2>1. lo + 1 \in Int /\ n \in Int
      BY <1>2
    <2>2. Cardinality(lo + 1 .. n) = IF lo + 1 > n THEN 0 ELSE n - (lo + 1) + 1
      BY <2>1, FS_Interval
    <2> QED BY <1>2, <2>2
  <1>9. ASSUME NEW T, T = lo + 1 .. n PROVE Cardinality(T) = Cardinality(DataOf(q, t))
    <2>1. ExistsBijection(DataOf(q, t), T)
      BY <1>6, <1>9 DEF ExistsBijection
    <2> QED BY <1>7, <2>1, FS_Bijection
  <1> QED BY <1>8, <1>9

-----------------------------------------------------------------------------
(* The posts, commands and messages there are.                             *)
Requests ==
  {p \in [op : PostOps, tab : Tab \cup {Nothing}, term : Term \cup {Waiting}] :
      /\ p.op # "spawn" => p.term \in Term
      /\ p.op = "spawn" => p.term = Waiting
      /\ p.op = "resume" => p.term \in Cli}
ShellCommands ==
  {p \in [op : PostOps, tab : Tab \cup {Nothing}, term : Term] : p.op = "resume" => p.term \in Cli}

TerminalTypes ==
  /\ pty \in [Term -> {"none", "running", "gone"}] /\ made \in [Term -> 0 .. MaxOutput]
  /\ ringBuffer \in [Cli -> Seq(1 .. MaxOutput)] /\ \A t \in Cli : Len(ringBuffer[t]) <= MaxRing
  /\ attached \subseteq Cli /\ issued \subseteq Shell /\ tracker \subseteq Shell /\ linked \in BOOLEAN
  /\ toDaemon \in Seq(ShellCommands) /\ toHq \in Seq(Outputs)
  /\ bindings \in [Term -> SUBSET Tab] /\ wsWire \in [Tab -> Seq({"join", "leave"} \X Term)]
  /\ posts \subseteq Requests /\ spawned \subseteq Tab \X Shell
  /\ viewing \in [Tab -> Term \cup {Nothing, Waiting}] /\ resumeTimer \in [Tab -> BOOLEAN]
  /\ seen \in [Tab -> 0 .. MaxOutput] /\ synced \subseteq Tab

(* The buffer ends with the last chunk; nothing is on its way that was not *)
(* written, and only CLI sessions are replayed.                            *)
RingInv ==
  \A t \in Cli : IF made[t] = 0 THEN ringBuffer[t] = << >>
                 ELSE ringBuffer[t] # << >> /\ ringBuffer[t][Len(ringBuffer[t])] = made[t]
OutputInv ==
  \A i \in DOMAIN toHq : toHq[i].type = "data" =>
      /\ 0 < toHq[i].last /\ toHq[i].last <= made[toHq[i].term]
      /\ toHq[i].replay => toHq[i].term \in Cli

(* Which tab waits for which shell: one answer is under way to it at most, *)
(* nobody has seen that shell yet, and once its tab shows it, its join is  *)
(* the last word of the tab about it.                                      *)
AskingInv ==
  /\ \A c \in Tab : resumeTimer[c] => viewing[c] \in Cli
  /\ \A p \in posts : p.op = "spawn" /\ p.tab # Nothing =>
        viewing[p.tab] = Waiting /\ \A t \in Shell : <<p.tab, t>> \notin spawned
  /\ \A c \in Tab, t \in Shell : <<c, t>> \in spawned =>
        /\ viewing[c] = Waiting /\ t \in issued
        /\ \A u \in Shell : <<c, u>> \in spawned => u = t
        /\ \A d \in Tab : <<d, t>> \in spawned => d = c
NewShellInv ==
  /\ \A c \in Tab : viewing[c] \in Shell => viewing[c] \in issued
  /\ \A c \in Tab : \A i \in DOMAIN wsWire[c] : wsWire[c][i][2] \in Shell => wsWire[c][i][2] \in issued
  /\ \A c \in Tab, t \in Shell, d \in Tab : <<c, t>> \in spawned =>
        viewing[d] # t /\ \A i \in DOMAIN wsWire[d] : wsWire[d][i][2] # t
LastWordInv ==
  \A c \in Tab : viewing[c] \in Shell =>
      \A i \in DOMAIN wsWire[c] : wsWire[c][i] = <<"join", viewing[c]>> => i = Len(wsWire[c])

(* A screen is never ahead; the output of a shell, or of a session while   *)
(* it is attached, is on its way without a hole; and it goes on from where *)
(* the screen of a synced tab is, unless a replay is on its way.           *)
Wanted(t) == t \in attached \cup Shell
SeenInv == \A c \in Tab : seen[c] <= IF viewing[c] \in Term THEN made[viewing[c]] ELSE 0
StreamInv == \A t \in Term : Wanted(t) => \E lo \in Nat : Streams(toHq, t, lo, made[t])
SyncedInv ==
  \A c \in synced :
    /\ viewing[c] \in Term /\ wsWire[c] = << >> /\ c \in bindings[viewing[c]]
    /\ Wanted(viewing[c]) /\ ~Replayed(toHq, viewing[c]) => Streams(toHq, viewing[c], seen[c], made[viewing[c]])
LinkedInv == ~linked => toHq = << >> /\ synced = {}

TerminalsInv ==
  /\ TerminalTypes /\ RingInv /\ OutputInv /\ AskingInv /\ NewShellInv /\ LastWordInv
  /\ SeenInv /\ StreamInv /\ SyncedInv /\ LinkedInv

-----------------------------------------------------------------------------
(* What a step leaves alone keeps what is said of it.                      *)
LEMMA TabsKept ==
  ASSUME AskingInv, NewShellInv, LastWordInv, UNCHANGED <<resumeTimer, viewing, posts, spawned, issued, wsWire>>
  PROVE  AskingInv' /\ NewShellInv' /\ LastWordInv'
  <1>1. AskingInv'
    BY DEF AskingInv
  <1>2. NewShellInv'
    BY DEF NewShellInv
  <1>3. LastWordInv'
    BY DEF LastWordInv
  <1> QED BY <1>1, <1>2, <1>3

LEMMA OutputKept ==
  ASSUME RingInv, OutputInv, StreamInv, UNCHANGED <<ringBuffer, made, toHq, attached>>
  PROVE  RingInv' /\ OutputInv' /\ StreamInv'
  <1>1. RingInv'
    BY DEF RingInv
  <1>2. OutputInv'
    BY DEF OutputInv
  <1>3. StreamInv'
    BY DEF StreamInv, Wanted
  <1> QED BY <1>1, <1>2, <1>3

(* One message more, or none.                                              *)
LEMMA Concats ==
  ASSUME NEW S, NEW q \in Seq(S)
  PROVE  q \o << >> = q /\ \A m \in S : q \o <<m>> = Append(q, m)
  OBVIOUS

LEMMA EmitsOutput ==
  ASSUME TerminalTypes, LinkedInv, NEW m \in Outputs, Emit(<<m>>)
  PROVE  /\ toHq' \in Seq(Outputs)
         /\ linked => Longer(toHq, toHq', m)
         /\ ~linked => toHq' = << >>
  <1>1. toHq \in Seq(Outputs)
    BY DEF TerminalTypes
  <1>2. linked => toHq' = Append(toHq, m)
    BY <1>1, Concats DEF Emit
  <1>3. ~linked => toHq' = << >>
    BY DEF Emit, LinkedInv
  <1>4. Append(toHq, m) \in Seq(Outputs) /\ Longer(toHq, Append(toHq, m), m)
    BY <1>1, Appends
  <1>5. << >> \in Seq(Outputs)
    OBVIOUS
  <1> QED BY <1>2, <1>3, <1>4, <1>5

LEMMA EmitsNothing ==
  ASSUME TerminalTypes, Emit(<< >>)
  PROVE  toHq' = toHq
  BY Concats DEF Emit, TerminalTypes

LEMMA EmptyStreams ==
  ASSUME NEW t
  PROVE  ~Replayed(<< >>, t) /\ \A n \in Nat : Streams(<< >>, t, n, n)
  <1>1. DataOf(<< >>, t) = {}
    BY DEF DataOf
  <1> QED BY <1>1, NothingStreams

LEMMA InitTerminals ==
  ASSUME TmInit
  PROVE  TerminalsInv
  <1>1. TerminalTypes
    BY TerminalsAssumption DEF TmInit, TerminalTypes
  <1>2. RingInv /\ OutputInv
    BY DEF TmInit, RingInv, OutputInv, Term
  <1>3. AskingInv /\ NewShellInv /\ LastWordInv
    BY TerminalsAssumption DEF TmInit, AskingInv, NewShellInv, LastWordInv
  <1>4. SeenInv /\ SyncedInv /\ LinkedInv
    BY TerminalsAssumption DEF TmInit, SeenInv, SyncedInv, LinkedInv
  <1>5. StreamInv
    BY EmptyStreams DEF TmInit, StreamInv
  <1> QED BY <1>1, <1>2, <1>3, <1>4, <1>5 DEF TerminalsInv

-----------------------------------------------------------------------------
(* The daemon's steps.                                                     *)
LEMMA CreateSessionKeeps ==
  ASSUME TerminalsInv, NEW t \in Cli, CreateSession(t)
  PROVE  TerminalsInv'
  <1> USE DEF CreateSession, wireTermVars, hqTermVars, tabTermVars
  <1>1. TerminalTypes'
    BY DEF TerminalsInv, TerminalTypes
  <1>2. AskingInv' /\ NewShellInv' /\ LastWordInv'
    BY TabsKept DEF TerminalsInv
  <1>3. RingInv' /\ OutputInv' /\ StreamInv'
    BY OutputKept DEF TerminalsInv
  <1>4. SeenInv' /\ SyncedInv' /\ LinkedInv'
    BY DEF TerminalsInv, SeenInv, SyncedInv, LinkedInv, Wanted
  <1> QED BY <1>1, <1>2, <1>3, <1>4 DEF TerminalsInv

(* The buffer takes the chunk.                                             *)
LEMMA Pushes ==
  ASSUME TerminalTypes, NEW t \in Cli, NEW n \in 1 .. MaxOutput
  PROVE  Push(t, n) \in Seq(1 .. MaxOutput) /\ Len(Push(t, n)) <= MaxRing
         /\ Push(t, n) # << >> /\ Push(t, n)[Len(Push(t, n))] = n
  <1>1. ringBuffer[t] \in Seq(1 .. MaxOutput) /\ Len(ringBuffer[t]) <= MaxRing /\ MaxRing \in Nat \ {0}
    BY TerminalsAssumption DEF TerminalTypes
  <1> DEFINE all == Append(ringBuffer[t], n)
  <1>2. all \in Seq(1 .. MaxOutput) /\ Len(all) = Len(ringBuffer[t]) + 1 /\ all[Len(all)] = n /\ Len(ringBuffer[t]) \in Nat
    BY <1>1
  <1>3. CASE Len(all) > MaxRing
    <2>1. /\ Tail(all) \in Seq(1 .. MaxOutput) /\ Len(Tail(all)) = Len(ringBuffer[t])
          /\ Len(ringBuffer[t]) > 0
          /\ Tail(all)[Len(ringBuffer[t])] = all[Len(ringBuffer[t]) + 1]
      BY <1>1, <1>2, <1>3
    <2>2. Push(t, n) = Tail(all)
      BY <1>3 DEF Push
    <2> HIDE DEF all
    <2>3. Tail(all) # << >>
      <3>1. Len(Tail(all)) > 0
        BY <2>1
      <3>2. Len(<< >>) = 0
        OBVIOUS
      <3> QED BY <1>2, <2>1, <3>2, SMTT(30)
    <2>4. Len(Push(t, n)) <= MaxRing /\ Push(t, n)[Len(Push(t, n))] = n
      BY <1>1, <1>2, <2>1, <2>2
    <2> QED BY <2>1, <2>2, <2>3, <2>4
  <1>4. CASE ~(Len(all) > MaxRing)
    <2>1. Push(t, n) = all
      BY <1>4 DEF Push
    <2> QED BY <1>1, <1>2, <1>4, <2>1
  <1> QED BY <1>3, <1>4

LEMMA OnDataKeeps ==
  ASSUME TerminalsInv, NEW t \in Term, OnData(t)
  PROVE  TerminalsInv'
  <1> DEFINE n == made[t]
             m == Data(t, n + 1, FALSE)
             wanted == t \in Shell \/ t \in attached
  <1>1. /\ TerminalTypes /\ RingInv /\ OutputInv /\ SeenInv /\ StreamInv /\ SyncedInv /\ LinkedInv
        /\ UNCHANGED <<pty, attached, toDaemon, linked, issued, tracker, bindings, wsWire, posts, spawned, viewing,
                       resumeTimer, seen, synced>>
        /\ made' = [made EXCEPT ![t] = n + 1]
        /\ ringBuffer' = IF t \in Shell THEN ringBuffer ELSE [ringBuffer EXCEPT ![t] = Push(t, n + 1)]
        /\ Emit(IF wanted THEN <<m>> ELSE << >>)
    BY DEF TerminalsInv, OnData, hqTermVars, tabTermVars
  <1>2. n \in Nat /\ n + 1 \in 1 .. MaxOutput /\ made' \in [Term -> 0 .. MaxOutput] /\ made'[t] = n + 1
        /\ \A u \in Term : u # t => made'[u] = made[u]
    BY TerminalsAssumption DEF TerminalsInv, TerminalTypes, OnData
  <1>3. m \in Outputs
    BY <1>2 DEF Outputs, Data
  <1>4. /\ toHq' \in Seq(Outputs)
        /\ linked /\ wanted => Longer(toHq, toHq', m)
        /\ ~wanted => toHq' = toHq
        /\ ~linked => toHq' = << >>
    <2>1. CASE wanted
      BY <1>1, <1>3, <2>1, EmitsOutput
    <2>2. CASE ~wanted
      BY <1>1, <2>2, EmitsNothing DEF TerminalTypes, LinkedInv
    <2> QED BY <2>1, <2>2
  <1>5. /\ ringBuffer' \in [Cli -> Seq(1 .. MaxOutput)] /\ \A u \in Cli : Len(ringBuffer'[u]) <= MaxRing
        /\ RingInv'
    <2>1. CASE t \in Shell
      <3>1. t \notin Cli /\ ringBuffer' = ringBuffer
        BY <1>1, <2>1, TerminalsAssumption
      <3> QED BY <1>1, <1>2, <3>1 DEF TerminalTypes, RingInv, Term
    <2>2. CASE t \notin Shell
      <3>1. t \in Cli /\ ringBuffer' = [ringBuffer EXCEPT ![t] = Push(t, n + 1)]
        BY <1>1, <2>2 DEF Term
      <3>2. Push(t, n + 1) \in Seq(1 .. MaxOutput) /\ Len(Push(t, n + 1)) <= MaxRing
            /\ Push(t, n + 1) # << >> /\ Push(t, n + 1)[Len(Push(t, n + 1))] = n + 1
        BY <1>1, <1>2, <3>1, Pushes
      <3>3. /\ ringBuffer'[t] = Push(t, n + 1) /\ \A u \in Cli : u # t => ringBuffer'[u] = ringBuffer[u]
            /\ ringBuffer' \in [Cli -> Seq(1 .. MaxOutput)]
        BY <1>1, <3>1, <3>2 DEF TerminalTypes
      <3>4. \A u \in Cli : Len(ringBuffer'[u]) <= MaxRing
        BY <1>1, <3>2, <3>3 DEF TerminalTypes
      <3>5. RingInv'
        BY <1>1, <1>2, <3>2, <3>3 DEF RingInv, Term
      <3> QED BY <3>3, <3>4, <3>5
    <2> QED BY <2>1, <2>2
  <1>6. TerminalTypes'
    BY <1>1, <1>2, <1>4, <1>5 DEF TerminalTypes
  <1>7. AskingInv' /\ NewShellInv' /\ LastWordInv'
    BY <1>1, TabsKept DEF TerminalsInv
  <1>8. OutputInv'
    <2>1. CASE toHq' = toHq \/ toHq' = << >>
      <3>1. \A i \in DOMAIN toHq' : toHq'[i] = toHq[i] /\ i \in DOMAIN toHq /\ toHq[i] \in Outputs
        BY <1>1, <2>1 DEF TerminalTypes
      <3>2. \A u \in Term : made[u] \in Nat /\ made[u] <= made'[u]
        BY <1>1, <1>2 DEF TerminalTypes
      <3> QED BY <1>1, <3>1, <3>2 DEF OutputInv, Outputs
    <2>2. CASE Longer(toHq, toHq', m) /\ wanted
      <3>1. PICK z \in Nat : DOMAIN toHq' = DOMAIN toHq \cup {z} /\ toHq'[z] = m
                             /\ \A i \in DOMAIN toHq : toHq'[i] = toHq[i]
        BY <2>2 DEF Longer
      <3>2. m.type = "data" /\ m.term = t /\ m.last = n + 1 /\ ~m.replay
        BY DEF Data
      <3>3. \A i \in DOMAIN toHq : toHq[i] \in Outputs
        BY <1>1 DEF TerminalTypes
      <3>4. \A u \in Term : made[u] \in Nat /\ made[u] <= made'[u]
        BY <1>1, <1>2 DEF TerminalTypes
      <3> HIDE DEF m
      <3>5. ASSUME NEW i \in DOMAIN toHq, toHq[i].type = "data"
            PROVE  0 < toHq[i].last /\ toHq[i].last <= made'[toHq[i].term] /\ (toHq[i].replay => toHq[i].term \in Cli)
        <4>1. toHq[i].term \in Term /\ toHq[i].last \in Nat
          BY <3>3, <3>5 DEF Outputs
        <4>2. 0 < toHq[i].last /\ toHq[i].last <= made[toHq[i].term] /\ (toHq[i].replay => toHq[i].term \in Cli)
          BY <1>1, <3>5 DEF OutputInv
        <4>3. made[toHq[i].term] \in Nat /\ made'[toHq[i].term] \in Nat /\ made[toHq[i].term] <= made'[toHq[i].term]
          BY <1>2, <3>4, <4>1
        <4> QED BY <4>1, <4>2, <4>3
      <3>6. 0 < m.last /\ m.last <= made'[m.term] /\ (m.replay => m.term \in Cli)
        BY <1>2, <3>2
      <3> QED BY <3>1, <3>5, <3>6 DEF OutputInv
    <2> QED BY <1>4, <2>1, <2>2
  <1>9. SeenInv'
    BY <1>1, <1>2, TerminalsAssumption DEF SeenInv, TerminalTypes
  <1>10. ASSUME NEW u \in Term, Wanted(u), linked
         PROVE  /\ Replayed(toHq', u) <=> Replayed(toHq, u)
                /\ \A lo : Streams(toHq, u, lo, made[u]) => Streams(toHq', u, lo, made'[u])
    <2>1. CASE ~wanted
      <3>1. u # t
        BY <1>10, <2>1 DEF Wanted
      <3> QED BY <1>2, <1>4, <2>1, <3>1
    <2>2. CASE wanted /\ u = t
      <3>1. /\ Replayed(toHq', t) <=> Replayed(toHq, t)
            /\ \A lo : Streams(toHq, t, lo, n) => Streams(toHq', t, lo, n + 1)
        BY <1>2, <1>4, <1>10, <2>2, LiveStreams
      <3> QED BY <1>2, <2>2, <3>1
    <2>3. CASE wanted /\ u # t
      <3>1. ~(m.type = "data" /\ m.term = u)
        BY <2>3 DEF Data
      <3>2. Longer(toHq, toHq', m)
        BY <1>4, <1>10, <2>3
      <3> HIDE DEF m
      <3>3. /\ Replayed(toHq', u) <=> Replayed(toHq, u)
            /\ \A lo, k : Streams(toHq, u, lo, k) => Streams(toHq', u, lo, k)
        BY <3>1, <3>2, OthersStream
      <3> QED BY <1>2, <2>3, <3>3
    <2> QED BY <2>1, <2>2, <2>3
  <1>11. StreamInv'
    <2>1. CASE linked
      <3> SUFFICES ASSUME NEW u \in Term, Wanted(u) PROVE \E lo \in Nat : Streams(toHq', u, lo, made'[u])
        BY <1>1 DEF StreamInv, Wanted
      <3>1. PICK lo \in Nat : Streams(toHq, u, lo, made[u])
        BY <1>1 DEF StreamInv
      <3> QED BY <1>10, <2>1, <3>1
    <2>2. CASE ~linked
      <3>1. \A u \in Term : made'[u] \in Nat
        BY <1>2
      <3> QED BY <1>4, <2>2, <3>1, EmptyStreams DEF StreamInv
    <2> QED BY <2>1, <2>2
  <1>12. SyncedInv'
    <2>1. CASE linked
      <3> SUFFICES ASSUME NEW c \in synced
                   PROVE  /\ viewing[c] \in Term /\ wsWire[c] = << >> /\ c \in bindings[viewing[c]]
                          /\ Wanted(viewing[c]) /\ ~Replayed(toHq', viewing[c])
                             => Streams(toHq', viewing[c], seen[c], made'[viewing[c]])
        BY <1>1 DEF SyncedInv, Wanted
      <3>1. /\ viewing[c] \in Term /\ wsWire[c] = << >> /\ c \in bindings[viewing[c]]
            /\ Wanted(viewing[c]) /\ ~Replayed(toHq, viewing[c])
               => Streams(toHq, viewing[c], seen[c], made[viewing[c]])
        BY <1>1 DEF SyncedInv
      <3> QED BY <1>10, <2>1, <3>1
    <2>2. CASE ~linked
      BY <1>1, <2>2 DEF LinkedInv, SyncedInv
    <2> QED BY <2>1, <2>2
  <1>13. LinkedInv'
    BY <1>1, <1>4 DEF LinkedInv
  <1> QED BY <1>5, <1>6, <1>7, <1>8, <1>9, <1>11, <1>12, <1>13 DEF TerminalsInv

(* A step of the daemon that at most says that a process exited.           *)
LEMMA SayExitKeeps ==
  ASSUME TerminalsInv, NEW t \in Term, toHq' = toHq \/ Emit(<<Exit(t)>>),
         attached' \subseteq attached,
         pty' \in [Term -> {"none", "running", "gone"}], toDaemon' \in Seq(ShellCommands),
         UNCHANGED <<made, ringBuffer, linked, issued, tracker, bindings, wsWire, posts, spawned, viewing,
                     resumeTimer, seen, synced>>
  PROVE  TerminalsInv'
  <1> DEFINE m == Exit(t)
  <1>1. /\ TerminalTypes /\ RingInv /\ OutputInv /\ SeenInv /\ StreamInv /\ SyncedInv /\ LinkedInv
    BY DEF TerminalsInv
  <1>2. m \in Outputs /\ m.type = "exit"
    BY DEF Outputs, Exit
  <1>3. /\ toHq' \in Seq(Outputs)
        /\ toHq' = toHq \/ Longer(toHq, toHq', m)
        /\ ~linked => toHq' = << >>
    <2>1. CASE toHq' = toHq
      BY <1>1, <2>1 DEF TerminalTypes, LinkedInv
    <2>2. CASE Emit(<<m>>)
      <3>1. ~linked => toHq = << >>
        BY <1>1 DEF LinkedInv
      <3>2. /\ toHq' \in Seq(Outputs) /\ (linked => Longer(toHq, toHq', m)) /\ (~linked => toHq' = << >>)
        BY <1>1, <1>2, <2>2, EmitsOutput
      <3> QED BY <3>1, <3>2
    <2> QED BY <2>1, <2>2
  <1>4. TerminalTypes'
    BY <1>1, <1>3 DEF TerminalTypes
  <1>5. AskingInv' /\ NewShellInv' /\ LastWordInv'
    BY TabsKept DEF TerminalsInv
  <1>6. RingInv' /\ SeenInv' /\ LinkedInv'
    BY <1>1, <1>3 DEF RingInv, SeenInv, LinkedInv
  <1> HIDE DEF m
  <1>7. OutputInv'
    <2>1. CASE toHq' = toHq
      BY <1>1, <2>1 DEF OutputInv
    <2>2. CASE Longer(toHq, toHq', m)
      BY <1>1, <1>2, <2>2 DEF OutputInv, Longer
    <2> QED BY <1>3, <2>1, <2>2
  <1>8. ASSUME NEW u
        PROVE  /\ Replayed(toHq', u) <=> Replayed(toHq, u)
               /\ \A lo, k : Streams(toHq, u, lo, k) => Streams(toHq', u, lo, k)
    <2>1. CASE toHq' = toHq
      BY <2>1
    <2>2. CASE Longer(toHq, toHq', m)
      <3>1. ~(m.type = "data" /\ m.term = u)
        BY <1>2
      <3> QED BY <2>2, <3>1, OthersStream
    <2> QED BY <1>3, <2>1, <2>2
  <1>9. StreamInv'
    <2> SUFFICES ASSUME NEW u \in Term, Wanted(u) PROVE \E lo \in Nat : Streams(toHq', u, lo, made[u])
      BY DEF StreamInv, Wanted
    <2>1. PICK lo \in Nat : Streams(toHq, u, lo, made[u])
      BY <1>1 DEF StreamInv
    <2> QED BY <1>8, <2>1
  <1>10. SyncedInv'
    <2> SUFFICES ASSUME NEW c \in synced
                 PROVE  /\ viewing[c] \in Term /\ wsWire[c] = << >> /\ c \in bindings[viewing[c]]
                        /\ Wanted(viewing[c]) /\ ~Replayed(toHq', viewing[c])
                           => Streams(toHq', viewing[c], seen[c], made[viewing[c]])
      BY DEF SyncedInv, Wanted
    <2>1. /\ viewing[c] \in Term /\ wsWire[c] = << >> /\ c \in bindings[viewing[c]]
          /\ Wanted(viewing[c]) /\ ~Replayed(toHq, viewing[c])
             => Streams(toHq, viewing[c], seen[c], made[viewing[c]])
      BY <1>1 DEF SyncedInv
    <2> QED BY <1>8, <2>1
  <1> QED BY <1>4, <1>5, <1>6, <1>7, <1>9, <1>10 DEF TerminalsInv

LEMMA ResumeSessionKeeps ==
  ASSUME TerminalsInv, NEW t \in Cli, ResumeSession(t), linked, toDaemon' \in Seq(ShellCommands),
         UNCHANGED <<made, ringBuffer, linked, issued, tracker, bindings, wsWire, posts, spawned, viewing,
                     resumeTimer, seen, synced>>
  PROVE  TerminalsInv'
  <1> DEFINE n == made[t]
             m == Data(t, n, TRUE)
  <1>1. /\ TerminalTypes /\ RingInv /\ OutputInv /\ SeenInv /\ StreamInv /\ SyncedInv /\ LinkedInv
        /\ attached' = attached \cup {t} /\ pty' = pty
        /\ t \in Term
    BY DEF TerminalsInv, ResumeSession, Term
  <1>2. n \in Nat /\ n \in 0 .. MaxOutput
    BY <1>1, TerminalsAssumption DEF TerminalTypes
  <1>3. \/ n = 0 /\ toHq' = toHq
        \/ n # 0 /\ toHq' \in Seq(Outputs) /\ Longer(toHq, toHq', m)
    <2>1. CASE n = 0
      <3>1. Emit(<< >>)
        BY <1>1, <2>1 DEF RingInv, ResumeSession
      <3> QED BY <1>1, <2>1, <3>1, EmitsNothing
    <2>2. CASE n # 0
      <3>1. Emit(<<m>>)
        BY <1>1, <2>2 DEF RingInv, ResumeSession
      <3>2. m \in Outputs
        BY <1>1, <1>2 DEF Outputs, Data
      <3> QED BY <1>1, <2>2, <3>1, <3>2, EmitsOutput
    <2> QED BY <2>1, <2>2
  <1>4. TerminalTypes'
    BY <1>1, <1>3 DEF TerminalTypes
  <1>5. AskingInv' /\ NewShellInv' /\ LastWordInv'
    BY TabsKept DEF TerminalsInv
  <1>6. RingInv' /\ SeenInv' /\ LinkedInv'
    BY <1>1 DEF RingInv, SeenInv, LinkedInv
  <1>m. m.type = "data" /\ m.term = t /\ m.last = n /\ m.replay
    BY DEF Data
  <1>7. OutputInv'
    <2>1. CASE toHq' = toHq
      BY <1>1, <2>1 DEF OutputInv
    <2>2. CASE n # 0 /\ Longer(toHq, toHq', m)
      <3>1. PICK z \in Nat : DOMAIN toHq' = DOMAIN toHq \cup {z} /\ toHq'[z] = m
                             /\ \A i \in DOMAIN toHq : toHq'[i] = toHq[i]
        BY <2>2 DEF Longer
      <3>2. 0 < m.last /\ m.last <= made[m.term] /\ (m.replay => m.term \in Cli)
        <4>1. m.last = n /\ m.term = t
          BY <1>m
        <4>2. 0 < n /\ n <= n
          BY <1>2, <2>2
        <4> HIDE DEF m
        <4> QED BY <4>1, <4>2
      <3> HIDE DEF m
      <3> QED BY <1>1, <3>1, <3>2 DEF OutputInv
    <2> QED BY <1>3, <2>1, <2>2
  <1>8. ASSUME NEW u \in Term, u # t
        PROVE  /\ Replayed(toHq', u) <=> Replayed(toHq, u)
               /\ \A lo, k : Streams(toHq, u, lo, k) => Streams(toHq', u, lo, k)
    <2>1. CASE toHq' = toHq
      BY <2>1
    <2>2. CASE Longer(toHq, toHq', m)
      <3>1. ~(m.type = "data" /\ m.term = u)
        BY <1>8, <1>m
      <3> HIDE DEF m
      <3> QED BY <2>2, <3>1, OthersStream
    <2> QED BY <1>3, <2>1, <2>2
  <1>9. \/ n = 0 /\ Streams(toHq', t, 0, 0)
        \/ n # 0 /\ Replayed(toHq', t) /\ Streams(toHq', t, n - 1, n) /\ n - 1 \in Nat
    <2>1. CASE n = 0 /\ toHq' = toHq
      <3>1. \A i \in DOMAIN toHq : toHq[i].type = "data" => toHq[i].term # t
        <4> SUFFICES ASSUME NEW i \in DOMAIN toHq, toHq[i].type = "data", toHq[i].term = t PROVE FALSE
          OBVIOUS
        <4>1. toHq[i] \in Outputs
          BY <1>1 DEF TerminalTypes
        <4>2. toHq[i].last \in Nat
          BY <4>1 DEF Outputs
        <4>3. 0 < toHq[i].last /\ toHq[i].last <= n
          BY <1>1 DEF OutputInv
        <4> QED BY <2>1, <4>2, <4>3
      <3>2. DataOf(toHq, t) = {}
        BY <3>1 DEF DataOf
      <3> QED BY <2>1, <3>2, NothingStreams
    <2>2. CASE n # 0 /\ Longer(toHq, toHq', m)
      <3>1. n \in Nat \ {0} /\ n - 1 \in Nat
        BY <1>2, <2>2
      <3>2. Replayed(toHq', t) /\ Streams(toHq', t, n - 1, n)
        BY <2>2, <3>1, ReplayStreams
      <3> QED BY <3>1, <3>2
    <2> QED BY <1>3, <2>1, <2>2
  <1>10. StreamInv'
    <2> SUFFICES ASSUME NEW u \in Term, Wanted(u)' PROVE \E lo \in Nat : Streams(toHq', u, lo, made[u])
      BY DEF StreamInv
    <2>1. CASE u = t
      BY <1>9, <2>1
    <2>2. CASE u # t
      <3>1. Wanted(u)
        BY <1>1, <2>2 DEF Wanted
      <3>2. PICK lo \in Nat : Streams(toHq, u, lo, made[u])
        BY <1>1, <3>1 DEF StreamInv
      <3> QED BY <1>8, <2>2, <3>2
    <2> QED BY <2>1, <2>2
  <1>11. SyncedInv'
    <2> SUFFICES ASSUME NEW c \in synced
                 PROVE  /\ viewing[c] \in Term /\ wsWire[c] = << >> /\ c \in bindings[viewing[c]]
                        /\ Wanted(viewing[c])' /\ ~Replayed(toHq', viewing[c])
                           => Streams(toHq', viewing[c], seen[c], made[viewing[c]])
      BY DEF SyncedInv
    <2>1. /\ viewing[c] \in Term /\ wsWire[c] = << >> /\ c \in bindings[viewing[c]]
          /\ Wanted(viewing[c]) /\ ~Replayed(toHq, viewing[c])
             => Streams(toHq, viewing[c], seen[c], made[viewing[c]])
      BY <1>1 DEF SyncedInv
    <2>2. CASE viewing[c] = t
      <3>1. n = 0 => seen[c] = 0
        BY <1>1, <2>2 DEF SeenInv, TerminalTypes
      <3> QED BY <1>9, <2>1, <2>2, <3>1
    <2>3. CASE viewing[c] # t
      <3>1. Wanted(viewing[c])' <=> Wanted(viewing[c])
        BY <1>1, <2>3 DEF Wanted
      <3> QED BY <1>8, <2>1, <2>3, <3>1
    <2> QED BY <2>2, <2>3
  <1> QED BY <1>4, <1>5, <1>6, <1>7, <1>10, <1>11 DEF TerminalsInv

LEMMA DaemonHandlesTerminalKeeps ==
  ASSUME TerminalsInv, DaemonHandlesTerminal
  PROVE  TerminalsInv'
  <1> DEFINE t == Head(toDaemon).term
             op == Head(toDaemon).op
  <1>1. /\ TerminalTypes /\ linked
        /\ UNCHANGED <<made, ringBuffer, linked, issued, tracker, bindings, wsWire, posts, spawned, viewing,
                     resumeTimer, seen, synced>>
    BY DEF TerminalsInv, DaemonHandlesTerminal, hqTermVars, tabTermVars
  <1>2. /\ toDaemon' \in Seq(ShellCommands) /\ Head(toDaemon) \in ShellCommands
    BY <1>1 DEF DaemonHandlesTerminal, TerminalTypes
  <1>3. t \in Term /\ (op = "resume" => t \in Cli)
    BY <1>2 DEF ShellCommands
  <1>4. CASE op = "resume" /\ ResumeSession(t)
    BY <1>1, <1>2, <1>3, <1>4, ResumeSessionKeeps
  <1>5. CASE /\ toHq' = toHq \/ Emit(<<Exit(t)>>)
             /\ attached' \subseteq attached
             /\ pty' \in [Term -> {"none", "running", "gone"}]
    BY <1>1, <1>2, <1>3, <1>5, SayExitKeeps
  <1>6. \/ op = "resume" /\ ResumeSession(t)
        \/ SpawnShell(t) \/ DetachSession(t) \/ EndSession(t) \/ Kill(t)
        \/ UNCHANGED <<pty, attached, toHq>>
    BY DEF DaemonHandlesTerminal
  <1>7. pty \in [Term -> {"none", "running", "gone"}]
    BY <1>1 DEF TerminalTypes
  <1> HIDE DEF t, op
  <1>8. SpawnShell(t) \/ DetachSession(t) \/ EndSession(t) \/ Kill(t) \/ UNCHANGED <<pty, attached, toHq>>
        => /\ toHq' = toHq \/ Emit(<<Exit(t)>>)
           /\ attached' \subseteq attached
           /\ pty' \in [Term -> {"none", "running", "gone"}]
    BY <1>3, <1>7 DEF SpawnShell, DetachSession, EndSession, Kill
  <1> QED BY <1>4, <1>5, <1>6, <1>8

LEMMA OnExitKeeps ==
  ASSUME TerminalsInv, NEW t \in Term, OnExit(t)
  PROVE  TerminalsInv'
  <1>1. /\ pty' \in [Term -> {"none", "running", "gone"}] /\ toDaemon' \in Seq(ShellCommands) /\ Emit(<<Exit(t)>>)
        /\ UNCHANGED <<attached, made, ringBuffer, linked, issued, tracker, bindings, wsWire, posts, spawned, viewing,
                     resumeTimer, seen, synced>>
    BY DEF TerminalsInv, TerminalTypes, OnExit, hqTermVars, tabTermVars
  <1> QED BY <1>1, SayExitKeeps

-----------------------------------------------------------------------------
(* The relay's steps.                                                      *)
LEMMA RelayForwardsKeeps ==
  ASSUME TerminalsInv, RelayForwards
  PROVE  TerminalsInv'
  <1> DEFINE m == Head(toHq)
             viewers == {c \in bindings[m.term] : viewing[c] = m.term}
  <1>1. /\ TerminalTypes /\ RingInv /\ OutputInv /\ SeenInv /\ StreamInv /\ SyncedInv /\ LinkedInv
        /\ UNCHANGED <<pty, made, ringBuffer, attached, toDaemon, linked, issued, tracker, wsWire, posts, spawned,
                       viewing, resumeTimer>>
        /\ toHq' = Tail(toHq)
    BY DEF TerminalsInv, RelayForwards, daemonTermVars
  <1>2. /\ toHq' \in Seq(Outputs) /\ m \in Outputs /\ m = toHq[1] /\ Shorter(toHq, toHq') /\ 1 \in DOMAIN toHq
    BY <1>1, Takes DEF RelayForwards, TerminalTypes
  <1>3. m.term \in Term /\ m.type \in {"data", "exit"}
        /\ (m.type = "data" => m.last \in Nat /\ m.replay \in BOOLEAN)
    BY <1>2 DEF Outputs
  <1>4. \/ /\ m.type = "data" /\ bindings' = bindings
           /\ seen' = [c \in Tab |-> IF c \in viewers THEN Written(c, m) ELSE seen[c]]
           /\ synced' = IF m.replay THEN synced \cup {c \in viewers : wsWire[c] = << >>} ELSE synced
        \/ /\ m.type = "exit" /\ seen' = seen
           /\ bindings' = [bindings EXCEPT ![m.term] = {}]
           /\ synced' = synced \ viewers
    BY DEF RelayForwards
  <1>5. m.type = "data" => /\ 0 < m.last /\ m.last <= made[m.term] /\ m.last \in 0 .. MaxOutput
                           /\ made[m.term] \in 0 .. MaxOutput
    <2> SUFFICES ASSUME m.type = "data" PROVE /\ 0 < m.last /\ m.last <= made[m.term] /\ m.last \in 0 .. MaxOutput
                                             /\ made[m.term] \in 0 .. MaxOutput
      OBVIOUS
    <2>1. 0 < m.last /\ m.last <= made[m.term]
      BY <1>1, <1>2 DEF OutputInv
    <2>2. made[m.term] \in 0 .. MaxOutput /\ MaxOutput \in Nat
      BY <1>1, <1>3, TerminalsAssumption DEF TerminalTypes
    <2> QED BY <1>3, <2>1, <2>2
  <1> HIDE DEF m, viewers
  <1>v. viewers = {c \in bindings[m.term] : viewing[c] = m.term} /\ viewers \subseteq Tab
    BY <1>1, <1>3 DEF viewers, TerminalTypes
  <1>6. /\ seen' \in [Tab -> 0 .. MaxOutput] /\ SeenInv'
        /\ \A c \in Tab \ viewers : seen'[c] = seen[c]
        /\ m.type = "data" => \A c \in viewers : seen'[c] = Written(c, m)
    <2>1. \A c \in Tab : seen[c] \in 0 .. MaxOutput
      BY <1>1 DEF TerminalTypes
    <2>2. CASE m.type = "data"
      <3>1. seen' = [c \in Tab |-> IF c \in viewers THEN Written(c, m) ELSE seen[c]]
        BY <1>4, <2>2
      <3>2. \A c \in Tab : Written(c, m) \in {m.last, seen[c]}
        BY DEF Written
      <3>3. seen' \in [Tab -> 0 .. MaxOutput]
        BY <1>5, <2>1, <2>2, <3>1, <3>2
      <3>4. SeenInv'
        <4> SUFFICES ASSUME NEW c \in Tab PROVE seen'[c] <= IF viewing[c] \in Term THEN made[viewing[c]] ELSE 0
          BY <1>1 DEF SeenInv
        <4>1. seen[c] <= IF viewing[c] \in Term THEN made[viewing[c]] ELSE 0
          BY <1>1 DEF SeenInv
        <4>2. CASE seen'[c] = seen[c]
          BY <4>1, <4>2
        <4>3. CASE c \in viewers /\ seen'[c] = m.last
          <5>1. viewing[c] = m.term /\ m.last <= made[m.term]
            BY <1>5, <1>v, <2>2, <4>3
          <5> QED BY <1>3, <4>3, <5>1
        <4> QED BY <3>1, <3>2, <4>2, <4>3
      <3>5. \A c \in Tab \ viewers : seen'[c] = seen[c]
        BY <3>1
      <3>6. \A c \in viewers : seen'[c] = Written(c, m)
        BY <1>v, <3>1
      <3> QED BY <3>3, <3>4, <3>5, <3>6
    <2>3. CASE m.type = "exit"
      <3>1. seen' = seen
        BY <1>4, <2>3
      <3> QED BY <1>1, <2>3, <3>1 DEF SeenInv, TerminalTypes
    <2> QED BY <1>3, <2>2, <2>3
  <1>7. /\ synced' \subseteq synced \cup {c \in viewers : wsWire[c] = << >> /\ m.type = "data" /\ m.replay}
        /\ synced' \subseteq Tab
        /\ bindings' \in [Term -> SUBSET Tab] /\ (m.type = "data" => bindings' = bindings)
        /\ m.type = "exit" => /\ synced' = synced \ viewers
                              /\ \A u \in Term : u # m.term => bindings'[u] = bindings[u]
    BY <1>1, <1>3, <1>4, <1>v DEF TerminalTypes
  <1>8. TerminalTypes'
    BY <1>1, <1>2, <1>6, <1>7 DEF TerminalTypes
  <1>9. AskingInv' /\ NewShellInv' /\ LastWordInv'
    BY <1>1, TabsKept DEF TerminalsInv
  <1>10. RingInv'
    BY <1>1 DEF RingInv
  <1>11. OutputInv'
    <2> SUFFICES ASSUME NEW i \in DOMAIN toHq', toHq'[i].type = "data"
                 PROVE  /\ 0 < toHq'[i].last /\ toHq'[i].last <= made[toHq'[i].term]
                        /\ toHq'[i].replay => toHq'[i].term \in Cli
      BY <1>1 DEF OutputInv
    <2>1. i + 1 \in DOMAIN toHq /\ toHq'[i] = toHq[i + 1]
      BY <1>2 DEF Shorter
    <2> QED BY <1>1, <2>1 DEF OutputInv
  <1>12. LinkedInv'
    <2>1. linked
      BY <1>1 DEF LinkedInv, RelayForwards
    <2> QED BY <1>1, <2>1 DEF LinkedInv
  <1>13. \A u \in Term : 1 \in DataOf(toHq, u) <=> m.type = "data" /\ m.term = u
    BY <1>2 DEF DataOf
  <1>14. \A u : 1 \in Latest(toHq, u) <=> 1 \in DataOf(toHq, u) /\ ~Replayed(toHq', u)
    BY <1>2, TakenLatest
  <1>15. \A u, lo, k : 1 \notin Latest(toHq, u) /\ Streams(toHq, u, lo, k) => Streams(toHq', u, lo, k)
    BY <1>2, PassedStreams
  <1>16. \A u, lo, k : 1 \in Latest(toHq, u) /\ Streams(toHq, u, lo, k)
                       => m.last = lo + 1 /\ Streams(toHq', u, lo + 1, k)
    BY <1>2, NextStreams
  <1>17. \A u : 1 \notin DataOf(toHq, u) \/ ~m.replay => (Replayed(toHq', u) <=> Replayed(toHq, u))
    BY <1>2, PassedReplays
  <1>18. StreamInv'
    <2> SUFFICES ASSUME NEW u \in Term, Wanted(u) PROVE \E lo \in Nat : Streams(toHq', u, lo, made[u])
      BY <1>1 DEF StreamInv, Wanted
    <2>1. PICK lo \in Nat : Streams(toHq, u, lo, made[u])
      BY <1>1 DEF StreamInv
    <2>2. CASE 1 \in Latest(toHq, u)
      <3>1. Streams(toHq', u, lo + 1, made[u]) /\ lo + 1 \in Nat
        BY <1>16, <2>1, <2>2
      <3> QED BY <3>1
    <2>3. CASE 1 \notin Latest(toHq, u)
      BY <1>15, <2>1, <2>3
    <2> QED BY <2>2, <2>3
  <1>19. SyncedInv'
    <2> SUFFICES ASSUME NEW c \in synced'
                 PROVE  /\ viewing[c] \in Term /\ wsWire[c] = << >> /\ c \in bindings'[viewing[c]]
                        /\ Wanted(viewing[c]) /\ ~Replayed(toHq', viewing[c])
                           => Streams(toHq', viewing[c], seen'[c], made[viewing[c]])
      BY <1>1 DEF SyncedInv, Wanted
    <2>1. CASE c \in viewers /\ m.type = "data" /\ m.replay /\ wsWire[c] = << >>
      <3>1. viewing[c] = m.term /\ c \in bindings'[viewing[c]]
        BY <1>7, <1>v, <2>1
      <3>2. seen'[c] = m.last
        BY <1>6, <2>1 DEF Written
      <3>3. ASSUME Wanted(m.term), ~Replayed(toHq', m.term)
            PROVE  Streams(toHq', m.term, m.last, made[m.term])
        <4>1. 1 \in Latest(toHq, m.term)
          BY <1>3, <1>13, <1>14, <2>1, <3>3
        <4>2. PICK lo \in Nat : Streams(toHq, m.term, lo, made[m.term])
          BY <1>1, <1>3, <3>3 DEF StreamInv
        <4> QED BY <1>16, <4>1, <4>2
      <3> QED BY <1>3, <2>1, <3>1, <3>2, <3>3
    <2>2. CASE c \in synced /\ ~(c \in viewers /\ m.type = "data" /\ m.replay /\ wsWire[c] = << >>)
      <3>1. /\ viewing[c] \in Term /\ wsWire[c] = << >> /\ c \in bindings[viewing[c]] /\ c \in Tab
            /\ Wanted(viewing[c]) /\ ~Replayed(toHq, viewing[c])
               => Streams(toHq, viewing[c], seen[c], made[viewing[c]])
        BY <1>1, <2>2 DEF SyncedInv, TerminalTypes
      <3>2. CASE viewing[c] # m.term
        <4>1. seen'[c] = seen[c]
          BY <1>6, <1>v, <3>1, <3>2
        <4>2. c \in bindings'[viewing[c]]
          BY <1>3, <1>7, <3>1, <3>2
        <4>3. 1 \notin DataOf(toHq, viewing[c]) /\ 1 \notin Latest(toHq, viewing[c])
          BY <1>13, <1>14, <3>1, <3>2
        <4>4. Replayed(toHq', viewing[c]) <=> Replayed(toHq, viewing[c])
          BY <1>17, <4>3
        <4> QED BY <1>15, <3>1, <4>1, <4>2, <4>3, <4>4
      <3>3. CASE viewing[c] = m.term
        <4>1. c \in viewers
          BY <1>v, <3>1, <3>3
        <4>2. m.type = "data" /\ ~m.replay
          BY <1>3, <1>7, <2>2, <3>1, <4>1
        <4>3. 1 \in DataOf(toHq, m.term)
          BY <1>3, <1>13, <4>2
        <4>4. ASSUME Wanted(m.term), ~Replayed(toHq', m.term)
              PROVE  Streams(toHq', m.term, seen'[c], made[m.term])
          <5>1. 1 \in Latest(toHq, m.term)
            BY <1>14, <4>3, <4>4
          <5>2. ~Replayed(toHq, m.term)
            BY <1>17, <4>2, <4>4
          <5>3. Streams(toHq, m.term, seen[c], made[m.term])
            BY <3>1, <3>3, <4>4, <5>2
          <5>4. m.last = seen[c] + 1 /\ Streams(toHq', m.term, seen[c] + 1, made[m.term])
            BY <1>16, <5>1, <5>3
          <5>5. seen[c] \in Nat
            BY <1>1, <3>1 DEF TerminalTypes
          <5>6. m.last - 1 = seen[c]
            BY <5>4, <5>5
          <5>7. seen'[c] = m.last
            BY <1>6, <4>1, <4>2, <5>6 DEF Written
          <5> QED BY <5>4, <5>7
        <4> QED BY <1>7, <3>1, <3>3, <4>2, <4>4
      <3> QED BY <3>2, <3>3
    <2> QED BY <1>7, <2>1, <2>2
  <1> QED BY <1>6, <1>8, <1>9, <1>10, <1>11, <1>12, <1>18, <1>19 DEF TerminalsInv

(* A queue whose head the relay takes, and what remains.                   *)
LEMMA TailOf ==
  ASSUME NEW S, NEW q \in Seq(S), q # << >>
  PROVE  /\ Tail(q) \in Seq(S) /\ Head(q) = q[1] /\ 1 \in DOMAIN q /\ q[1] \in S
         /\ \A i \in DOMAIN Tail(q) : i + 1 \in DOMAIN q /\ Tail(q)[i] = q[i + 1] /\ i \in Nat \ {0}
         /\ Len(Tail(q)) = Len(q) - 1 /\ Len(q) \in Nat \ {0}
         /\ (Len(q) = 1 => Tail(q) = << >>)
  <1>1. Len(q) \in Nat \ {0} /\ 1 \in DOMAIN q /\ Head(q) = q[1] /\ q[1] \in S
    OBVIOUS
  <1>2. Tail(q) \in Seq(S) /\ Len(Tail(q)) = Len(q) - 1
    OBVIOUS
  <1>3. \A i \in DOMAIN Tail(q) : i + 1 \in DOMAIN q /\ Tail(q)[i] = q[i + 1] /\ i \in Nat \ {0}
    OBVIOUS
  <1>4. Len(q) = 1 => Tail(q) = << >>
    <2>1. \A r \in Seq(S) : Len(r) = 0 => r = << >>
      OBVIOUS
    <2>2. \A r : r = Tail(q) => r \in Seq(S) /\ (Len(q) = 1 => Len(r) = 0)
      BY <1>2
    <2> QED BY <2>1, <2>2, Zenon
  <1> QED BY <1>1, <1>2, <1>3, <1>4

LEMMA RelayJoinsLeavesKeeps ==
  ASSUME TerminalsInv, NEW c \in Tab, RelayJoinsLeaves(c)
  PROVE  TerminalsInv'
  <1> DEFINE op == Head(wsWire[c])[1]
             t == Head(wsWire[c])[2]
             starts == op = "join" /\ t \in Shell /\ viewing[c] = t /\ pty[t] # "gone"
  <1>1. /\ TerminalTypes /\ RingInv /\ OutputInv /\ SeenInv /\ StreamInv /\ SyncedInv /\ LinkedInv
        /\ AskingInv /\ NewShellInv /\ LastWordInv
        /\ UNCHANGED <<pty, made, ringBuffer, attached, toDaemon, toHq, linked, issued, tracker, posts, spawned,
                       viewing, resumeTimer>>
        /\ wsWire[c] # << >> /\ wsWire' = [wsWire EXCEPT ![c] = Tail(wsWire[c])]
        /\ bindings' = [bindings EXCEPT ![t] = IF op = "join" THEN @ \cup {c} ELSE @ \ {c}]
        /\ synced' = IF starts /\ linked THEN synced \cup {c} ELSE synced
    BY DEF TerminalsInv, RelayJoinsLeaves, daemonTermVars, wireTermVars
  <1>2. /\ wsWire[c] \in Seq({"join", "leave"} \X Term)
        /\ Tail(wsWire[c]) \in Seq({"join", "leave"} \X Term) /\ Head(wsWire[c]) = wsWire[c][1]
        /\ 1 \in DOMAIN wsWire[c] /\ wsWire[c][1] \in {"join", "leave"} \X Term
        /\ \A i \in DOMAIN Tail(wsWire[c]) :
              i + 1 \in DOMAIN wsWire[c] /\ Tail(wsWire[c])[i] = wsWire[c][i + 1] /\ i \in Nat \ {0}
        /\ Len(Tail(wsWire[c])) = Len(wsWire[c]) - 1 /\ Len(wsWire[c]) \in Nat \ {0}
        /\ (Len(wsWire[c]) = 1 => Tail(wsWire[c]) = << >>)
    <2>1. wsWire[c] \in Seq({"join", "leave"} \X Term)
      BY <1>1 DEF TerminalTypes
    <2> QED BY <1>1, <2>1, TailOf
  <1>3. op \in {"join", "leave"} /\ t \in Term /\ wsWire[c][1] = <<op, t>>
    BY <1>2
  <1>4. /\ wsWire' \in [Tab -> Seq({"join", "leave"} \X Term)] /\ wsWire'[c] = Tail(wsWire[c])
        /\ \A d \in Tab \ {c} : wsWire'[d] = wsWire[d]
    BY <1>1, <1>2 DEF TerminalTypes
  <1>5. ASSUME t \in Shell
        PROVE  \E lo \in Nat : /\ Streams(toHq, t, lo, made[t]) /\ ~Replayed(toHq, t)
                               /\ lo = made[t] - Cardinality({i \in DOMAIN toHq : toHq[i].type = "data" /\ toHq[i].term = t})
                               /\ lo <= made[t] /\ lo \in 0 .. MaxOutput
    <2>1. ~Replayed(toHq, t)
      <3>1. t \notin Cli
        BY <1>5, TerminalsAssumption
      <3> QED BY <1>1, <3>1 DEF OutputInv, Replayed, DataOf
    <2>2. PICK lo \in Nat : Streams(toHq, t, lo, made[t])
      BY <1>1, <1>3, <1>5 DEF StreamInv, Wanted
    <2>3. Cardinality(DataOf(toHq, t)) = made[t] - lo
      BY <1>1, <2>1, <2>2, StreamCounts DEF TerminalTypes
    <2>4. made[t] \in 0 .. MaxOutput /\ lo <= made[t] /\ MaxOutput \in Nat
      BY <1>1, <1>3, <2>2, TerminalsAssumption DEF Streams, TerminalTypes
    <2>5. lo = made[t] - Cardinality(DataOf(toHq, t)) /\ lo \in 0 .. MaxOutput
      BY <2>3, <2>4
    <2> QED BY <2>1, <2>2, <2>4, <2>5 DEF DataOf
  <1>6. seen' = IF starts THEN [seen EXCEPT ![c] = made[t] - Cardinality({i \in DOMAIN toHq : toHq[i].type = "data" /\ toHq[i].term = t})]
                ELSE seen
    BY DEF RelayJoinsLeaves
  <1> HIDE DEF op, t
  <1>7. /\ seen' \in [Tab -> 0 .. MaxOutput] /\ SeenInv'
        /\ \A d \in Tab \ {c} : seen'[d] = seen[d]
        /\ starts => ~Replayed(toHq, t) /\ Streams(toHq, t, seen'[c], made[t])
    <2>1. CASE starts
      <3>1. PICK lo \in Nat : /\ Streams(toHq, t, lo, made[t]) /\ ~Replayed(toHq, t)
                              /\ seen' = [seen EXCEPT ![c] = lo] /\ lo <= made[t] /\ lo \in 0 .. MaxOutput
        BY <1>5, <1>6, <2>1
      <3>2. /\ seen' \in [Tab -> 0 .. MaxOutput] /\ seen'[c] = lo /\ \A d \in Tab \ {c} : seen'[d] = seen[d]
        BY <1>1, <3>1 DEF TerminalTypes
      <3>3. SeenInv'
        BY <1>1, <1>3, <2>1, <3>1, <3>2 DEF SeenInv
      <3> QED BY <3>1, <3>2, <3>3
    <2>2. CASE ~starts
      BY <1>1, <1>6, <2>2 DEF SeenInv, TerminalTypes
    <2> QED BY <2>1, <2>2
  <1>8. /\ bindings' \in [Term -> SUBSET Tab]
        /\ \A d \in Tab \ {c}, u \in Term : d \in bindings[u] => d \in bindings'[u]
        /\ starts => c \in bindings'[t]
    BY <1>1, <1>3 DEF TerminalTypes
  <1>9. TerminalTypes'
    BY <1>1, <1>4, <1>7, <1>8 DEF TerminalTypes
  <1>10. AskingInv'
    BY <1>1 DEF AskingInv
  <1>11. \A d \in Tab : \A i \in DOMAIN wsWire'[d] : \E j \in DOMAIN wsWire[d] : wsWire'[d][i] = wsWire[d][j]
    <2> SUFFICES ASSUME NEW d \in Tab, NEW i \in DOMAIN wsWire'[d]
                 PROVE  \E j \in DOMAIN wsWire[d] : wsWire'[d][i] = wsWire[d][j]
      OBVIOUS
    <2>1. CASE d = c
      <3>1. i + 1 \in DOMAIN wsWire[c] /\ wsWire'[c][i] = wsWire[c][i + 1]
        BY <1>2, <1>4, <2>1
      <3> QED BY <2>1, <3>1
    <2>2. CASE d # c
      <3>1. wsWire'[d] = wsWire[d]
        BY <1>4, <2>2
      <3> QED BY <3>1
    <2> QED BY <2>1, <2>2
  <1>12. NewShellInv'
    <2>1. \A d \in Tab : \A i \in DOMAIN wsWire'[d] : wsWire'[d][i][2] \in Shell => wsWire'[d][i][2] \in issued
      BY <1>1, <1>11 DEF NewShellInv
    <2>2. \A owner \in Tab, u \in Shell, d \in Tab : <<owner, u>> \in spawned =>
             viewing[d] # u /\ \A i \in DOMAIN wsWire'[d] : wsWire'[d][i][2] # u
      BY <1>1, <1>11 DEF NewShellInv
    <2> QED BY <1>1, <2>1, <2>2 DEF NewShellInv
  <1>13. LastWordInv'
    <2> SUFFICES ASSUME NEW d \in Tab, viewing[d] \in Shell, NEW i \in DOMAIN wsWire'[d],
                        wsWire'[d][i] = <<"join", viewing[d]>>
                 PROVE  i = Len(wsWire'[d])
      BY <1>1 DEF LastWordInv
    <2>1. CASE d = c
      <3>1. i + 1 \in DOMAIN wsWire[c] /\ wsWire[c][i + 1] = <<"join", viewing[c]>> /\ i \in Nat \ {0}
        BY <1>2, <1>4, <2>1
      <3>2. i + 1 = Len(wsWire[c])
        BY <1>1, <2>1, <3>1 DEF LastWordInv
      <3> QED BY <1>2, <1>4, <2>1, <3>1, <3>2
    <2>2. CASE d # c
      BY <1>1, <1>4, <2>2 DEF LastWordInv
    <2> QED BY <2>1, <2>2
  <1>14. RingInv' /\ OutputInv' /\ StreamInv'
    BY <1>1, OutputKept
  <1>15. SyncedInv'
    <2> SUFFICES ASSUME NEW d \in synced'
                 PROVE  /\ viewing[d] \in Term /\ wsWire'[d] = << >> /\ d \in bindings'[viewing[d]]
                        /\ Wanted(viewing[d]) /\ ~Replayed(toHq, viewing[d])
                           => Streams(toHq, viewing[d], seen'[d], made[viewing[d]])
      BY <1>1 DEF SyncedInv, Wanted
    <2>1. CASE d \in synced
      <3>1. /\ d \in Tab /\ viewing[d] \in Term /\ wsWire[d] = << >> /\ d \in bindings[viewing[d]]
            /\ Wanted(viewing[d]) /\ ~Replayed(toHq, viewing[d])
               => Streams(toHq, viewing[d], seen[d], made[viewing[d]])
        BY <1>1, <2>1 DEF SyncedInv, TerminalTypes
      <3>2. d # c
        BY <1>1, <3>1
      <3> QED BY <1>4, <1>7, <1>8, <3>1, <3>2
    <2>2. CASE d = c /\ starts
      <3>1. viewing[c] = t /\ t \in Term /\ t \in Shell /\ wsWire[c][1] = <<"join", t>>
        BY <1>3, <2>2
      <3>2. Len(wsWire[c]) = 1
        BY <1>1, <1>2, <3>1 DEF LastWordInv
      <3>3. wsWire'[c] = << >>
        BY <1>2, <1>4, <3>2
      <3> QED BY <1>7, <1>8, <2>2, <3>1, <3>3
    <2> QED BY <1>1, <2>1, <2>2
  <1>16. LinkedInv'
    BY <1>1 DEF LinkedInv
  <1> QED BY <1>7, <1>9, <1>10, <1>12, <1>13, <1>14, <1>15, <1>16 DEF TerminalsInv

-----------------------------------------------------------------------------
(* The routes.                                                             *)
LEMMA RouteHandlesKeeps ==
  ASSUME TerminalsInv, NEW p \in posts, RouteHandles(p)
  PROVE  TerminalsInv'
  <1>1. /\ TerminalTypes /\ RingInv /\ OutputInv /\ SeenInv /\ StreamInv /\ SyncedInv /\ LinkedInv
        /\ AskingInv /\ NewShellInv /\ LastWordInv
        /\ UNCHANGED <<pty, made, ringBuffer, attached, toHq, linked, bindings, wsWire, viewing, resumeTimer, seen, synced>>
        /\ posts' = posts \ {p}
    BY DEF TerminalsInv, RouteHandles, daemonTermVars
  <1>2. p \in Requests /\ posts \subseteq Requests
    BY <1>1 DEF TerminalTypes
  <1>3. RingInv' /\ OutputInv' /\ StreamInv'
    BY <1>1, OutputKept
  <1>4. SeenInv' /\ SyncedInv' /\ LinkedInv'
    BY <1>1 DEF SeenInv, SyncedInv, LinkedInv, Wanted
  <1>5. LastWordInv'
    BY <1>1 DEF LastWordInv
  <1>6. CASE UNCHANGED <<issued, spawned>> /\ tracker' \in {tracker, tracker \ {p.term}}
             /\ (toDaemon' = toDaemon \/ (p.op # "spawn" /\ toDaemon' = Append(toDaemon, p)))
    <2>1. p.op # "spawn" => p \in ShellCommands
      BY <1>2 DEF Requests, ShellCommands
    <2>2. toDaemon' \in Seq(ShellCommands)
      <3>1. toDaemon \in Seq(ShellCommands)
        BY <1>1 DEF TerminalTypes
      <3>2. p \in ShellCommands => Append(toDaemon, p) \in Seq(ShellCommands)
        BY <3>1
      <3> QED BY <1>6, <2>1, <3>1, <3>2
    <2>3. TerminalTypes'
      BY <1>1, <1>6, <2>2 DEF TerminalTypes
    <2>4. AskingInv' /\ NewShellInv'
      BY <1>1, <1>6 DEF AskingInv, NewShellInv
    <2> QED BY <1>3, <1>4, <1>5, <2>3, <2>4 DEF TerminalsInv
  <1>7. ASSUME NEW t \in Shell \ issued, p.op = "spawn", issued' = issued \cup {t}, tracker' = tracker \cup {t},
               toDaemon' = Append(toDaemon, [p EXCEPT !.term = t]),
               spawned' = IF p.tab = Nothing THEN spawned ELSE spawned \cup {<<p.tab, t>>}
        PROVE  TerminalsInv'
    <2>1. [p EXCEPT !.term = t] \in ShellCommands /\ p.tab \in Tab \cup {Nothing}
      BY <1>2, <1>7 DEF Requests, ShellCommands, Term
    <2>2. spawned' \subseteq Tab \X Shell
      BY <1>1, <1>7, <2>1 DEF TerminalTypes
    <2>3. TerminalTypes'
      BY <1>1, <1>7, <2>1, <2>2 DEF TerminalTypes
    <2>4. /\ \A c \in Tab : viewing[c] # t /\ \A i \in DOMAIN wsWire[c] : wsWire[c][i][2] # t
          /\ \A c \in Tab : <<c, t>> \notin spawned
      BY <1>1, <1>7 DEF NewShellInv, AskingInv
    <2>5. \A c \in Tab, u \in Shell : <<c, u>> \in spawned' => <<c, u>> \in spawned \/ (c = p.tab /\ u = t /\ p.tab # Nothing)
      BY <1>7
    <2>6. p.tab # Nothing => viewing[p.tab] = Waiting /\ \A u \in Shell : <<p.tab, u>> \notin spawned
      BY <1>1, <1>7 DEF AskingInv
    <2>7. \A r \in posts' : r.op = "spawn" /\ r.tab # Nothing => r.tab # p.tab
      <3> SUFFICES ASSUME NEW r \in posts', r.op = "spawn", r.tab = p.tab PROVE FALSE
        OBVIOUS
      <3>1. r \in Requests /\ r # p
        BY <1>1, <1>2
      <3>2. r.term = Waiting /\ p.term = Waiting
        BY <1>2, <1>7, <3>1 DEF Requests
      <3> QED BY <1>2, <1>7, <3>1, <3>2 DEF Requests
    <2>8. AskingInv'
      <3>1. \A c \in Tab : resumeTimer'[c] => viewing'[c] \in Cli
        BY <1>1 DEF AskingInv
      <3>2. \A r \in posts' : r.op = "spawn" /\ r.tab # Nothing =>
               viewing'[r.tab] = Waiting /\ \A u \in Shell : <<r.tab, u>> \notin spawned'
        <4> SUFFICES ASSUME NEW r \in posts', r.op = "spawn", r.tab # Nothing
                     PROVE  viewing[r.tab] = Waiting /\ \A u \in Shell : <<r.tab, u>> \notin spawned'
          BY <1>1
        <4>1. viewing[r.tab] = Waiting /\ \A u \in Shell : <<r.tab, u>> \notin spawned
          BY <1>1 DEF AskingInv
        <4>2. r.tab # p.tab
          BY <2>7
        <4> QED BY <1>7, <4>1, <4>2
      <3>3. ASSUME NEW c \in Tab, NEW u \in Shell, <<c, u>> \in spawned'
            PROVE  /\ viewing[c] = Waiting /\ u \in issued'
                   /\ \A v \in Shell : <<c, v>> \in spawned' => v = u
                   /\ \A d \in Tab : <<d, u>> \in spawned' => d = c
        <4>1. CASE <<c, u>> \in spawned
          <5>1. /\ viewing[c] = Waiting /\ u \in issued
                /\ \A v \in Shell : <<c, v>> \in spawned => v = u
                /\ \A d \in Tab : <<d, u>> \in spawned => d = c
            BY <1>1, <4>1 DEF AskingInv
          <5> QED BY <1>7, <2>4, <2>5, <2>6, <4>1, <5>1
        <4>2. CASE c = p.tab /\ u = t /\ p.tab # Nothing
          BY <1>7, <2>4, <2>5, <2>6, <4>2
        <4> QED BY <2>5, <3>3, <4>1, <4>2
      <3> QED BY <1>1, <3>1, <3>2, <3>3 DEF AskingInv
    <2>9. NewShellInv'
      <3>1. \A c \in Tab : viewing'[c] \in Shell => viewing'[c] \in issued'
        BY <1>1, <1>7 DEF NewShellInv
      <3>2. \A c \in Tab : \A i \in DOMAIN wsWire'[c] : wsWire'[c][i][2] \in Shell => wsWire'[c][i][2] \in issued'
        BY <1>1, <1>7 DEF NewShellInv
      <3>3. \A c \in Tab, u \in Shell, d \in Tab : <<c, u>> \in spawned' =>
               viewing'[d] # u /\ \A i \in DOMAIN wsWire'[d] : wsWire'[d][i][2] # u
        BY <1>1, <2>4, <2>5 DEF NewShellInv
      <3> QED BY <3>1, <3>2, <3>3 DEF NewShellInv
    <2> QED BY <1>3, <1>4, <1>5, <2>3, <2>8, <2>9 DEF TerminalsInv
  <1>8. \/ UNCHANGED <<toDaemon, issued, tracker, spawned>>
        \/ /\ p.op # "spawn" /\ UNCHANGED <<issued, spawned>>
           /\ toDaemon' = Append(toDaemon, p)
           /\ tracker' = IF p.op = "kill" THEN tracker \ {p.term} ELSE tracker
        \/ /\ p.op = "spawn"
           /\ \E t \in Shell \ issued :
                 /\ issued' = issued \cup {t} /\ toDaemon' = Append(toDaemon, [p EXCEPT !.term = t])
                 /\ tracker' = tracker \cup {t}
                 /\ spawned' = IF p.tab = Nothing THEN spawned ELSE spawned \cup {<<p.tab, t>>}
    BY DEF RouteHandles
  <1>9. CASE UNCHANGED <<toDaemon, issued, tracker, spawned>>
    BY <1>6, <1>9
  <1>10. CASE /\ p.op # "spawn" /\ UNCHANGED <<issued, spawned>>
              /\ toDaemon' = Append(toDaemon, p)
              /\ tracker' = IF p.op = "kill" THEN tracker \ {p.term} ELSE tracker
    <2>1. tracker' \in {tracker, tracker \ {p.term}}
      BY <1>10
    <2> QED BY <1>6, <1>10, <2>1
  <1> QED BY <1>7, <1>8, <1>9, <1>10

-----------------------------------------------------------------------------
(* The users and the tabs.                                                 *)
LEMMA ConcatTypes ==
  ASSUME NEW S, NEW q \in Seq(S), NEW r \in Seq(S), NEW s \in Seq(S)
  PROVE  q \o r \o s \in Seq(S)
  OBVIOUS

LEMMA RestrictTypes ==
  ASSUME NEW S, NEW T, NEW q \in Seq(S), \A i \in DOMAIN q : q[i] \in T
  PROVE  q \in Seq(T)
  OBVIOUS

(* What a tab says when it changes: only of terminals there were, and of   *)
(* no shell that is still to be shown.                                     *)
LEMMA SaysKnown ==
  ASSUME TerminalTypes, NewShellInv, NEW c \in Tab, NEW joins \in Seq({"join"} \X Cli)
  PROVE  LET words == wsWire[c] \o LeaveMessages(c) \o joins
         IN /\ words \in Seq({"join", "leave"} \X Term)
            /\ \A i \in DOMAIN words : words[i][2] \in Shell =>
                  /\ words[i][2] \in issued
                  /\ \A owner \in Tab : <<owner, words[i][2]>> \notin spawned
  <1> DEFINE Known == {w \in {"join", "leave"} \X Term : w[2] \in Shell =>
                          w[2] \in issued /\ \A owner \in Tab : <<owner, w[2]>> \notin spawned}
  <1>1. wsWire[c] \in Seq(Known)
    <2>1. wsWire[c] \in Seq({"join", "leave"} \X Term)
      BY DEF TerminalTypes
    <2>2. \A i \in DOMAIN wsWire[c] : wsWire[c][i] \in {"join", "leave"} \X Term
      BY <2>1
    <2>3. \A i \in DOMAIN wsWire[c] : wsWire[c][i] \in Known
      BY <2>2 DEF NewShellInv
    <2> QED BY <2>1, <2>3, RestrictTypes
  <1>2. LeaveMessages(c) \in Seq(Known)
    <2>1. CASE viewing[c] \in Term
      <3>1. <<"leave", viewing[c]>> \in Known
        <4>1. viewing[c] \in Shell => viewing[c] \in issued /\ \A owner \in Tab : <<owner, viewing[c]>> \notin spawned
          BY DEF NewShellInv
        <4> QED BY <2>1, <4>1
      <3> HIDE DEF Known
      <3> QED BY <2>1, <3>1 DEF LeaveMessages
    <2>2. CASE viewing[c] \notin Term
      BY <2>2 DEF LeaveMessages
    <2> QED BY <2>1, <2>2
  <1>3. joins \in Seq(Known)
    <2>1. \A i \in DOMAIN joins : joins[i] \in {"join"} \X Cli
      OBVIOUS
    <2>2. \A i \in DOMAIN joins : joins[i] \in Known
      BY <2>1, TerminalsAssumption DEF Term
    <2> QED BY <2>2, RestrictTypes
  <1>4. \A w \in Known : /\ w \in {"join", "leave"} \X Term
                         /\ w[2] \in Shell => w[2] \in issued /\ \A owner \in Tab : <<owner, w[2]>> \notin spawned
    OBVIOUS
  <1> HIDE DEF Known
  <1> DEFINE words == wsWire[c] \o LeaveMessages(c) \o joins
  <1>5. words \in Seq(Known)
    BY <1>1, <1>2, <1>3, ConcatTypes
  <1> HIDE DEF words
  <1>6. \A i \in DOMAIN words : words[i] \in Known
    BY <1>5
  <1>7. words \in Seq({"join", "leave"} \X Term)
    BY <1>4, <1>5, <1>6, RestrictTypes
  <1> QED BY <1>4, <1>6, <1>7 DEF words

LEMMA ShowKeeps ==
  ASSUME TerminalsInv, NEW c \in Tab, NEW t \in Cli \cup {Nothing, Waiting},
         NEW joins \in Seq({"join"} \X Cli),
         NEW requests \in SUBSET Requests, \A p \in requests : p.op = "spawn" => t = Waiting /\ p.tab = c,
         viewing[c] # Waiting \/ t # Waiting,
         Show(c, t, joins, requests)
  PROVE  TerminalsInv'
  <1> DEFINE words == wsWire[c] \o LeaveMessages(c) \o joins
  <1>1. /\ TerminalTypes /\ RingInv /\ OutputInv /\ SeenInv /\ StreamInv /\ SyncedInv /\ LinkedInv
        /\ AskingInv /\ NewShellInv /\ LastWordInv
        /\ UNCHANGED <<pty, made, ringBuffer, attached, toDaemon, toHq, linked, issued, tracker, bindings>>
        /\ viewing' = [viewing EXCEPT ![c] = t]
        /\ wsWire' = [wsWire EXCEPT ![c] = words]
        /\ posts' = Cancelled(c) \cup LeavePosts(c) \cup requests
        /\ spawned' = {p \in spawned : p[1] # c}
        /\ resumeTimer' = [resumeTimer EXCEPT ![c] = t \in Cli]
        /\ seen' = [seen EXCEPT ![c] = 0] /\ synced' = synced \ {c}
    BY DEF TerminalsInv, Show, daemonTermVars, wireTermVars, hqTermVars
  <1>2. /\ words \in Seq({"join", "leave"} \X Term)
        /\ \A i \in DOMAIN words : words[i][2] \in Shell =>
              words[i][2] \in issued /\ \A owner \in Tab : <<owner, words[i][2]>> \notin spawned
    BY <1>1, SaysKnown
  <1> HIDE DEF words
  <1>3. /\ viewing' \in [Tab -> Term \cup {Nothing, Waiting}] /\ viewing'[c] = t
        /\ wsWire' \in [Tab -> Seq({"join", "leave"} \X Term)] /\ wsWire'[c] = words
        /\ resumeTimer' \in [Tab -> BOOLEAN] /\ resumeTimer'[c] = (t \in Cli)
        /\ seen' \in [Tab -> 0 .. MaxOutput] /\ seen'[c] = 0
        /\ \A d \in Tab \ {c} : /\ viewing'[d] = viewing[d] /\ wsWire'[d] = wsWire[d]
                                /\ resumeTimer'[d] = resumeTimer[d] /\ seen'[d] = seen[d]
    BY <1>1, <1>2, TerminalsAssumption DEF TerminalTypes, Term
  <1>4. t \notin Shell
    BY TerminalsAssumption
  <1>5. /\ Cancelled(c) \subseteq Requests
        /\ \A p \in Cancelled(c) : p.op = "spawn" /\ p.tab # Nothing => p \in posts /\ p.tab # c
    <2> SUFFICES ASSUME NEW q \in posts, NEW p, p = IF q.op = "spawn" /\ q.tab = c THEN [q EXCEPT !.tab = Nothing] ELSE q
                 PROVE  p \in Requests /\ (p.op = "spawn" /\ p.tab # Nothing => p \in posts /\ p.tab # c)
      BY DEF Cancelled
    <2>1. q \in Requests
      BY <1>1 DEF TerminalTypes
    <2>2. CASE q.op = "spawn" /\ q.tab = c
      BY <2>1, <2>2 DEF Requests
    <2>3. CASE ~(q.op = "spawn" /\ q.tab = c)
      BY <2>1, <2>3
    <2> QED BY <2>2, <2>3
  <1>6. LeavePosts(c) \subseteq Requests /\ \A p \in LeavePosts(c) : p.op # "spawn"
    <2>1. viewing[c] \in Cli => HttpPost("disconnect", c, viewing[c]) \in Requests
      BY DEF HttpPost, Requests, PostOps, Term
    <2>2. viewing[c] \in Shell => HttpPost("kill", c, viewing[c]) \in Requests
      BY DEF HttpPost, Requests, PostOps, Term
    <2> QED BY <2>1, <2>2 DEF LeavePosts, HttpPost
  <1>7. TerminalTypes'
    BY <1>1, <1>3, <1>5, <1>6 DEF TerminalTypes
  <1>8. AskingInv'
    <2>1. \A d \in Tab : resumeTimer'[d] => viewing'[d] \in Cli
      BY <1>1, <1>3 DEF AskingInv
    <2>2. \A d \in Tab, u \in Shell : <<d, u>> \in spawned' => <<d, u>> \in spawned /\ d # c
      BY <1>1
    <2>3. ASSUME NEW p \in posts', p.op = "spawn", p.tab # Nothing
          PROVE  viewing'[p.tab] = Waiting /\ \A u \in Shell : <<p.tab, u>> \notin spawned'
      <3>1. CASE p \in requests
        BY <1>3, <2>2, <2>3, <3>1
      <3>2. CASE p \in posts /\ p.tab # c
        <4>1. viewing[p.tab] = Waiting /\ \A u \in Shell : <<p.tab, u>> \notin spawned
          BY <1>1, <2>3, <3>2 DEF AskingInv
        <4>2. p.tab \in Tab
          BY <1>1, <2>3, <3>2 DEF TerminalTypes, Requests
        <4> QED BY <1>1, <1>3, <3>2, <4>1, <4>2
      <3> QED BY <1>1, <1>5, <1>6, <2>3, <3>1, <3>2
    <2>4. \A d \in Tab, u \in Shell : <<d, u>> \in spawned' =>
            /\ viewing'[d] = Waiting /\ u \in issued'
            /\ \A v \in Shell : <<d, v>> \in spawned' => v = u
            /\ \A owner \in Tab : <<owner, u>> \in spawned' => owner = d
      BY <1>1, <1>3, <2>2 DEF AskingInv
    <2> QED BY <2>1, <2>3, <2>4 DEF AskingInv
  <1>9. NewShellInv'
    <2>1. \A d \in Tab : viewing'[d] \in Shell => viewing'[d] \in issued'
      BY <1>1, <1>3, <1>4 DEF NewShellInv
    <2>2. \A d \in Tab : \A i \in DOMAIN wsWire'[d] : wsWire'[d][i][2] \in Shell => wsWire'[d][i][2] \in issued'
      BY <1>1, <1>2, <1>3 DEF NewShellInv
    <2>3. \A owner \in Tab, u \in Shell, d \in Tab : <<owner, u>> \in spawned' =>
            viewing'[d] # u /\ \A i \in DOMAIN wsWire'[d] : wsWire'[d][i][2] # u
      BY <1>1, <1>2, <1>3, <1>4 DEF NewShellInv
    <2> QED BY <2>1, <2>2, <2>3 DEF NewShellInv
  <1>10. LastWordInv'
    BY <1>1, <1>3, <1>4 DEF LastWordInv
  <1>11. RingInv' /\ OutputInv' /\ StreamInv'
    BY <1>1, OutputKept
  <1>12. SeenInv'
    <2>1. \A u \in Term : made[u] \in 0 .. MaxOutput
      BY <1>1 DEF TerminalTypes
    <2> QED BY <1>1, <1>3, <2>1, TerminalsAssumption DEF SeenInv
  <1>13. SyncedInv' /\ LinkedInv'
    BY <1>1, <1>3 DEF SyncedInv, LinkedInv, Wanted, TerminalTypes
  <1> QED BY <1>7, <1>8, <1>9, <1>10, <1>11, <1>12, <1>13 DEF TerminalsInv

LEMMA SelectionsKeep ==
  ASSUME TerminalsInv, NEW c \in Tab,
         (\E t \in Cli : SelectSession(c, t)) \/ OpenTerminal(c) \/ CloseTerminal(c)
  PROVE  TerminalsInv'
  <1>1. CASE \E t \in Cli : SelectSession(c, t)
    <2>1. PICK t \in Cli : SelectSession(c, t)
      BY <1>1
    <2>2. <<<<"join", t>>>> \in Seq({"join"} \X Cli)
      OBVIOUS
    <2>3. HttpPost("resume", c, t) \in Requests /\ HttpPost("resume", c, t).op # "spawn"
      BY DEF HttpPost, Requests, PostOps, Term
    <2>4. t # Waiting
      BY TerminalsAssumption
    <2>5. Show(c, t, <<<<"join", t>>>>, {HttpPost("resume", c, t)})
      BY <2>1 DEF SelectSession
    <2> DEFINE requests == {HttpPost("resume", c, t)}
    <2>6. requests \in SUBSET Requests /\ \A p \in requests : p.op # "spawn"
      BY <2>3
    <2> HIDE DEF requests
    <2>7. Show(c, t, <<<<"join", t>>>>, requests)
      BY <2>5 DEF requests
    <2> QED BY <2>2, <2>4, <2>6, <2>7, ShowKeeps
  <1>2. CASE OpenTerminal(c)
    <2>1. << >> \in Seq({"join"} \X Cli)
      OBVIOUS
    <2>2. HttpPost("spawn", c, Waiting) \in Requests /\ HttpPost("spawn", c, Waiting).tab = c
      BY DEF HttpPost, Requests, PostOps
    <2> DEFINE requests == {HttpPost("spawn", c, Waiting)}
    <2>3. requests \in SUBSET Requests /\ \A p \in requests : p.tab = c
      BY <2>2
    <2>4. viewing[c] # Waiting /\ Show(c, Waiting, << >>, requests)
      BY <1>2 DEF OpenTerminal
    <2> HIDE DEF requests
    <2> QED BY <2>1, <2>3, <2>4, ShowKeeps
  <1>3. CASE CloseTerminal(c)
    <2>1. << >> \in Seq({"join"} \X Cli)
      OBVIOUS
    <2>2. Nothing # Waiting
      BY TerminalsAssumption
    <2>3. Show(c, Nothing, << >>, {})
      BY <1>3 DEF CloseTerminal
    <2> DEFINE requests == {}
    <2>4. requests \in SUBSET Requests /\ \A p \in requests : FALSE
      OBVIOUS
    <2>5. Show(c, Nothing, << >>, requests)
      BY <2>3
    <2> HIDE DEF requests
    <2> QED BY <2>1, <2>2, <2>4, <2>5, ShowKeeps
  <1> QED BY <1>1, <1>2, <1>3

(* More requests, none of them a spawn.                                    *)
LEMMA RequestsKeep ==
  ASSUME TerminalsInv,
         NEW p \in Requests, p.op # "spawn", posts' = posts \cup {p},
         \A c \in Tab : resumeTimer'[c] => resumeTimer[c], resumeTimer' \in [Tab -> BOOLEAN],
         UNCHANGED <<daemonTermVars, wireTermVars, hqTermVars, wsWire, spawned, viewing, seen, synced>>
  PROVE  TerminalsInv'
  <1> USE DEF daemonTermVars, wireTermVars, hqTermVars
  <1>1. TerminalTypes'
    BY DEF TerminalsInv, TerminalTypes
  <1>2. AskingInv' /\ NewShellInv' /\ LastWordInv'
    BY DEF TerminalsInv, AskingInv, NewShellInv, LastWordInv
  <1>3. RingInv' /\ OutputInv' /\ StreamInv'
    BY OutputKept DEF TerminalsInv
  <1>4. SeenInv' /\ SyncedInv' /\ LinkedInv'
    BY DEF TerminalsInv, SeenInv, SyncedInv, LinkedInv, Wanted
  <1> QED BY <1>1, <1>2, <1>3, <1>4 DEF TerminalsInv

LEMMA ResumeDelayOverKeeps ==
  ASSUME TerminalsInv, NEW c \in Tab, ResumeDelayOver(c)
  PROVE  TerminalsInv'
  <1>1. viewing[c] \in Cli /\ resumeTimer \in [Tab -> BOOLEAN] /\ resumeTimer' = [resumeTimer EXCEPT ![c] = FALSE]
    BY DEF ResumeDelayOver, TerminalsInv, AskingInv, TerminalTypes
  <1>2. HttpPost("resume", c, viewing[c]) \in Requests /\ HttpPost("resume", c, viewing[c]).op # "spawn"
    BY <1>1 DEF HttpPost, Requests, PostOps, Term
  <1>3. resumeTimer' \in [Tab -> BOOLEAN] /\ \A d \in Tab : resumeTimer'[d] => resumeTimer[d]
    BY <1>1
  <1> QED BY <1>2, <1>3, RequestsKeep DEF ResumeDelayOver

LEMMA DeleteSessionKeeps ==
  ASSUME TerminalsInv, NEW t \in Cli, DeleteSession(t)
  PROVE  TerminalsInv'
  <1>1. PICK c \in Tab : posts' = posts \cup {HttpPost("delete", c, t)}
    BY DEF DeleteSession
  <1>2. HttpPost("delete", c, t) \in Requests /\ HttpPost("delete", c, t).op # "spawn"
    BY DEF HttpPost, Requests, PostOps, Term
  <1>3. resumeTimer' = resumeTimer /\ resumeTimer \in [Tab -> BOOLEAN]
    BY DEF DeleteSession, TerminalsInv, TerminalTypes
  <1> QED BY <1>1, <1>2, <1>3, RequestsKeep DEF DeleteSession

LEMMA SpawnAnsweredKeeps ==
  ASSUME TerminalsInv, NEW c \in Tab, NEW t \in Shell, SpawnAnswered(c, t)
  PROVE  TerminalsInv'
  <1> DEFINE words == Append(wsWire[c], <<"join", t>>)
  <1>1. /\ TerminalTypes /\ RingInv /\ OutputInv /\ SeenInv /\ StreamInv /\ SyncedInv /\ LinkedInv
        /\ AskingInv /\ NewShellInv /\ LastWordInv
        /\ UNCHANGED <<pty, made, ringBuffer, attached, toDaemon, toHq, linked, issued, tracker, bindings,
                       posts, resumeTimer, seen, synced>>
        /\ <<c, t>> \in spawned /\ spawned' = spawned \ {<<c, t>>}
        /\ viewing' = [viewing EXCEPT ![c] = t]
        /\ wsWire' = [wsWire EXCEPT ![c] = words]
    BY DEF TerminalsInv, SpawnAnswered, daemonTermVars, wireTermVars, hqTermVars
  <1>2. /\ wsWire[c] \in Seq({"join", "leave"} \X Term) /\ t \in Term /\ <<"join", t>> \in {"join", "leave"} \X Term
    BY <1>1 DEF TerminalTypes, Term
  <1>3. /\ words \in Seq({"join", "leave"} \X Term)
        /\ Len(words) = Len(wsWire[c]) + 1
        /\ \A i \in DOMAIN words : IF i = Len(words) THEN words[i] = <<"join", t>>
                                   ELSE i \in DOMAIN wsWire[c] /\ words[i] = wsWire[c][i]
    BY <1>2
  <1> HIDE DEF words
  <1>4. /\ viewing' \in [Tab -> Term \cup {Nothing, Waiting}] /\ viewing'[c] = t
        /\ wsWire' \in [Tab -> Seq({"join", "leave"} \X Term)] /\ wsWire'[c] = words
        /\ \A d \in Tab \ {c} : viewing'[d] = viewing[d] /\ wsWire'[d] = wsWire[d]
    BY <1>1, <1>2, <1>3 DEF TerminalTypes
  <1>5. /\ viewing[c] = Waiting /\ t \in issued
        /\ \A u \in Shell : <<c, u>> \in spawned => u = t
        /\ \A d \in Tab : <<d, t>> \in spawned => d = c
        /\ \A d \in Tab : viewing[d] # t /\ \A i \in DOMAIN wsWire[d] : wsWire[d][i][2] # t
    BY <1>1 DEF AskingInv, NewShellInv
  <1>6. c \notin synced /\ Waiting \notin Term
    BY <1>1, <1>5, TerminalsAssumption DEF SyncedInv, Term
  <1>7. TerminalTypes'
    BY <1>1, <1>4 DEF TerminalTypes
  <1>8. \A d \in Tab, u \in Shell : <<d, u>> \in spawned' => <<d, u>> \in spawned /\ d # c /\ u # t
    BY <1>1, <1>5
  <1>9. AskingInv'
    <2>1. \A d \in Tab : resumeTimer'[d] => viewing'[d] \in Cli
      <3>1. ~resumeTimer[c]
        BY <1>1, <1>5, <1>6 DEF AskingInv, Term
      <3> QED BY <1>1, <1>4, <3>1 DEF AskingInv
    <2>2. ASSUME NEW p \in posts', p.op = "spawn", p.tab # Nothing
          PROVE  viewing'[p.tab] = Waiting /\ \A u \in Shell : <<p.tab, u>> \notin spawned'
      <3>1. viewing[p.tab] = Waiting /\ \A u \in Shell : <<p.tab, u>> \notin spawned
        BY <1>1, <2>2 DEF AskingInv
      <3>2. p.tab \in Tab /\ p.tab # c
        BY <1>1, <2>2, <3>1 DEF TerminalTypes, Requests
      <3> QED BY <1>1, <1>4, <3>1, <3>2
    <2>3. \A d \in Tab, u \in Shell : <<d, u>> \in spawned' =>
            /\ viewing'[d] = Waiting /\ u \in issued'
            /\ \A v \in Shell : <<d, v>> \in spawned' => v = u
            /\ \A owner \in Tab : <<owner, u>> \in spawned' => owner = d
      BY <1>1, <1>4, <1>8 DEF AskingInv
    <2> QED BY <2>1, <2>2, <2>3 DEF AskingInv
  <1>10. NewShellInv'
    <2>1. \A d \in Tab : viewing'[d] \in Shell => viewing'[d] \in issued'
      BY <1>1, <1>4, <1>5 DEF NewShellInv
    <2>2. \A d \in Tab : \A i \in DOMAIN wsWire'[d] : wsWire'[d][i][2] \in Shell => wsWire'[d][i][2] \in issued'
      BY <1>1, <1>3, <1>4, <1>5 DEF NewShellInv
    <2>3. ASSUME NEW owner \in Tab, NEW u \in Shell, NEW d \in Tab, <<owner, u>> \in spawned'
          PROVE  viewing'[d] # u /\ \A i \in DOMAIN wsWire'[d] : wsWire'[d][i][2] # u
      <3>1. u # t /\ <<owner, u>> \in spawned
        BY <1>8, <2>3
      <3>2. viewing[d] # u /\ \A i \in DOMAIN wsWire[d] : wsWire[d][i][2] # u
        BY <1>1, <3>1 DEF NewShellInv
      <3>3. \A i \in DOMAIN wsWire[c] : wsWire[c][i][2] # u
        BY <1>1, <3>1 DEF NewShellInv
      <3> QED BY <1>3, <1>4, <3>1, <3>2, <3>3
    <2> QED BY <2>1, <2>2, <2>3 DEF NewShellInv
  <1>11. LastWordInv'
    <2> SUFFICES ASSUME NEW d \in Tab, viewing'[d] \in Shell, NEW i \in DOMAIN wsWire'[d],
                        wsWire'[d][i] = <<"join", viewing'[d]>>
                 PROVE  i = Len(wsWire'[d])
      BY DEF LastWordInv
    <2>1. CASE d = c
      <3>1. words[i] = <<"join", t>> /\ i \in DOMAIN words
        BY <1>4, <2>1
      <3>2. <<"join", t>>[2] = t
        OBVIOUS
      <3>3. i \in DOMAIN wsWire[c] => wsWire[c][i][2] # t
        BY <1>5
      <3>4. i = Len(words)
        BY <1>3, <3>1, <3>2, <3>3
      <3> QED BY <1>4, <2>1, <3>4
    <2>2. CASE d # c
      BY <1>1, <1>4, <2>2 DEF LastWordInv
    <2> QED BY <2>1, <2>2
  <1>12. RingInv' /\ OutputInv' /\ StreamInv'
    BY <1>1, OutputKept
  <1>13. SeenInv'
    <2>1. made[t] \in 0 .. MaxOutput /\ seen[c] \in 0 .. MaxOutput /\ seen[c] <= 0
      BY <1>1, <1>2, <1>5, <1>6 DEF SeenInv, TerminalTypes
    <2> QED BY <1>1, <1>2, <1>4, <2>1, TerminalsAssumption DEF SeenInv
  <1>14. SyncedInv' /\ LinkedInv'
    BY <1>1, <1>4, <1>6, ZenonT(30) DEF SyncedInv, LinkedInv, Wanted, TerminalTypes
  <1> QED BY <1>7, <1>9, <1>10, <1>11, <1>12, <1>13, <1>14 DEF TerminalsInv

-----------------------------------------------------------------------------
(* Lost connections.                                                       *)
LEMMA TabReconnectsKeeps ==
  ASSUME TerminalsInv, NEW c \in Tab, TabReconnects(c)
  PROVE  TerminalsInv'
  <1> DEFINE words == IF viewing[c] \in Term THEN <<<<"join", viewing[c]>>>> ELSE << >>
  <1>1. /\ TerminalTypes /\ RingInv /\ OutputInv /\ SeenInv /\ StreamInv /\ SyncedInv /\ LinkedInv
        /\ AskingInv /\ NewShellInv /\ LastWordInv
        /\ UNCHANGED <<pty, made, ringBuffer, attached, toDaemon, toHq, linked, issued, tracker, posts, spawned,
                       viewing, resumeTimer, seen>>
        /\ bindings' = [u \in Term |-> bindings[u] \ {c}]
        /\ wsWire' = [wsWire EXCEPT ![c] = words]
        /\ synced' = synced \ {c}
    BY DEF TerminalsInv, TabReconnects, daemonTermVars, wireTermVars
  <1>2. /\ words \in Seq({"join", "leave"} \X Term)
        /\ \A i \in DOMAIN words : words[i] = <<"join", viewing[c]>> /\ i = Len(words)
    OBVIOUS
  <1> HIDE DEF words
  <1>3. /\ wsWire' \in [Tab -> Seq({"join", "leave"} \X Term)] /\ wsWire'[c] = words
        /\ \A d \in Tab \ {c} : wsWire'[d] = wsWire[d]
    BY <1>1, <1>2 DEF TerminalTypes
  <1>4. bindings' \in [Term -> SUBSET Tab] /\ \A d \in Tab \ {c}, u \in Term : d \in bindings[u] => d \in bindings'[u]
    BY <1>1 DEF TerminalTypes
  <1>5. TerminalTypes'
    BY <1>1, <1>3, <1>4 DEF TerminalTypes
  <1>6. AskingInv'
    BY <1>1 DEF AskingInv
  <1>7. NewShellInv'
    <2>1. \A d \in Tab : \A i \in DOMAIN wsWire'[d] : wsWire'[d][i][2] \in Shell => wsWire'[d][i][2] \in issued
      BY <1>1, <1>2, <1>3 DEF NewShellInv
    <2>2. \A owner \in Tab, u \in Shell, d \in Tab : <<owner, u>> \in spawned =>
             viewing[d] # u /\ \A i \in DOMAIN wsWire'[d] : wsWire'[d][i][2] # u
      BY <1>1, <1>2, <1>3 DEF NewShellInv
    <2> QED BY <1>1, <2>1, <2>2 DEF NewShellInv
  <1>8. LastWordInv'
    BY <1>1, <1>2, <1>3 DEF LastWordInv
  <1>9. RingInv' /\ OutputInv' /\ StreamInv'
    BY <1>1, OutputKept
  <1>10. SeenInv' /\ LinkedInv'
    BY <1>1 DEF SeenInv, LinkedInv
  <1>11. SyncedInv'
    BY <1>1, <1>3, <1>4 DEF SyncedInv, Wanted, TerminalTypes
  <1> QED BY <1>5, <1>6, <1>7, <1>8, <1>9, <1>10, <1>11 DEF TerminalsInv

LEMMA LinkKeeps ==
  ASSUME TerminalsInv, LinkBreaks \/ LinkReturns
  PROVE  TerminalsInv'
  <1> USE DEF LinkBreaks, LinkReturns, daemonTermVars, wireTermVars, hqTermVars, tabTermVars
  <1>1. TerminalTypes'
    <2>1. toDaemon' \in {toDaemon, << >>} /\ toHq' \in {toHq, << >>} /\ synced' \in {synced, {}} /\ linked' \in BOOLEAN
          /\ UNCHANGED <<daemonTermVars, hqTermVars, wsWire, posts, spawned, viewing, resumeTimer, seen>>
      OBVIOUS
    <2>2. toDaemon' \in Seq(ShellCommands) /\ toHq' \in Seq(Outputs) /\ synced' \subseteq Tab
      <3>1. << >> \in Seq(ShellCommands) /\ << >> \in Seq(Outputs)
        OBVIOUS
      <3> QED BY <2>1, <3>1 DEF TerminalsInv, TerminalTypes
    <2> QED BY <2>1, <2>2 DEF TerminalsInv, TerminalTypes
  <1>2. AskingInv' /\ NewShellInv' /\ LastWordInv'
    BY TabsKept DEF TerminalsInv
  <1>3. RingInv' /\ SeenInv' /\ LinkedInv'
    BY DEF TerminalsInv, RingInv, SeenInv, LinkedInv
  <1>4. OutputInv' /\ StreamInv' /\ SyncedInv'
    <2>1. CASE LinkBreaks
      <3>1. toHq' = << >> /\ synced' = {} /\ made' = made
        BY <2>1
      <3>2. \A u \in Term : made'[u] \in Nat
        BY <3>1, TerminalsAssumption DEF TerminalsInv, TerminalTypes
      <3>3. DOMAIN toHq' = {}
        BY <3>1
      <3>4. OutputInv' /\ SyncedInv'
        BY <3>1, <3>3 DEF OutputInv, SyncedInv
      <3>5. \A u \in Term : Streams(toHq', u, made'[u], made'[u])
        BY <3>1, <3>2, EmptyStreams
      <3> QED BY <3>2, <3>4, <3>5 DEF StreamInv
    <2>2. CASE LinkReturns
      <3>1. OutputInv' /\ StreamInv'
        BY <2>2, OutputKept DEF TerminalsInv
      <3> QED BY <2>2, <3>1 DEF TerminalsInv, SyncedInv, Wanted
    <2> QED BY <2>1, <2>2
  <1> QED BY <1>1, <1>2, <1>3, <1>4 DEF TerminalsInv

LEMMA StutterKeeps ==
  ASSUME TerminalsInv, UNCHANGED tmVars
  PROVE  TerminalsInv'
  <1> USE DEF tmVars, daemonTermVars, wireTermVars, hqTermVars, tabTermVars
  <1>1. TerminalTypes'
    BY DEF TerminalsInv, TerminalTypes
  <1>2. AskingInv' /\ NewShellInv' /\ LastWordInv'
    BY TabsKept DEF TerminalsInv
  <1>3. RingInv' /\ OutputInv' /\ StreamInv'
    BY OutputKept DEF TerminalsInv
  <1>4. SeenInv' /\ SyncedInv' /\ LinkedInv'
    BY DEF TerminalsInv, SeenInv, SyncedInv, LinkedInv, Wanted
  <1> QED BY <1>1, <1>2, <1>3, <1>4 DEF TerminalsInv

-----------------------------------------------------------------------------
(* Terminals, the inductive invariant: the buffer of a session ends with   *)
(* its last chunk; what is on its way of a terminal somebody should see    *)
(* has no hole, and goes on from the screen of every tab that is counted   *)
(* as complete.                                                            *)
THEOREM TerminalsInvariant == TmSpec => []TerminalsInv
  <1>1. TerminalsInv /\ [TmNext]_tmVars => TerminalsInv'
    <2> SUFFICES ASSUME TerminalsInv, [TmNext]_tmVars PROVE TerminalsInv'
      OBVIOUS
    <2>1. CASE \E t \in Cli : CreateSession(t) \/ DeleteSession(t)
      BY <2>1, CreateSessionKeeps, DeleteSessionKeeps
    <2>2. CASE \E t \in Term : OnData(t) \/ OnExit(t)
      BY <2>2, OnDataKeeps, OnExitKeeps
    <2>3. CASE DaemonHandlesTerminal
      BY <2>3, DaemonHandlesTerminalKeeps
    <2>4. CASE RelayForwards
      BY <2>4, RelayForwardsKeeps
    <2>5. CASE \E p \in posts : RouteHandles(p)
      BY <2>5, RouteHandlesKeeps
    <2>6. CASE \E c \in Tab : RelayJoinsLeaves(c) \/ ResumeDelayOver(c)
      BY <2>6, RelayJoinsLeavesKeeps, ResumeDelayOverKeeps
    <2>7. CASE \E c \in Tab : (\E t \in Cli : SelectSession(c, t)) \/ OpenTerminal(c) \/ CloseTerminal(c)
      BY <2>7, SelectionsKeep
    <2>8. CASE \E c \in Tab, t \in Shell : SpawnAnswered(c, t)
      BY <2>8, SpawnAnsweredKeeps
    <2>9. CASE \E c \in Tab : TabReconnects(c)
      BY <2>9, TabReconnectsKeeps
    <2>10. CASE LinkBreaks \/ LinkReturns
      BY <2>10, LinkKeeps
    <2>11. CASE UNCHANGED tmVars
      BY <2>11, StutterKeeps
    <2> QED BY <2>1, <2>2, <2>3, <2>4, <2>5, <2>6, <2>7, <2>8, <2>9, <2>10, <2>11 DEF TmNext
  <1> QED BY <1>1, InitTerminals, PTL DEF TmSpec

(* terminal-relay, the CLI session manager and the terminal component: a   *)
(* tab that once had the whole screen of a terminal, and lost nothing      *)
(* since, has it again as soon as nothing is on the way to HQ.             *)
THEOREM ScreenIsCompleteHolds == TmSpec => []ScreenIsComplete
  <1>1. TerminalsInv => ScreenIsComplete
    <2> SUFFICES ASSUME TerminalsInv, NEW c \in synced, viewing[c] \in attached \cup Shell,
                        \A i \in DOMAIN toHq : toHq[i].term # viewing[c]
                 PROVE  seen[c] = made[viewing[c]]
      BY DEF ScreenIsComplete
    <2>1. DataOf(toHq, viewing[c]) = {}
      BY DEF DataOf
    <2>2. ~Replayed(toHq, viewing[c]) => Streams(toHq, viewing[c], seen[c], made[viewing[c]])
      BY DEF TerminalsInv, SyncedInv, Wanted
    <2> QED BY <2>1, <2>2, NothingStreams
  <1> QED BY <1>1, TerminalsInvariant, PTL

(* The clicks and the lost connections stay within their bounds.           *)
TmBounds == clicks \in 0..MaxClicks /\ losses \in 0..MaxLoss

(* Neither clicks nor losses exceed their bounds.                          *)
LEMMA TerminalsBounded == TmSpec => []TmBounds
  <1>1. TmInit => TmBounds
    BY TerminalsAssumption DEF TmInit, TmBounds
  <1>2. TmBounds /\ [TmNext]_tmVars => TmBounds'
    <2> SUFFICES ASSUME TmBounds, [TmNext]_tmVars PROVE TmBounds'
      OBVIOUS
    <2>a. {MaxClicks, MaxLoss} \subseteq Nat
      BY TerminalsAssumption
    <2>b. CASE UNCHANGED <<clicks, losses>>
      BY <2>b DEF TmBounds
    <2>c. CASE Click /\ UNCHANGED losses
      BY <2>a, <2>c DEF TmBounds, Click
    <2>d. CASE Loss /\ UNCHANGED clicks
      BY <2>a, <2>d DEF TmBounds, Loss
    <2>1. ASSUME NEW t \in Cli, CreateSession(t) \/ DeleteSession(t) PROVE TmBounds'
      BY <2>1, <2>b, <2>c DEF CreateSession, DeleteSession
    <2>2. ASSUME NEW t \in Term, OnData(t) \/ OnExit(t) PROVE TmBounds'
      BY <2>2, <2>b DEF OnData, OnExit
    <2>3. CASE DaemonHandlesTerminal
      BY <2>3, <2>b DEF DaemonHandlesTerminal
    <2>4. CASE RelayForwards
      BY <2>4, <2>b DEF RelayForwards
    <2>5. ASSUME NEW p \in posts, RouteHandles(p) PROVE TmBounds'
      BY <2>5, <2>b DEF RouteHandles
    <2>6. ASSUME NEW c \in Tab, RelayJoinsLeaves(c) \/ ResumeDelayOver(c) PROVE TmBounds'
      BY <2>6, <2>b DEF RelayJoinsLeaves, ResumeDelayOver
    <2>7. ASSUME NEW c \in Tab, (\E t \in Cli : SelectSession(c, t)) \/ OpenTerminal(c) \/ CloseTerminal(c)
          PROVE  TmBounds'
      <3>1. Click /\ UNCHANGED losses
        BY <2>7 DEF SelectSession, OpenTerminal, CloseTerminal, Show
      <3> QED BY <2>c, <3>1
    <2>8. ASSUME NEW c \in Tab, NEW t \in Shell, SpawnAnswered(c, t) PROVE TmBounds'
      BY <2>8, <2>b DEF SpawnAnswered
    <2>9. ASSUME NEW c \in Tab, TabReconnects(c) PROVE TmBounds'
      BY <2>9, <2>d DEF TabReconnects
    <2>10. CASE LinkBreaks
      BY <2>10, <2>d DEF LinkBreaks
    <2>11. CASE LinkReturns
      BY <2>11, <2>b DEF LinkReturns
    <2>12. CASE UNCHANGED tmVars
      BY <2>12, <2>b DEF tmVars
    <2> QED BY <2>1, <2>2, <2>3, <2>4, <2>5, <2>6, <2>7, <2>8, <2>9, <2>10, <2>11, <2>12 DEF TmNext
  <1> QED BY <1>1, <1>2, PTL DEF TmSpec

(* Processes, buffers, messages, tabs and requests have their types        *)
(* (TmTypeOK), however sessions, shells, tabs and links come and go.       *)
THEOREM TerminalTypesHold == TmSpec => []TmTypeOK
  <1>1. TerminalsInv /\ TmBounds => TmTypeOK
    <2> SUFFICES ASSUME TerminalTypes, TmBounds PROVE TmTypeOK
      BY DEF TerminalsInv
    <2>1. \A t \in Cli : ringBuffer[t] \in Seq(1..MaxOutput) /\ Len(ringBuffer[t]) <= MaxRing
      BY DEF TerminalTypes
    <2>2. ASSUME NEW i \in DOMAIN toDaemon PROVE toDaemon[i].op \in PostOps /\ toDaemon[i].term \in Term
      <3>1. toDaemon \in Seq(ShellCommands)
        BY DEF TerminalTypes
      <3>2. toDaemon[i] \in ShellCommands
        BY <3>1
      <3> QED BY <3>2 DEF ShellCommands
    <2>3. ASSUME NEW i \in DOMAIN toHq PROVE toHq[i].type \in {"data", "exit"} /\ toHq[i].term \in Term
      <3>1. toHq \in Seq(Outputs)
        BY DEF TerminalTypes
      <3>2. toHq[i] \in Outputs
        BY <3>1
      <3> QED BY <3>2 DEF Outputs
    <2>4. ASSUME NEW p \in posts
          PROVE  p.op \in PostOps /\ p.tab \in Tab \cup {Nothing} /\ p.term \in Term \cup {Waiting}
      BY DEF TerminalTypes, Requests
    <2>5. \A c \in Tab : wsWire[c] \in Seq({"join", "leave"} \X Term)
      BY DEF TerminalTypes
    <2> QED BY <2>1, <2>2, <2>3, <2>4, <2>5 DEF TmTypeOK, TerminalTypes, TmBounds
  <1> QED BY <1>1, TerminalsInvariant, TerminalsBounded, PTL

-----------------------------------------------------------------------------
(* Sequences that the library builds.                                      *)

(* Induction over the naturals, for a set in the place of a predicate.     *)
LEMMA SetInduction ==
  ASSUME NEW S, 0 \in S, \A n \in Nat : n \in S => n + 1 \in S
  PROVE  Nat \subseteq S
  <1> DEFINE T == Nat \ S
  <1> SUFFICES ASSUME T # {} PROVE FALSE
    OBVIOUS
  <1>1. PICK x \in T : \A y \in T : ~ (<<y, x>> \in OpToRel(<, Nat))
    BY NatLessThanWellFounded, WFMin
  <1>2. x \in Nat /\ x # 0 /\ x - 1 \in Nat
    OBVIOUS
  <1>3. <<x - 1, x>> \in OpToRel(<, Nat)
    BY <1>2 DEF OpToRel
  <1>4. x - 1 \in S
    BY <1>1, <1>2, <1>3
  <1> QED BY <1>2, <1>4

(* The elements of a sequence.                                             *)
Els(s) == {s[i] : i \in 1 .. Len(s)}

LEMMA ElsOfConcat ==
  ASSUME NEW M, NEW s \in Seq(M), NEW t \in Seq(M)
  PROVE  s \o t \in Seq(M) /\ Els(s \o t) = Els(s) \cup Els(t)
  <1>1. /\ s \o t \in Seq(M) /\ Len(s \o t) = Len(s) + Len(t) /\ Len(s) \in Nat /\ Len(t) \in Nat
        /\ \A i \in 1 .. Len(s) : (s \o t)[i] = s[i]
        /\ \A i \in 1 .. Len(t) : (s \o t)[Len(s) + i] = t[i]
    OBVIOUS
  <1>2. ASSUME NEW e \in Els(s \o t) PROVE e \in Els(s) \cup Els(t)
    <2>1. PICK i \in 1 .. Len(s \o t) : e = (s \o t)[i]
      BY DEF Els
    <2>2. CASE i <= Len(s)
      BY <1>1, <2>1, <2>2 DEF Els
    <2>3. CASE i > Len(s)
      <3>1. i - Len(s) \in 1 .. Len(t) /\ i = Len(s) + (i - Len(s))
        BY <1>1, <2>3
      <3> QED BY <1>1, <2>1, <3>1 DEF Els
    <2> QED BY <1>1, <2>2, <2>3
  <1>3. ASSUME NEW e \in Els(s) \cup Els(t) PROVE e \in Els(s \o t)
    <2>1. CASE e \in Els(s)
      BY <1>1, <2>1 DEF Els
    <2>2. CASE e \in Els(t)
      <3>1. PICK i \in 1 .. Len(t) : e = t[i]
        BY <2>2 DEF Els
      <3>2. Len(s) + i \in 1 .. Len(s \o t) /\ e = (s \o t)[Len(s) + i]
        BY <1>1, <3>1
      <3> QED BY <3>2 DEF Els
    <2> QED BY <1>3, <2>1, <2>2
  <1> QED BY <1>1, <1>2, <1>3

(* Flattening keeps every element and adds none.                           *)
LEMMA Flattened ==
  ASSUME NEW M, NEW n \in Nat, NEW seqs \in [1 .. n -> Seq(M)]
  PROVE  /\ FlattenSeq(seqs) \in Seq(M)
         /\ \A e : e \in Els(FlattenSeq(seqs)) <=> \E i \in 1 .. n : e \in Els(seqs[i])
  <1>1. seqs \in Seq(Seq(M)) /\ Len(seqs) = n
    <2>1. seqs \in Seq(Seq(M))
      BY SeqDef
    <2> QED BY <2>1, LenProperties
  <1>2. CASE n = 0
    <2>1. FlattenSeq(seqs) = seqs /\ seqs = << >>
      BY <1>1, <1>2 DEF FlattenSeq
    <2> QED BY <1>2, <2>1 DEF Els
  <1>3. CASE n # 0
    <2> DEFINE Step(f, i) == IF i = 1 THEN seqs[i] ELSE f[i - 1] \o seqs[i]
               Flat(m) == {f \in [1 .. m -> Seq(M)] : \A i \in 1 .. m : f[i] = Step(f, i)}
               S == {m \in Nat : m <= n => Flat(m) # {}}
    <2>1. 0 \in S
      <3>1. [i \in 1 .. 0 |-> << >>] \in Flat(0)
        OBVIOUS
      <3> HIDE DEF Flat
      <3> QED BY <3>1
    <2>2. ASSUME NEW m \in Nat, m \in S PROVE m + 1 \in S
      <3> HIDE DEF Flat
      <3> SUFFICES ASSUME m + 1 <= n PROVE Flat(m + 1) # {}
        OBVIOUS
      <3>1. PICK f \in Flat(m) : TRUE
        BY <2>2
      <3>a. f \in [1 .. m -> Seq(M)] /\ \A i \in 1 .. m : f[i] = Step(f, i)
        BY <3>1 DEF Flat
      <3> DEFINE g == [i \in 1 .. m + 1 |-> IF i <= m THEN f[i] ELSE Step(f, i)]
      <3>2. \A i \in 1 .. m + 1 : g[i] = Step(g, i)
        <4> SUFFICES ASSUME NEW i \in 1 .. m + 1 PROVE g[i] = Step(g, i)
          OBVIOUS
        <4>1. g[i] = Step(f, i)
          <5>1. g[i] = IF i <= m THEN f[i] ELSE Step(f, i)
            OBVIOUS
          <5> HIDE DEF g, Step
          <5> QED BY <3>a, <5>1
        <4>2. i # 1 => i - 1 \in 1 .. m /\ g[i - 1] = f[i - 1]
          OBVIOUS
        <4> HIDE DEF g
        <4> QED BY <4>1, <4>2
      <3>3. \A i \in 1 .. m + 1 : g[i] \in Seq(M)
        <4>1. seqs[m + 1] \in Seq(M)
          OBVIOUS
        <4>2. \A i \in 1 .. m : f[i] \in Seq(M)
          BY <3>a
        <4>3. m # 0 => f[m] \o seqs[m + 1] \in Seq(M)
          BY <4>1, <4>2, ConcatProperties
        <4>4. \A i \in 1 .. m + 1 : i <= m => g[i] = f[i]
          OBVIOUS
        <4>5. g[m + 1] = Step(f, m + 1) /\ (m + 1) - 1 = m
          OBVIOUS
        <4> HIDE DEF g
        <4>6. g[m + 1] \in Seq(M)
          BY <4>1, <4>3, <4>5
        <4>7. \A i \in 1 .. m + 1 : i \in 1 .. m \/ i = m + 1
          OBVIOUS
        <4>8. \A i \in 1 .. m : i \in 1 .. m + 1 /\ i <= m
          OBVIOUS
        <4> QED BY <4>2, <4>4, <4>6, <4>7, <4>8, Zenon
      <3>4. g \in Flat(m + 1)
        <4>1. g \in [1 .. m + 1 -> Seq(M)]
          BY <3>3
        <4> HIDE DEF g
        <4> QED BY <3>2, <4>1 DEF Flat
      <3> HIDE DEF g
      <3> QED BY <3>4
    <2>3. Flat(n) # {}
      <3> HIDE DEF S, Flat
      <3>1. Nat \subseteq S
        BY <2>1, <2>2, SetInduction
      <3> QED BY <3>1 DEF S
    <2> DEFINE flat == CHOOSE f : f = [i \in 1 .. Len(seqs) |-> Step(f, i)]
    <2>4. flat = [i \in 1 .. n |-> Step(flat, i)]
      <3>1. PICK f \in Flat(n) : TRUE
        BY <2>3
      <3>2. f = [i \in 1 .. n |-> Step(f, i)]
        BY <3>1
      <3> QED BY <1>1, <3>2
    <2>5. FlattenSeq(seqs) = flat[n]
      BY <1>1, <1>3 DEF FlattenSeq
    <2> HIDE DEF flat
    <2>6. flat[1] = seqs[1]
      BY <1>3, <2>4
    <2>7. \A i \in 1 .. n : i # 1 => flat[i] = flat[i - 1] \o seqs[i]
      BY <2>4
    <2> DEFINE Right(m) == /\ flat[m] \in Seq(M)
                           /\ \A e : e \in Els(flat[m]) <=> \E i \in 1 .. m : e \in Els(seqs[i])
               T == {m \in Nat : m \in 1 .. n => Right(m)}
    <2>8. 0 \in T
      OBVIOUS
    <2>9. ASSUME NEW m \in Nat, m \in T PROVE m + 1 \in T
      <3> SUFFICES ASSUME m + 1 \in 1 .. n PROVE Right(m + 1)
        OBVIOUS
      <3>1. CASE m = 0
        <4>1. m + 1 = 1 /\ flat[1] \in Seq(M)
          BY <2>6, <3>1
        <4>2. \A e : e \in Els(flat[1]) <=> \E i \in 1 .. 1 : e \in Els(seqs[i])
          BY <2>6
        <4> HIDE DEF T
        <4> QED BY <4>1, <4>2
      <3>2. CASE m # 0
        <4>1. m \in 1 .. n /\ Right(m) /\ seqs[m + 1] \in Seq(M)
          <5> HIDE DEF Right
          <5>1. m \in 1 .. n /\ m + 1 \in 1 .. n
            BY <3>2
          <5>2. Right(m)
            BY <2>9, <5>1
          <5> QED BY <5>1, <5>2
        <4>2. flat[m + 1] = flat[m] \o seqs[m + 1]
          <5>1. (m + 1) - 1 = m /\ m + 1 # 1
            BY <3>2
          <5> QED BY <2>7, <5>1
        <4>3. flat[m + 1] \in Seq(M) /\ Els(flat[m + 1]) = Els(flat[m]) \cup Els(seqs[m + 1])
          BY <4>1, <4>2, ElsOfConcat
        <4>4. ASSUME NEW e
              PROVE  e \in Els(flat[m + 1]) <=> \E i \in 1 .. m + 1 : e \in Els(seqs[i])
          <5>1. e \in Els(flat[m + 1]) <=> (e \in Els(flat[m]) \/ e \in Els(seqs[m + 1]))
            BY <4>3
          <5>2. e \in Els(flat[m]) <=> \E i \in 1 .. m : e \in Els(seqs[i])
            BY <4>1
          <5>3. \A i : i \in 1 .. m + 1 <=> i \in 1 .. m \/ i = m + 1
            OBVIOUS
          <5> HIDE DEF T, Right
          <5> QED BY <5>1, <5>2, <5>3
        <4> QED BY <4>3, <4>4
      <3> QED BY <3>1, <3>2
    <2>10. Right(n)
      <3> HIDE DEF T
      <3>1. Nat \subseteq T
        BY <2>8, <2>9, SetInduction
      <3>2. n \in 1 .. n
        BY <1>3
      <3> QED BY <3>1, <3>2 DEF T
    <2> QED BY <2>5, <2>10
  <1> QED BY <1>2, <1>3

(* A finite set is put into a sequence with all its elements.              *)
LEMMA Ordered ==
  ASSUME NEW S, IsFiniteSet(S)
  PROVE  /\ Cardinality(S) \in Nat
         /\ SetToSeq(S) \in [1 .. Cardinality(S) -> S]
         /\ SetToSeq(S) \in Seq(S) /\ Els(SetToSeq(S)) = S
  <1> DEFINE n == Cardinality(S)
  <1>1. n \in Nat /\ ExistsBijection(1 .. n, S)
    BY FS_CardinalityType
  <1>2. SetToSeq(S) \in [1 .. n -> S] /\ IsInjective(SetToSeq(S))
    <2>1. \E f \in [1 .. n -> S] : IsInjective(f)
      BY <1>1 DEF ExistsBijection, Bijection, Injection, IsInjective
    <2> QED BY <2>1 DEF SetToSeq
  <1>3. SetToSeq(S) \in Injection(1 .. n, S)
    BY <1>2 DEF Injection
  <1>4. Cardinality(1 .. n) = n /\ IsFiniteSet(1 .. n)
    BY <1>1, FS_Interval
  <1>5. SetToSeq(S) \in Surjection(1 .. n, S)
    BY <1>3, <1>4, FS_Injection
  <1>6. SetToSeq(S) \in Seq(S) /\ Len(SetToSeq(S)) = n
    <2>1. SetToSeq(S) \in Seq(S)
      BY <1>1, <1>2, SeqDef
    <2> QED BY <1>1, <1>2, <2>1, LenProperties
  <1>7. Els(SetToSeq(S)) = S
    <2>1. \A e \in S : \E i \in 1 .. n : SetToSeq(S)[i] = e
      BY <1>5 DEF Surjection
    <2>2. \A i \in 1 .. n : SetToSeq(S)[i] \in S
      BY <1>2
    <2> QED BY <1>6, <2>1, <2>2 DEF Els
  <1> QED BY <1>1, <1>2, <1>6, <1>7

-----------------------------------------------------------------------------
(* A request on a socket: `on' is the last word about x.                   *)

(* Whether x is in the set S once all of s is read: s says so last, or x   *)
(* is in S and s does not take it back.                                    *)
InEffect(on, off, x, S, s) ==
  \/ x \in S /\ off \notin Els(s)
  \/ \E p \in 1 .. Len(s) : s[p] = on /\ \A j \in p + 1 .. Len(s) : s[j] # off

(* More messages, none of which takes it back.                             *)
LEMMA EffectStays ==
  ASSUME NEW M, NEW s \in Seq(M), NEW t \in Seq(M), NEW on, NEW off, NEW x, NEW S,
         InEffect(on, off, x, S, s), off \notin Els(t)
  PROVE  InEffect(on, off, x, S, s \o t)
  <1>1. /\ Len(s \o t) = Len(s) + Len(t) /\ Len(s) \in Nat /\ Len(t) \in Nat
        /\ \A i \in 1 .. Len(s) : (s \o t)[i] = s[i]
        /\ \A i \in 1 .. Len(t) : (s \o t)[Len(s) + i] = t[i]
    OBVIOUS
  <1>2. CASE x \in S /\ off \notin Els(s)
    BY <1>2, ElsOfConcat DEF InEffect
  <1>3. CASE \E p \in 1 .. Len(s) : s[p] = on /\ \A j \in p + 1 .. Len(s) : s[j] # off
    <2>1. PICK p \in 1 .. Len(s) : s[p] = on /\ \A j \in p + 1 .. Len(s) : s[j] # off
      BY <1>3
    <2>2. p \in 1 .. Len(s \o t) /\ (s \o t)[p] = on
      BY <1>1, <2>1
    <2>3. ASSUME NEW j \in p + 1 .. Len(s \o t) PROVE (s \o t)[j] # off
      <3>1. CASE j <= Len(s)
        BY <1>1, <2>1, <3>1
      <3>2. CASE j > Len(s)
        <4>1. j - Len(s) \in 1 .. Len(t) /\ j = Len(s) + (j - Len(s))
          BY <1>1, <3>2
        <4>2. (s \o t)[j] = t[j - Len(s)]
          BY <1>1, <4>1
        <4> QED BY <4>1, <4>2 DEF Els
      <3> QED BY <1>1, <3>1, <3>2
    <2> QED BY <2>2, <2>3 DEF InEffect
  <1> QED BY <1>2, <1>3 DEF InEffect

(* Messages that ask for it, none of which takes it back.                  *)
LEMMA EffectComes ==
  ASSUME NEW M, NEW s \in Seq(M), NEW t \in Seq(M), NEW on, NEW off, NEW x, NEW S,
         on \in Els(t), off \notin Els(t)
  PROVE  InEffect(on, off, x, S, s \o t)
  <1>1. /\ Len(s \o t) = Len(s) + Len(t) /\ Len(s) \in Nat /\ Len(t) \in Nat
        /\ \A i \in 1 .. Len(t) : (s \o t)[Len(s) + i] = t[i]
    <2>1. Len(s) \in Nat /\ Len(t) \in Nat
      OBVIOUS
    <2> QED BY <2>1, ConcatProperties
  <1>2. PICK i \in 1 .. Len(t) : t[i] = on
    BY DEF Els
  <1>3. Len(s) + i \in 1 .. Len(s \o t) /\ (s \o t)[Len(s) + i] = on
    BY <1>1, <1>2
  <1>4. ASSUME NEW j \in Len(s) + i + 1 .. Len(s \o t) PROVE (s \o t)[j] # off
    <2>1. j - Len(s) \in 1 .. Len(t) /\ j = Len(s) + (j - Len(s))
      BY <1>1
    <2>2. (s \o t)[j] = t[j - Len(s)]
      BY <1>1, <2>1
    <2> QED BY <2>1, <2>2 DEF Els
  <1> QED BY <1>3, <1>4 DEF InEffect

(* Reading the first message.                                              *)
LEMMA EffectRead ==
  ASSUME NEW M, NEW s \in Seq(M), s # << >>, NEW on, NEW off, NEW x, NEW S, NEW S2,
         InEffect(on, off, x, S, s),
         Head(s) = on => x \in S2,
         Head(s) # off /\ x \in S => x \in S2
  PROVE  InEffect(on, off, x, S2, Tail(s))
  <1>1. /\ Tail(s) \in Seq(M) /\ Len(s) \in Nat /\ Len(s) >= 1 /\ Len(Tail(s)) = Len(s) - 1 /\ Head(s) = s[1]
        /\ \A i \in 1 .. Len(s) - 1 : Tail(s)[i] = s[i + 1]
    OBVIOUS
  <1>2. CASE x \in S /\ off \notin Els(s)
    <2>1. Head(s) # off
      BY <1>1, <1>2 DEF Els
    <2>2. off \notin Els(Tail(s))
      BY <1>1, <1>2 DEF Els
    <2> QED BY <1>2, <2>1, <2>2 DEF InEffect
  <1>3. CASE \E p \in 1 .. Len(s) : s[p] = on /\ \A j \in p + 1 .. Len(s) : s[j] # off
    <2>1. PICK p \in 1 .. Len(s) : s[p] = on /\ \A j \in p + 1 .. Len(s) : s[j] # off
      BY <1>3
    <2>2. CASE p = 1
      <3>1. off \notin Els(Tail(s))
        <4> SUFFICES ASSUME NEW i \in 1 .. Len(s) - 1 PROVE Tail(s)[i] # off
          BY <1>1 DEF Els
        <4>1. i + 1 \in p + 1 .. Len(s) /\ Tail(s)[i] = s[i + 1]
          BY <1>1, <2>2
        <4> QED BY <2>1, <4>1
      <3> QED BY <1>1, <2>1, <2>2, <3>1 DEF InEffect
    <2>3. CASE p # 1
      <3>1. p - 1 \in 1 .. Len(Tail(s)) /\ Tail(s)[p - 1] = on
        BY <1>1, <2>1, <2>3
      <3>2. ASSUME NEW j \in (p - 1) + 1 .. Len(Tail(s)) PROVE Tail(s)[j] # off
        <4>1. j + 1 \in p + 1 .. Len(s) /\ Tail(s)[j] = s[j + 1]
          BY <1>1
        <4> QED BY <2>1, <4>1
      <3> QED BY <3>1, <3>2 DEF InEffect
    <2> QED BY <2>2, <2>3
  <1> QED BY <1>2, <1>3 DEF InEffect

(* Nothing left to read.                                                   *)
LEMMA EffectDone ==
  ASSUME NEW on, NEW off, NEW x, NEW S, InEffect(on, off, x, S, << >>)
  PROVE  x \in S
  BY DEF InEffect

-----------------------------------------------------------------------------
(* The tab's WebSocket: the invariant.                                     *)

ClientState == [tracked : BOOLEAN, channels : SUBSET Channel, joined : SUBSET Screen, alive : BOOLEAN]

(* What the variables hold; the views on the page are finitely many.       *)
LinkTypes ==
  /\ ws \in Conn /\ readyState \in {"connecting", "open", "closed"}
  /\ wsStatus \in {"connecting", "connected", "reconnecting"}
  /\ retryTimer \in BOOLEAN /\ rerender \in BOOLEAN
  /\ subscriptions \subseteq Channel
  /\ mounted \subseteq View /\ IsFiniteSet(mounted)
  /\ messageQueue \in Seq(ClientMessage) /\ Len(messageQueue) <= MaxQueueSize
  /\ token \in 1 .. MaxHqStarts /\ hqStart \in 1 .. MaxHqStarts
  /\ clients \in [Conn -> ClientState]
  /\ wire \in [Conn -> Seq(ClientMessage)]
  /\ intact \subseteq Conn

(* A socket that is not open yet leaves a status that its opening changes. *)
OpeningInv == readyState = "connecting" => wsStatus = "connecting"

(* HQ serves the view, or will once it has read the wire.                  *)
WillServe(v, client, s) ==
  /\ InEffect(Msg("subscribe", ChannelOf(v)), Msg("unsubscribe", ChannelOf(v)), ChannelOf(v), client.channels, s)
  /\ v \in Screen => InEffect(Msg("join", v), Msg("leave", v), v, client.joined, s)

(* On an open socket that the network carries, and with no effect to run   *)
(* again, what every view asked for is the last word on the wire.          *)
AskedInv ==
  readyState = "open" /\ ws \in intact /\ ~rerender =>
    \A v \in mounted : WillServe(v, clients[ws], wire[ws])

LinkInv == LinkTypes /\ OpeningInv /\ AskedInv

-----------------------------------------------------------------------------
(* What views send.                                                        *)

LEMMA MessageTypes ==
  /\ \A v \in View : ChannelOf(v) \in Channel
  /\ \A c \in Channel : Msg("subscribe", c) \in ClientMessage /\ Msg("unsubscribe", c) \in ClientMessage
  /\ \A v \in Screen : Msg("join", v) \in ClientMessage /\ Msg("leave", v) \in ClientMessage
  BY DEF ClientMessage, Channel, ChannelOf

LEMMA MessagesDiffer ==
  ASSUME NEW t, NEW u, NEW x, NEW y, Msg(t, x) = Msg(u, y)
  PROVE  t = u /\ x = y
  <1>1. Msg(t, x).type = Msg(u, y).type /\ Msg(t, x).of = Msg(u, y).of
    OBVIOUS
  <1> HIDE DEF Msg
  <1>2. Msg(t, x).type = t /\ Msg(u, y).type = u /\ Msg(t, x).of = x /\ Msg(u, y).of = y
    BY DEF Msg
  <1> QED BY <1>1, <1>2

LEMMA OneSent ==
  ASSUME NEW M, NEW m \in M
  PROVE  /\ << m >> \in Seq(M) /\ Els(<< m >>) = {m}
         /\ << >> \in Seq(M) /\ Els(<< >>) = {}
  <1>1. << m >> \in Seq(M) /\ Len(<< m >>) = 1 /\ << m >>[1] = m
    OBVIOUS
  <1>2. Els(<< m >>) = {m}
    BY <1>1 DEF Els
  <1>3. << >> \in Seq(M) /\ Len(<< >>) = 0
    OBVIOUS
  <1> QED BY <1>1, <1>2, <1>3 DEF Els

(* An effect asks for everything its view shows and gives nothing up.      *)
LEMMA EffectAsks ==
  ASSUME NEW v \in View
  PROVE  /\ EffectMessages(v) \in Seq(ClientMessage)
         /\ Msg("subscribe", ChannelOf(v)) \in Els(EffectMessages(v))
         /\ v \in Screen => Msg("join", v) \in Els(EffectMessages(v))
         /\ \A e \in Els(EffectMessages(v)) : \A x : e # Msg("unsubscribe", x) /\ e # Msg("leave", x)
  <1> DEFINE j == Msg("join", v)
             s == Msg("subscribe", ChannelOf(v))
             joins == IF v \in Screen THEN << j >> ELSE << >>
             subs == << s >>
  <1>1. s \in ClientMessage /\ (v \in Screen => j \in ClientMessage)
    BY MessageTypes
  <1>2. \A x : s # Msg("unsubscribe", x) /\ s # Msg("leave", x) /\ j # Msg("unsubscribe", x) /\ j # Msg("leave", x)
    BY MessagesDiffer
  <1>3. EffectMessages(v) = joins \o subs
    BY DEF EffectMessages
  <1> HIDE DEF s, j
  <1>4. subs \in Seq(ClientMessage) /\ Els(subs) = {s}
    BY <1>1, OneSent
  <1>5. joins \in Seq(ClientMessage)
    BY <1>1, OneSent
  <1>a. Els(joins) = (IF v \in Screen THEN {j} ELSE {})
    BY <1>1, OneSent
  <1> HIDE DEF joins, subs
  <1>6. joins \o subs \in Seq(ClientMessage) /\ Els(joins \o subs) = Els(joins) \cup {s}
    BY <1>4, <1>5, ElsOfConcat
  <1>7. s \in Els(EffectMessages(v)) /\ (v \in Screen => j \in Els(EffectMessages(v)))
    BY <1>3, <1>a, <1>6
  <1>8. \A e \in Els(EffectMessages(v)) : e = s \/ e = j
    BY <1>3, <1>a, <1>6
  <1> QED BY <1>2, <1>3, <1>6, <1>7, <1>8 DEF s, j

(* A clean-up gives nothing up that the other views need.                  *)
LEMMA CleanupSpares ==
  ASSUME NEW v \in View, NEW others \in SUBSET View
  PROVE  /\ CleanupMessages(v, others) \in Seq(ClientMessage)
         /\ \A w \in others : Msg("unsubscribe", ChannelOf(w)) \notin Els(CleanupMessages(v, others))
         /\ \A w : w # v => Msg("leave", w) \notin Els(CleanupMessages(v, others))
  <1> DEFINE u == Msg("unsubscribe", ChannelOf(v))
             l == Msg("leave", v)
             last == ~ \E w \in others : ChannelOf(w) = ChannelOf(v)
             unsubs == IF \E w \in others : ChannelOf(w) = ChannelOf(v) THEN << >> ELSE << u >>
             leaves == IF v \in Screen THEN << l >> ELSE << >>
  <1>1. u \in ClientMessage /\ (v \in Screen => l \in ClientMessage)
    BY MessageTypes
  <1>2. \A w : /\ Msg("unsubscribe", ChannelOf(w)) # l /\ Msg("leave", w) # u
               /\ Msg("unsubscribe", ChannelOf(w)) = u => ChannelOf(w) = ChannelOf(v)
               /\ Msg("leave", w) = l => w = v
    BY MessagesDiffer
  <1>3. CleanupMessages(v, others) = unsubs \o leaves
    BY DEF CleanupMessages
  <1> HIDE DEF u, l
  <1>4. unsubs \in Seq(ClientMessage) /\ \A e \in Els(unsubs) : e = u /\ last
    BY <1>1, OneSent
  <1>5. leaves \in Seq(ClientMessage) /\ \A e \in Els(leaves) : e = l
    BY <1>1, OneSent
  <1> HIDE DEF unsubs, leaves
  <1>6. /\ CleanupMessages(v, others) \in Seq(ClientMessage)
        /\ Els(CleanupMessages(v, others)) = Els(unsubs) \cup Els(leaves)
    BY <1>3, <1>4, <1>5, ElsOfConcat
  <1>7. \A w \in others : Msg("unsubscribe", ChannelOf(w)) \notin Els(CleanupMessages(v, others))
    BY <1>2, <1>4, <1>5, <1>6
  <1>8. \A w : w # v => Msg("leave", w) \notin Els(CleanupMessages(v, others))
    BY <1>2, <1>4, <1>5, <1>6
  <1> QED BY <1>6, <1>7, <1>8

(* What the tab sends arrives on the wire, or waits in the queue.          *)
LEMMA Delivers ==
  ASSUME LinkTypes, NEW msgs \in Seq(ClientMessage), SendFromTab(msgs)
  PROVE  /\ messageQueue' \in Seq(ClientMessage) /\ Len(messageQueue') <= MaxQueueSize
         /\ wire' \in [Conn -> Seq(ClientMessage)]
         /\ readyState = "open" /\ ws \in intact => wire'[ws] = wire[ws] \o msgs
  <1>1. ws \in Conn /\ wire \in [Conn -> Seq(ClientMessage)] /\ wire[ws] \o msgs \in Seq(ClientMessage)
    BY DEF LinkTypes
  <1>2. CASE readyState = "open"
    <2>1. messageQueue' = messageQueue
      BY <1>2 DEF SendFromTab
    <2>2. wire' = IF ws \in intact THEN [wire EXCEPT ![ws] = wire[ws] \o msgs] ELSE wire
      BY <1>2 DEF SendFromTab
    <2>3. wire' \in [Conn -> Seq(ClientMessage)] /\ (ws \in intact => wire'[ws] = wire[ws] \o msgs)
      BY <1>1, <2>2
    <2> QED BY <2>1, <2>3 DEF LinkTypes
  <1>3. CASE readyState # "open"
    <2> DEFINE all == messageQueue \o msgs
               n == IF Len(all) < MaxQueueSize THEN Len(all) ELSE MaxQueueSize
    <2>1. wire' = wire /\ messageQueue' = SubSeq(all, 1, n)
      BY <1>3 DEF SendFromTab
    <2>2. all \in Seq(ClientMessage) /\ Len(all) \in Nat /\ MaxQueueSize \in Nat
      BY BrowserLinkAssumption DEF LinkTypes
    <2> HIDE DEF all
    <2>3. n \in Nat /\ n <= Len(all) /\ n <= MaxQueueSize
      BY <2>2
    <2> HIDE DEF n
    <2>4. SubSeq(all, 1, n) \in Seq(ClientMessage) /\ Len(SubSeq(all, 1, n)) = n
      BY <2>2, <2>3, SubSeqProperties
    <2> QED BY <1>1, <1>3, <2>1, <2>3, <2>4
  <1> QED BY <1>2, <1>3

-----------------------------------------------------------------------------
(* The steps.                                                              *)

LEMMA LinkInitially ==
  ASSUME BlInit
  PROVE  LinkInv
  <1>1. LinkTypes
    <2>1. IsFiniteSet({})
      BY FS_EmptySet
    <2>2. NoClient \in ClientState
      BY DEF NoClient, ClientState
    <2>3. << >> \in Seq(ClientMessage) /\ Len(<< >>) = 0
      OBVIOUS
    <2>4. clients \in [Conn -> ClientState] /\ wire \in [Conn -> Seq(ClientMessage)]
      BY <2>2, <2>3 DEF BlInit
    <2>5. token \in 1 .. MaxHqStarts /\ hqStart \in 1 .. MaxHqStarts /\ Len(messageQueue) <= MaxQueueSize
      BY BrowserLinkAssumption, <2>3 DEF BlInit
    <2> QED BY <2>1, <2>3, <2>4, <2>5 DEF BlInit, LinkTypes
  <1> QED BY <1>1 DEF BlInit, LinkInv, OpeningInv, AskedInv

(* More views, or the views that are left, after what their change sent.   *)
LEMMA ChangedViews ==
  ASSUME LinkInv, NEW msgs \in Seq(ClientMessage), SendFromTab(msgs),
         UNCHANGED <<ws, readyState, wsStatus, retryTimer, token, hqStart, clients, intact>>,
         mounted' \subseteq View, IsFiniteSet(mounted'), subscriptions' \subseteq Channel, rerender' \in BOOLEAN,
         readyState = "open" /\ ws \in intact /\ ~rerender' =>
           \A v \in mounted' : WillServe(v, clients[ws], wire[ws] \o msgs)
  PROVE  LinkInv'
  <1>1. /\ messageQueue' \in Seq(ClientMessage) /\ Len(messageQueue') <= MaxQueueSize
        /\ wire' \in [Conn -> Seq(ClientMessage)]
        /\ readyState = "open" /\ ws \in intact => wire'[ws] = wire[ws] \o msgs
    BY Delivers DEF LinkInv
  <1>2. LinkTypes'
    BY <1>1 DEF LinkInv, LinkTypes
  <1>3. OpeningInv'
    BY DEF LinkInv, OpeningInv
  <1>4. AskedInv'
    <2> SUFFICES ASSUME readyState' = "open", ws' \in intact', ~rerender', NEW v \in mounted'
                 PROVE  WillServe(v, clients'[ws'], wire'[ws'])
      BY DEF AskedInv, WillServe, InEffect
    <2> QED BY <1>1
  <1> QED BY <1>2, <1>3, <1>4 DEF LinkInv

(* A view that the messages do not concern.                                *)
LEMMA StillAsked ==
  ASSUME LinkInv, readyState = "open", ws \in intact, ~rerender, NEW v \in mounted,
         NEW msgs \in Seq(ClientMessage),
         Msg("unsubscribe", ChannelOf(v)) \notin Els(msgs), Msg("leave", v) \notin Els(msgs)
  PROVE  WillServe(v, clients[ws], wire[ws] \o msgs)
  <1>1. wire[ws] \in Seq(ClientMessage) /\ WillServe(v, clients[ws], wire[ws])
    BY DEF LinkInv, LinkTypes, AskedInv
  <1> QED BY <1>1, EffectStays DEF WillServe

(* A view that the messages ask for.                                       *)
LEMMA AskedAnew ==
  ASSUME LinkInv, NEW v \in View, NEW msgs \in Seq(ClientMessage),
         Msg("subscribe", ChannelOf(v)) \in Els(msgs), v \in Screen => Msg("join", v) \in Els(msgs),
         Msg("unsubscribe", ChannelOf(v)) \notin Els(msgs), Msg("leave", v) \notin Els(msgs),
         NEW s \in Seq(ClientMessage)
  PROVE  WillServe(v, clients[ws], s \o msgs)
  BY EffectComes DEF WillServe

LEMMA MountKeeps ==
  ASSUME LinkInv, NEW v \in View, Mount(v)
  PROVE  LinkInv'
  <1> DEFINE msgs == EffectMessages(v)
  <1>1. /\ msgs \in Seq(ClientMessage) /\ SendFromTab(msgs)
        /\ UNCHANGED <<ws, readyState, wsStatus, retryTimer, rerender, token, hqStart, clients, intact>>
        /\ mounted' = mounted \cup {v} /\ subscriptions' = subscriptions \cup {ChannelOf(v)}
    BY EffectAsks DEF Mount
  <1>2. /\ mounted' \subseteq View /\ IsFiniteSet(mounted') /\ subscriptions' \subseteq Channel /\ rerender' \in BOOLEAN
    <2>1. IsFiniteSet(mounted \cup {v})
      BY FS_AddElement DEF LinkInv, LinkTypes
    <2> QED BY <1>1, <2>1, MessageTypes DEF LinkInv, LinkTypes
  <1>3. ASSUME readyState = "open", ws \in intact, ~rerender', NEW w \in mounted'
        PROVE  WillServe(w, clients[ws], wire[ws] \o msgs)
    <2>1. CASE w = v
      <3>1. wire[ws] \in Seq(ClientMessage)
        BY DEF LinkInv, LinkTypes
      <3> QED BY <1>1, <2>1, <3>1, EffectAsks, AskedAnew
    <2>2. CASE w \in mounted
      BY <1>1, <1>3, <2>2, EffectAsks, StillAsked
    <2> QED BY <1>1, <1>3, <2>1, <2>2
  <1> HIDE DEF msgs
  <1> QED BY <1>1, <1>2, <1>3, ChangedViews

LEMMA UnmountKeeps ==
  ASSUME LinkInv, NEW v \in View, Unmount(v)
  PROVE  LinkInv'
  <1> DEFINE msgs == CleanupMessages(v, mounted \ {v})
  <1>1. mounted \ {v} \subseteq View /\ v \in mounted
    BY DEF LinkInv, LinkTypes, Unmount
  <1>2. /\ msgs \in Seq(ClientMessage) /\ SendFromTab(msgs)
        /\ UNCHANGED <<ws, readyState, wsStatus, retryTimer, rerender, token, hqStart, clients, intact>>
        /\ mounted' = mounted \ {v} /\ subscriptions' = {ChannelOf(w) : w \in mounted \ {v}}
    BY <1>1, CleanupSpares DEF Unmount
  <1>3. /\ mounted' \subseteq View /\ IsFiniteSet(mounted') /\ subscriptions' \subseteq Channel /\ rerender' \in BOOLEAN
    <2>1. IsFiniteSet(mounted \ {v})
      BY FS_RemoveElement DEF LinkInv, LinkTypes
    <2> QED BY <1>1, <1>2, <2>1, MessageTypes DEF LinkInv, LinkTypes
  <1>4. ASSUME readyState = "open", ws \in intact, ~rerender', NEW w \in mounted'
        PROVE  WillServe(w, clients[ws], wire[ws] \o msgs)
    <2>1. w \in mounted /\ w \in mounted \ {v} /\ w # v
      BY <1>2, <1>4
    <2>2. Msg("unsubscribe", ChannelOf(w)) \notin Els(msgs) /\ Msg("leave", w) \notin Els(msgs)
      BY <1>1, <2>1, CleanupSpares
    <2> HIDE DEF msgs
    <2> QED BY <1>2, <1>4, <2>1, <2>2, StillAsked
  <1> HIDE DEF msgs
  <1> QED BY <1>2, <1>3, <1>4, ChangedViews

(* The clean-ups and then the effects: whatever the former give up, the    *)
(* latter ask for again.                                                   *)
LEMMA RerenderKeeps ==
  ASSUME LinkInv, Rerender
  PROVE  LinkInv'
  <1> DEFINE order == SetToSeq(mounted)
             n == Cardinality(mounted)
             after(i) == {order[j] : j \in i + 1 .. Len(order)}
             cleanups == [i \in DOMAIN order |-> CleanupMessages(order[i], after(i))]
             effects == [i \in DOMAIN order |-> EffectMessages(order[i])]
             clean == FlattenSeq(cleanups)
             asks == FlattenSeq(effects)
             msgs == clean \o asks
  <1>1. mounted \subseteq View /\ IsFiniteSet(mounted) /\ wire[ws] \in Seq(ClientMessage)
    BY DEF LinkInv, LinkTypes
  <1>2. n \in Nat /\ order \in [1 .. n -> mounted] /\ order \in Seq(mounted) /\ Els(order) = mounted
    BY <1>1, Ordered
  <1>3. SendFromTab(msgs) /\ rerender' = FALSE
        /\ UNCHANGED <<ws, readyState, wsStatus, retryTimer, subscriptions, mounted, token, hqStart, clients, intact>>
    BY DEF Rerender
  <1> HIDE DEF order, n
  <1>4. Len(order) = n /\ DOMAIN order = 1 .. n
    BY <1>2, LenProperties
  <1>5. cleanups \in [1 .. n -> Seq(ClientMessage)]
    <2>1. ASSUME NEW i \in 1 .. n PROVE CleanupMessages(order[i], after(i)) \in Seq(ClientMessage)
      <3>1. order[i] \in View
        BY <1>1, <1>2
      <3>2. after(i) \in SUBSET View
        BY <1>1, <1>2, <1>4
      <3> HIDE DEF after
      <3> QED BY <3>1, <3>2, CleanupSpares
    <2> HIDE DEF after
    <2> QED BY <1>4, <2>1
  <1>6. effects \in [1 .. n -> Seq(ClientMessage)]
    <2>1. ASSUME NEW i \in 1 .. n PROVE EffectMessages(order[i]) \in Seq(ClientMessage)
      BY <1>1, <1>2, EffectAsks
    <2> QED BY <1>4, <2>1
  <1>7. \A i \in 1 .. n : effects[i] = EffectMessages(order[i])
    BY <1>4
  <1> HIDE DEF cleanups, effects
  <1>8. clean \in Seq(ClientMessage)
    BY <1>2, <1>5, Flattened
  <1>9. /\ asks \in Seq(ClientMessage)
        /\ \A e : e \in Els(asks) <=> \E i \in 1 .. n : e \in Els(effects[i])
    BY <1>2, <1>6, Flattened
  <1> HIDE DEF clean, asks
  <1>10. msgs \in Seq(ClientMessage) /\ wire[ws] \o clean \in Seq(ClientMessage)
         /\ wire[ws] \o msgs = (wire[ws] \o clean) \o asks
    <2>1. msgs \in Seq(ClientMessage) /\ wire[ws] \o clean \in Seq(ClientMessage)
      BY <1>1, <1>8, <1>9, ConcatProperties
    <2>2. (wire[ws] \o clean) \o asks = wire[ws] \o (clean \o asks)
      <3> DEFINE carried == wire[ws]
      <3>1. carried \in Seq(ClientMessage) /\ clean \in Seq(ClientMessage) /\ asks \in Seq(ClientMessage)
        BY <1>1, <1>8, <1>9
      <3> HIDE DEF carried
      <3>2. (carried \o clean) \o asks = carried \o (clean \o asks)
        BY <3>1, ConcatAssociative, SMTT(30)
      <3> QED BY <3>2 DEF carried
    <2> QED BY <2>1, <2>2
  <1>11. ASSUME NEW v \in mounted
         PROVE  WillServe(v, clients[ws], wire[ws] \o msgs)
    <2>1. PICK i \in 1 .. n : v = order[i]
      BY <1>2, <1>4 DEF Els
    <2>2. v \in View /\ EffectMessages(v) = effects[i]
      BY <1>1, <1>7, <2>1
    <2>3. Msg("subscribe", ChannelOf(v)) \in Els(asks) /\ (v \in Screen => Msg("join", v) \in Els(asks))
      BY <1>9, <2>2, EffectAsks
    <2>4. Msg("unsubscribe", ChannelOf(v)) \notin Els(asks) /\ Msg("leave", v) \notin Els(asks)
      <3> SUFFICES ASSUME NEW e \in Els(asks)
                   PROVE  e # Msg("unsubscribe", ChannelOf(v)) /\ e # Msg("leave", v)
        OBVIOUS
      <3>1. PICK k \in 1 .. n : e \in Els(effects[k])
        BY <1>9
      <3>2. order[k] \in View /\ effects[k] = EffectMessages(order[k])
        BY <1>1, <1>2, <1>7
      <3> QED BY <3>1, <3>2, EffectAsks
    <2>5. WillServe(v, clients[ws], (wire[ws] \o clean) \o asks)
      BY <1>9, <1>10, <2>2, <2>3, <2>4, AskedAnew
    <2> QED BY <1>10, <2>5
  <1> HIDE DEF msgs
  <1>12. subscriptions' \subseteq Channel /\ mounted' \subseteq View /\ IsFiniteSet(mounted') /\ rerender' \in BOOLEAN
    BY <1>1, <1>3 DEF LinkInv, LinkTypes
  <1>13. \A v \in mounted' : WillServe(v, clients[ws], wire[ws] \o msgs)
    BY <1>3, <1>11
  <1> QED BY <1>3, <1>10, <1>12, <1>13, ChangedViews

(* A client or a wire that changed, and did not take back what the views   *)
(* of an open tab asked for.                                               *)
LEMMA ChangedHq ==
  ASSUME LinkInv, UNCHANGED tabVars, hqStart' \in 1 .. MaxHqStarts, intact' \subseteq intact,
         clients' \in [Conn -> ClientState], wire' \in [Conn -> Seq(ClientMessage)],
         ws \in intact' => \A v \in View : WillServe(v, clients[ws], wire[ws]) => WillServe(v, clients'[ws], wire'[ws])
  PROVE  LinkInv'
  <1>1. LinkTypes'
    BY DEF LinkInv, LinkTypes, tabVars
  <1>2. OpeningInv'
    BY DEF LinkInv, OpeningInv, tabVars
  <1>3. AskedInv'
    <2> SUFFICES ASSUME readyState' = "open", ws' \in intact', ~rerender', NEW v \in mounted'
                 PROVE  WillServe(v, clients'[ws'], wire'[ws'])
      BY DEF AskedInv, WillServe, InEffect
    <2>1. readyState = "open" /\ ws \in intact /\ ws' = ws /\ ~rerender /\ v \in mounted /\ v \in View
      BY DEF tabVars, LinkInv, LinkTypes
    <2>2. WillServe(v, clients[ws], wire[ws])
      BY <2>1 DEF LinkInv, AskedInv
    <2> QED BY <2>1, <2>2
  <1> QED BY <1>1, <1>2, <1>3 DEF LinkInv

(* The channels and terminals of a client that HQ keeps tracking.          *)
LEMMA SameClient ==
  ASSUME NEW v, NEW c, NEW d, NEW s, c.channels = d.channels, c.joined = d.joined, WillServe(v, c, s)
  PROVE  WillServe(v, d, s)
  BY DEF WillServe

LEMMA UpgradeKeeps ==
  ASSUME LinkInv, Upgrade
  PROVE  LinkInv'
  <1>1. /\ UNCHANGED tabVars /\ hqStart' = hqStart /\ wire' = wire /\ clients[ws] = NoClient
        /\ \/ intact' = intact /\ clients' = [clients EXCEPT ![ws] = Client]
           \/ intact' = intact \ {ws} /\ clients' = clients
    BY DEF Upgrade
  <1>2. Client \in ClientState /\ Client.channels = NoClient.channels /\ Client.joined = NoClient.joined
    BY DEF Client, NoClient, ClientState
  <1>3. /\ ws \in Conn /\ clients \in [Conn -> ClientState] /\ wire \in [Conn -> Seq(ClientMessage)]
        /\ hqStart \in 1 .. MaxHqStarts
    BY DEF LinkInv, LinkTypes
  <1>4. CASE intact' = intact /\ clients' = [clients EXCEPT ![ws] = Client]
    <2>1. clients' \in [Conn -> ClientState] /\ clients'[ws] = Client
      BY <1>2, <1>3, <1>4
    <2>2. \A v \in View : WillServe(v, clients[ws], wire[ws]) => WillServe(v, clients'[ws], wire'[ws])
      BY <1>1, <1>2, <2>1, SameClient
    <2> QED BY <1>1, <1>3, <1>4, <2>1, <2>2, ChangedHq
  <1>5. CASE intact' = intact \ {ws} /\ clients' = clients
    <2>1. ws \notin intact' /\ intact' \subseteq intact
      BY <1>5
    <2> QED BY <1>1, <1>3, <1>5, <2>1, ChangedHq
  <1> QED BY <1>1, <1>4, <1>5

(* The status changes with the opening, so the effects are to run again.   *)
LEMMA OpenedKeeps ==
  ASSUME LinkInv, Opened
  PROVE  LinkInv'
  <1> DEFINE channels == SetToSeq(subscriptions)
             asks == [i \in DOMAIN channels |-> Msg("subscribe", channels[i])]
             sent == asks \o messageQueue
             n == Cardinality(subscriptions)
  <1>1. /\ readyState' = "open" /\ wsStatus' = "connected" /\ messageQueue' = << >>
        /\ wire' = IF ws \in intact THEN [wire EXCEPT ![ws] = wire[ws] \o sent] ELSE wire
        /\ UNCHANGED <<ws, retryTimer, subscriptions, mounted, token, hqStart, clients, intact>>
    BY DEF Opened, SetStatus
  <1>2. rerender' = TRUE
    BY DEF Opened, SetStatus, LinkInv, OpeningInv
  <1>3. n \in Nat /\ channels \in [1 .. n -> subscriptions] /\ subscriptions \subseteq Channel
    <2>1. IsFiniteSet(subscriptions)
      <3>1. IsFiniteSet(Channel)
        <4>1. IsFiniteSet({"issues"})
          BY FS_Singleton
        <4>2. IsFiniteSet({"issues"} \cup {"terminal"})
          BY <4>1, FS_AddElement
        <4> QED BY <4>2 DEF Channel
      <3> QED BY <3>1, FS_Subset DEF LinkInv, LinkTypes
    <2> QED BY <2>1, Ordered DEF LinkInv, LinkTypes
  <1> HIDE DEF channels, n
  <1>4. asks \in Seq(ClientMessage)
    <2>1. asks \in [1 .. n -> ClientMessage]
      BY <1>3, MessageTypes
    <2> QED BY <1>3, <2>1, SeqDef
  <1> HIDE DEF asks
  <1>5. sent \in Seq(ClientMessage)
    BY <1>4, ConcatProperties DEF LinkInv, LinkTypes
  <1> HIDE DEF sent
  <1>6. wire' \in [Conn -> Seq(ClientMessage)]
    <2>1. wire[ws] \o sent \in Seq(ClientMessage) /\ wire \in [Conn -> Seq(ClientMessage)]
      BY <1>5, ConcatProperties DEF LinkInv, LinkTypes
    <2> QED BY <1>1, <2>1
  <1>7. messageQueue' \in Seq(ClientMessage) /\ Len(messageQueue') <= MaxQueueSize
    BY <1>1, BrowserLinkAssumption
  <1>8. LinkTypes'
    BY <1>1, <1>2, <1>6, <1>7 DEF LinkInv, LinkTypes
  <1>9. OpeningInv' /\ AskedInv'
    BY <1>1, <1>2 DEF OpeningInv, AskedInv
  <1> QED BY <1>8, <1>9 DEF LinkInv

LEMMA ClosedKeeps ==
  ASSUME LinkInv, Closed
  PROVE  LinkInv'
  <1>1. rerender' \in BOOLEAN
    <2>1. rerender' = (rerender \/ "reconnecting" # wsStatus)
      BY DEF Closed, SetStatus
    <2> QED BY <2>1
  <1>2. LinkTypes'
    BY <1>1 DEF LinkInv, LinkTypes, Closed, SetStatus, hqWsVars
  <1>3. OpeningInv' /\ AskedInv'
    BY DEF Closed, OpeningInv, AskedInv
  <1> QED BY <1>2, <1>3 DEF LinkInv

LEMMA RetryKeeps ==
  ASSUME LinkInv, NEW i \in Conn, Retry(i)
  PROVE  LinkInv'
  <1>1. rerender' \in BOOLEAN
    <2>1. rerender' = (rerender \/ "connecting" # wsStatus)
      BY DEF Retry, SetStatus
    <2> QED BY <2>1
  <1>2. LinkTypes'
    BY <1>1 DEF LinkInv, LinkTypes, Retry, SetStatus
  <1>3. OpeningInv' /\ AskedInv'
    BY DEF Retry, SetStatus, OpeningInv, AskedInv
  <1> QED BY <1>2, <1>3 DEF LinkInv

LEMMA ReloadKeeps ==
  ASSUME LinkInv, NEW i \in Conn, Reload(i)
  PROVE  LinkInv'
  <1>1. IsFiniteSet({}) /\ << >> \in Seq(ClientMessage) /\ Len(<< >>) = 0
    BY FS_EmptySet
  <1>2. LinkTypes'
    <2>1. wire' \in [Conn -> Seq(ClientMessage)]
      BY <1>1 DEF LinkInv, LinkTypes, Reload
    <2>2. Len(messageQueue') <= MaxQueueSize /\ messageQueue' \in Seq(ClientMessage)
      BY <1>1, BrowserLinkAssumption DEF Reload
    <2>3. mounted' = {} /\ subscriptions' = {}
      BY DEF Reload
    <2> QED BY <1>1, <2>1, <2>2, <2>3 DEF LinkInv, LinkTypes, Reload
  <1>3. OpeningInv' /\ AskedInv'
    BY DEF Reload, OpeningInv, AskedInv
  <1> QED BY <1>2, <1>3 DEF LinkInv

(* What the client is after the message is what the message says last.     *)
LEMMA HandleClientMessageKeeps ==
  ASSUME LinkInv, NEW i \in Conn, HandleClientMessage(i)
  PROVE  LinkInv'
  <1> DEFINE m == Head(wire[i])
             channels == CASE m.type = "subscribe" -> clients[i].channels \cup {m.of}
                           [] m.type = "unsubscribe" -> clients[i].channels \ {m.of}
                           [] OTHER -> clients[i].channels
             joined == CASE m.type = "join" -> clients[i].joined \cup {m.of}
                         [] m.type = "leave" -> clients[i].joined \ {m.of}
                         [] OTHER -> clients[i].joined
  <1>1. /\ UNCHANGED tabVars /\ hqStart' = hqStart /\ intact' = intact
        /\ clients' = [clients EXCEPT ![i].channels = channels, ![i].joined = joined]
        /\ wire[i] # << >> /\ wire' = [wire EXCEPT ![i] = Tail(wire[i])]
    BY DEF HandleClientMessage
  <1>2. /\ clients \in [Conn -> ClientState] /\ wire \in [Conn -> Seq(ClientMessage)] /\ wire[i] \in Seq(ClientMessage)
        /\ hqStart \in 1 .. MaxHqStarts
    BY DEF LinkInv, LinkTypes
  <1>3. m \in ClientMessage /\ Tail(wire[i]) \in Seq(ClientMessage)
    BY <1>1, <1>2
  <1>4. /\ m.type \in {"subscribe", "unsubscribe"} => m.of \in Channel
        /\ m.type \in {"join", "leave"} => m.of \in Screen
    BY <1>3 DEF ClientMessage, Msg
  <1>5. channels \subseteq Channel /\ joined \subseteq Screen
    BY <1>2, <1>4 DEF ClientState
  <1>6. \A x : /\ m = Msg("subscribe", x) => m.type = "subscribe" /\ m.of = x
               /\ m = Msg("unsubscribe", x) => m.type = "unsubscribe" /\ m.of = x
               /\ m = Msg("join", x) => m.type = "join" /\ m.of = x
               /\ m = Msg("leave", x) => m.type = "leave" /\ m.of = x
               /\ m.type = "unsubscribe" /\ m.of = x => m = Msg("unsubscribe", x)
               /\ m.type = "leave" /\ m.of = x => m = Msg("leave", x)
    BY <1>3 DEF ClientMessage, Msg
  <1>7. \A x : /\ m = Msg("subscribe", x) => x \in channels
               /\ m # Msg("unsubscribe", x) /\ x \in clients[i].channels => x \in channels
               /\ m = Msg("join", x) => x \in joined
               /\ m # Msg("leave", x) /\ x \in clients[i].joined => x \in joined
    BY <1>6
  <1> HIDE DEF m, channels, joined
  <1>8. /\ clients' \in [Conn -> ClientState] /\ wire' \in [Conn -> Seq(ClientMessage)]
        /\ clients'[i].channels = channels /\ clients'[i].joined = joined /\ wire'[i] = Tail(wire[i])
        /\ \A k \in Conn : k # i => clients'[k] = clients[k] /\ wire'[k] = wire[k]
    <2>1. clients[i] \in ClientState
      BY <1>2
    <2>2. clients' = [clients EXCEPT ![i] = [clients[i] EXCEPT !.channels = channels, !.joined = joined]]
      BY <1>1, <1>2, <2>1 DEF ClientState
    <2>3. [clients[i] EXCEPT !.channels = channels, !.joined = joined] \in ClientState
      BY <1>5, <2>1 DEF ClientState
    <2>4. /\ [clients[i] EXCEPT !.channels = channels, !.joined = joined].channels = channels
          /\ [clients[i] EXCEPT !.channels = channels, !.joined = joined].joined = joined
      BY <2>1 DEF ClientState
    <2>5. /\ clients' \in [Conn -> ClientState]
          /\ clients'[i] = [clients[i] EXCEPT !.channels = channels, !.joined = joined]
          /\ \A k \in Conn : k # i => clients'[k] = clients[k]
      BY <1>2, <2>2, <2>3
    <2>6. wire' \in [Conn -> Seq(ClientMessage)] /\ wire'[i] = Tail(wire[i])
          /\ \A k \in Conn : k # i => wire'[k] = wire[k]
      BY <1>1, <1>2, <1>3
    <2> QED BY <2>4, <2>5, <2>6
  <1>9. ASSUME NEW v \in View, WillServe(v, clients[ws], wire[ws])
        PROVE  WillServe(v, clients'[ws], wire'[ws])
    <2>1. CASE ws # i
      BY <1>8, <1>9, <2>1 DEF LinkInv, LinkTypes
    <2>2. CASE ws = i
      <3> DEFINE c == ChannelOf(v)
      <3>1. InEffect(Msg("subscribe", c), Msg("unsubscribe", c), c, channels, Tail(wire[i]))
        <4>1. InEffect(Msg("subscribe", c), Msg("unsubscribe", c), c, clients[i].channels, wire[i])
          BY <1>9, <2>2 DEF WillServe
        <4> HIDE DEF c
        <4> QED BY <1>1, <1>2, <1>7, <4>1, EffectRead DEF m
      <3>2. ASSUME v \in Screen PROVE InEffect(Msg("join", v), Msg("leave", v), v, joined, Tail(wire[i]))
        <4>1. InEffect(Msg("join", v), Msg("leave", v), v, clients[i].joined, wire[i])
          BY <1>9, <2>2, <3>2 DEF WillServe
        <4> QED BY <1>1, <1>2, <1>7, <4>1, EffectRead DEF m
      <3> QED BY <1>8, <2>2, <3>1, <3>2 DEF WillServe
    <2> QED BY <2>1, <2>2
  <1> QED BY <1>1, <1>2, <1>8, <1>9, ChangedHq

(* A socket that breaks while the others keep what they carry.             *)
LEMMA Breaks ==
  ASSUME LinkInv, NEW broken, Break(broken)
  PROVE  /\ intact' = intact \ broken /\ wire' \in [Conn -> Seq(ClientMessage)]
         /\ ws \in intact' => wire'[ws] = wire[ws]
  <1>1. wire \in [Conn -> Seq(ClientMessage)] /\ << >> \in Seq(ClientMessage) /\ ws \in Conn
    BY DEF LinkInv, LinkTypes
  <1> QED BY <1>1 DEF Break

LEMMA HeartbeatKeeps ==
  ASSUME LinkInv, Heartbeat
  PROVE  LinkInv'
  <1> DEFINE silent == {i \in Conn : clients[i].tracked /\ ~clients[i].alive}
  <1>1. /\ clients' = [i \in Conn |-> IF i \in silent THEN NoClient ELSE [clients[i] EXCEPT !.alive = FALSE]]
        /\ Break(silent) /\ UNCHANGED tabVars /\ hqStart' = hqStart
    BY DEF Heartbeat
  <1> HIDE DEF silent
  <1>2. /\ ws \in Conn /\ clients \in [Conn -> ClientState] /\ hqStart \in 1 .. MaxHqStarts
    BY DEF LinkInv, LinkTypes
  <1>3. ASSUME NEW c \in ClientState
        PROVE  /\ [c EXCEPT !.alive = FALSE] \in ClientState
               /\ [c EXCEPT !.alive = FALSE].channels = c.channels /\ [c EXCEPT !.alive = FALSE].joined = c.joined
    BY DEF ClientState
  <1>4. NoClient \in ClientState
    BY DEF NoClient, ClientState
  <1>5. clients' \in [Conn -> ClientState]
    <2>1. \A i \in Conn : [clients[i] EXCEPT !.alive = FALSE] \in ClientState
      BY <1>2, <1>3
    <2> QED BY <1>1, <1>4, <2>1
  <1>6. intact' \subseteq intact /\ wire' \in [Conn -> Seq(ClientMessage)]
        /\ (ws \in intact' => wire'[ws] = wire[ws] /\ ws \notin silent)
    BY <1>1, Breaks
  <1>7. ASSUME ws \in intact', NEW v \in View, WillServe(v, clients[ws], wire[ws])
        PROVE  WillServe(v, clients'[ws], wire'[ws])
    <2>1. clients'[ws] = [clients[ws] EXCEPT !.alive = FALSE]
      BY <1>1, <1>2, <1>6, <1>7
    <2>2. clients[ws].channels = clients'[ws].channels /\ clients[ws].joined = clients'[ws].joined
      BY <1>2, <1>3, <2>1
    <2> QED BY <1>6, <1>7, <2>2, SameClient
  <1> QED BY <1>1, <1>2, <1>5, <1>6, <1>7, ChangedHq

LEMMA PongKeeps ==
  ASSUME LinkInv, NEW i \in Conn, Pong(i)
  PROVE  LinkInv'
  <1>1. /\ clients' = [clients EXCEPT ![i].alive = TRUE] /\ UNCHANGED tabVars
        /\ hqStart' = hqStart /\ wire' = wire /\ intact' = intact
    BY DEF Pong
  <1>2. /\ ws \in Conn /\ clients \in [Conn -> ClientState] /\ hqStart \in 1 .. MaxHqStarts
        /\ wire \in [Conn -> Seq(ClientMessage)]
    BY DEF LinkInv, LinkTypes
  <1>3. ASSUME NEW k \in Conn
        PROVE  clients'[k] \in ClientState /\ clients'[k].channels = clients[k].channels /\ clients'[k].joined = clients[k].joined
    BY <1>1, <1>2 DEF ClientState
  <1>4. clients' \in [Conn -> ClientState]
    BY <1>1, <1>2, <1>3
  <1>5. \A v \in View : WillServe(v, clients[ws], wire[ws]) => WillServe(v, clients'[ws], wire'[ws])
    BY <1>1, <1>2, <1>3, SameClient
  <1> QED BY <1>1, <1>2, <1>4, <1>5, ChangedHq

LEMMA NetworkFailsKeeps ==
  ASSUME LinkInv, NEW i \in Conn, NetworkFails(i)
  PROVE  LinkInv'
  <1>1. Break({i}) /\ UNCHANGED tabVars /\ hqStart' = hqStart /\ clients' = clients
    BY DEF NetworkFails
  <1>2. intact' \subseteq intact /\ wire' \in [Conn -> Seq(ClientMessage)] /\ (ws \in intact' => wire'[ws] = wire[ws])
    BY <1>1, Breaks
  <1>3. clients \in [Conn -> ClientState] /\ hqStart \in 1 .. MaxHqStarts
    BY DEF LinkInv, LinkTypes
  <1> QED BY <1>1, <1>2, <1>3, ChangedHq

LEMMA ServerSeesCloseKeeps ==
  ASSUME LinkInv, NEW i \in Conn, ServerSeesClose(i)
  PROVE  LinkInv'
  <1>1. /\ i \notin intact /\ clients' = [clients EXCEPT ![i] = NoClient]
        /\ UNCHANGED tabVars /\ hqStart' = hqStart /\ wire' = wire /\ intact' = intact
    BY DEF ServerSeesClose
  <1>2. /\ ws \in Conn /\ clients \in [Conn -> ClientState] /\ hqStart \in 1 .. MaxHqStarts
        /\ wire \in [Conn -> Seq(ClientMessage)] /\ NoClient \in ClientState
    BY DEF LinkInv, LinkTypes, NoClient, ClientState
  <1>3. clients' \in [Conn -> ClientState] /\ (ws \in intact' => clients'[ws] = clients[ws])
    BY <1>1, <1>2
  <1> QED BY <1>1, <1>2, <1>3, ChangedHq

LEMMA HqRestartsKeeps ==
  ASSUME LinkInv, HqRestarts
  PROVE  LinkInv'
  <1>1. /\ Break(Conn) /\ UNCHANGED tabVars /\ hqStart < MaxHqStarts /\ hqStart' = hqStart + 1
        /\ clients' = [i \in Conn |-> NoClient]
    BY DEF HqRestarts
  <1>2. hqStart \in 1 .. MaxHqStarts /\ MaxHqStarts \in Nat /\ NoClient \in ClientState /\ intact \subseteq Conn
    BY BrowserLinkAssumption DEF LinkInv, LinkTypes, NoClient, ClientState
  <1>3. intact' = {} /\ wire' \in [Conn -> Seq(ClientMessage)]
    BY <1>1, <1>2, Breaks
  <1>4. clients' \in [Conn -> ClientState] /\ hqStart' \in 1 .. MaxHqStarts
    BY <1>1, <1>2
  <1> QED BY <1>1, <1>3, <1>4, ChangedHq

LEMMA LinkKept ==
  ASSUME LinkInv, [BlNext]_blVars
  PROVE  LinkInv'
  <1>1. CASE UNCHANGED blVars
    <2> USE <1>1 DEF blVars, tabVars, hqWsVars
    <2>1. LinkTypes' /\ OpeningInv'
      BY DEF LinkInv, LinkTypes, OpeningInv
    <2>2. ASSUME NEW v PROVE WillServe(v, clients[ws], wire[ws])' <=> WillServe(v, clients'[ws'], wire'[ws'])
      BY DEF WillServe, InEffect
    <2>3. AskedInv'
      BY <2>2 DEF LinkInv, AskedInv
    <2> QED BY <2>1, <2>3 DEF LinkInv
  <1>2. CASE BlNext
    BY <1>2, MountKeeps, UnmountKeeps, RerenderKeeps, UpgradeKeeps, OpenedKeeps, ClosedKeeps, RetryKeeps, ReloadKeeps,
       HandleClientMessageKeeps, HeartbeatKeeps, PongKeeps, NetworkFailsKeeps, ServerSeesCloseKeeps, HqRestartsKeeps
       DEF BlNext
  <1> QED BY <1>1, <1>2

(* The types of the socket, the queue and the clients hold, and what every *)
(* view asked for is the last word on an open socket's wire unless the     *)
(* effects are about to run again.                                         *)
THEOREM LinkInvariant == BlSpec => []LinkInv
  <1>1. BlInit => LinkInv
    BY LinkInitially
  <1>2. LinkInv /\ [BlNext]_blVars => LinkInv'
    BY LinkKept
  <1> QED BY <1>1, <1>2, PTL DEF BlSpec

(* The tab's queue never exceeds its limit, and sockets, clients and       *)
(* messages have their types (BlTypeOK).                                   *)
THEOREM LinkTypesHold == BlSpec => []BlTypeOK
  <1>1. LinkInv => BlTypeOK
    <2> SUFFICES ASSUME LinkTypes PROVE BlTypeOK
      BY DEF LinkInv
    <2>1. ASSUME NEW i \in Conn
          PROVE  /\ {clients[i].tracked, clients[i].alive} \subseteq BOOLEAN
                 /\ clients[i].channels \subseteq Channel /\ clients[i].joined \subseteq Screen
                 /\ wire[i] \in Seq(ClientMessage)
      BY DEF LinkTypes, ClientState
    <2> QED BY <2>1 DEF LinkTypes, BlTypeOK
  <1> QED BY <1>1, LinkInvariant, PTL

(* Whatever was mounted, unmounted, queued, dropped by a full queue or     *)
(* lost with a socket: once the connection has settled, HQ sends every     *)
(* view on the page the updates it shows (EveryViewIsServed).              *)
THEOREM EveryViewIsServedHolds == BlSpec => []EveryViewIsServed
  <1>1. LinkInv => EveryViewIsServed
    <2> SUFFICES ASSUME LinkInv, Settled, NEW v \in mounted
                 PROVE  ChannelOf(v) \in clients[ws].channels /\ (v \in Screen => v \in clients[ws].joined)
      BY DEF EveryViewIsServed
    <2>1. WillServe(v, clients[ws], << >>)
      BY DEF Settled, LinkInv, AskedInv
    <2> QED BY <2>1, EffectDone DEF WillServe
  <1> QED BY <1>1, LinkInvariant, PTL

-----------------------------------------------------------------------------
(* The conversation: the invariant.                                        *)

(* The events that make an entry of each kind.                             *)
TypesOf(kind) ==
  CASE kind = "user" -> {"user.message"}
    [] kind = "assistant" -> {"assistant.message"}
    [] kind = "error" -> {"session.error"}
    [] kind = "reasoning" -> {"assistant.reasoning"}
    [] kind = "hqtool" -> {"copilot:tool-invocation"}
    [] kind = "tool" -> {"tool.execution_start"}
    [] kind = "agent" -> {"task.start"}
    [] kind = "toolcomplete" -> {"tool.execution_complete"}

Stamps == 1 .. MaxLogged
LogRecord == [type : LogTypes, pos : Stamps, ts : 1 .. MaxTime, call : Nat]
Statuses == {"", "running", "completed"}
ItemWith(K) == [kind : ProcessedKinds, pos : Nat, ts : Nat, call : Nat, status : Statuses, kids : K]
Kid == ItemWith({<< >>})
Item == ItemWith(Seq(Kid))
Processor ==
  [entries : Seq(Item), stack : Seq(Stamps), starts : SUBSET Stamps, streaming : BOOLEAN, thinking : BOOLEAN]

At(past, i, type) == past[i].type = type

(* A tool call starts before it completes, and completes once.             *)
LogOk(past) ==
  /\ past \in Seq(LogRecord) /\ Len(past) <= MaxLogged
  /\ \A i \in 1 .. Len(past) :
       /\ past[i].pos = i
       /\ At(past, i, "subagent.started") => past[i].call \in Stamps
       /\ At(past, i, "tool.execution_complete") =>
            past[i].call \in 1 .. i - 1 /\ At(past, past[i].call, "tool.execution_start")
  /\ \A i, k \in 1 .. Len(past) :
       At(past, i, "tool.execution_complete") /\ At(past, k, "tool.execution_complete")
         /\ past[i].call = past[k].call => i = k

(* HQ's copies of one type are each of an event of their own.              *)
RestKinds == {"msg-user", "msg-assistant", "tool-invocation"}
Copy == [type : RestKinds, pos : Nat, ts : Nat, call : Nat]
CopiesOk(past, list, copy, type) ==
  /\ \A m \in 1 .. Len(list) : list[m].type = copy =>
       list[m].pos \in 1 .. Len(past) /\ At(past, list[m].pos, type) /\ list[m].ts = past[list[m].pos].ts
  /\ \A m, k \in 1 .. Len(list) :
       list[m].type = copy /\ list[k].type = copy /\ list[m].pos = list[k].pos => m = k

MessagesOk(past, list) ==
  /\ list \in Seq(Copy) /\ \A m \in 1 .. Len(list) : list[m].type \in {"msg-user", "msg-assistant"}
  /\ \A m \in 1 .. Len(list) : list[m].type = "msg-user" => list[m].pos = m
  /\ CopiesOk(past, list, "msg-assistant", "assistant.message")

InvocationsOk(past, list) ==
  /\ list \in Seq(Copy) /\ \A m \in 1 .. Len(list) : list[m].type = "tool-invocation"
  /\ CopiesOk(past, list, "tool-invocation", "copilot:tool-invocation")

NoTask(past) == \A i \in 1 .. Len(past) : ~At(past, i, "task.start")

(* The entries at the top are of the events after lo up to hi, in order.   *)
EntriesOk(past, list, lo, hi) ==
  /\ \A k \in 1 .. Len(list) :
       /\ list[k].pos \in lo + 1 .. hi /\ list[k].ts = past[list[k].pos].ts
       /\ past[list[k].pos].type \in TypesOf(list[k].kind)
       /\ list[k].kind = "tool" => list[k].call = list[k].pos
       /\ list[k].kind = "toolcomplete" => list[k].call = past[list[k].pos].call
  /\ \A j, k \in 1 .. Len(list) : j < k => list[j].pos < list[k].pos

Holds(list, kind, i) == \E k \in 1 .. Len(list) : list[k].kind = kind /\ list[k].pos = i
HoldsDone(list, kind, i) ==
  \E k \in 1 .. Len(list) : list[k].kind = kind /\ list[k].pos = i /\ list[k].status = "completed"

(* Event i is shown.                                                       *)
ShownAt(past, list, lo, i) ==
  /\ At(past, i, "user.message") => Holds(list, "user", i)
  /\ At(past, i, "session.error") => Holds(list, "error", i)
  /\ At(past, i, "assistant.reasoning") => Holds(list, "reasoning", i)
  /\ At(past, i, "copilot:tool-invocation") => Holds(list, "hqtool", i)
  /\ NoTask(past) /\ At(past, i, "assistant.message") => Holds(list, "assistant", i)
  /\ NoTask(past) /\ At(past, i, "tool.execution_start") => Holds(list, "tool", i)
  /\ NoTask(past) /\ At(past, i, "tool.execution_complete") /\ past[i].call > lo =>
       HoldsDone(list, "tool", past[i].call)

EventsShown(past, list, lo, hi) == \A i \in lo + 1 .. hi : ShownAt(past, list, lo, i)

(* There are pieces that no whole has closed.                              *)
Owed(past, pieces, whole, lo, hi) ==
  \E i \in lo + 1 .. hi : At(past, i, pieces) /\ \A k \in i + 1 .. hi : ~At(past, k, whole)

(* A processor that has seen the events after lo up to hi.                 *)
Saw(past, s, lo, hi) ==
  /\ s \in Processor
  /\ EntriesOk(past, s.entries, lo, hi)
  /\ EventsShown(past, s.entries, lo, hi)
  /\ s.streaming => Owed(past, "assistant.message_delta", "assistant.message", lo, hi)
  /\ s.thinking => Owed(past, "assistant.reasoning_delta", "assistant.reasoning", lo, hi)

(* What the tab fetched is of HQ's lists as they are, or were.             *)
QueriesOk ==
  /\ fetch \in {"idle", "requested"} /\ askedAt \in 0 .. Len(sessionLog) /\ answered \in BOOLEAN
  /\ held \in [Queries -> Nat]
  /\ held["events"] <= Len(sessionLog) /\ held["messages"] <= Len(messages) /\ held["tools"] <= Len(invocations)
  /\ pageFrom \in 0 .. held["events"]

LiveOk ==
  /\ delivered \in 0 .. Len(sessionLog) /\ liveFrom \in 0 .. delivered
  /\ selectedNow \in BOOLEAN /\ selections \in 0 .. MaxSelections /\ live \in Processor
  /\ IF selectedNow THEN Saw(sessionLog, live, liveFrom, delivered) ELSE liveFrom = delivered

ConversationInv ==
  LogOk(sessionLog) /\ MessagesOk(sessionLog, messages) /\ InvocationsOk(sessionLog, invocations) /\ QueriesOk /\ LiveOk

-----------------------------------------------------------------------------
(* Lists.                                                                  *)

LEMMA Least ==
  ASSUME NEW n \in Nat, NEW S \in SUBSET (1 .. n), S # {}
  PROVE  \E k \in S : \A m \in S : k <= m
  <1>1. PICK x \in S : \A y \in S : ~ (<<y, x>> \in OpToRel(<, Nat))
    <2>1. S \subseteq Nat
      OBVIOUS
    <2> QED BY <2>1, NatLessThanWellFounded, WFMin
  <1>2. ASSUME NEW y \in S PROVE x <= y
    <2>1. x \in Nat /\ y \in Nat
      OBVIOUS
    <2>2. ~ (<<y, x>> \in OpToRel(<, Nat))
      BY <1>1
    <2>3. y < x => <<y, x>> \in OpToRel(<, Nat)
      BY <2>1 DEF OpToRel
    <2>4. ~ (y < x)
      BY <2>2, <2>3, Zenon
    <2> QED BY <2>1, <2>4
  <1> QED BY <1>2

(* And a last one.                                                         *)
LEMMA Greatest ==
  ASSUME NEW n \in Nat, NEW S \in SUBSET (1 .. n), S # {}
  PROVE  \E k \in S : \A m \in S : k >= m
  <1> DEFINE T == {n + 1 - k : k \in S}
  <1>1. T \in SUBSET (1 .. n) /\ T # {}
    <2>1. \A k \in S : n + 1 - k \in 1 .. n
      OBVIOUS
    <2> QED BY <2>1
  <1> HIDE DEF T
  <1>2. PICK t \in T : \A u \in T : t <= u
    BY <1>1, Least
  <1>3. PICK k \in S : t = n + 1 - k
    BY DEF T
  <1>4. ASSUME NEW m \in S PROVE k >= m
    <2>1. n + 1 - m \in T
      BY DEF T
    <2>2. n + 1 - k <= n + 1 - m
      BY <1>2, <1>3, <2>1
    <2> QED BY <2>2
  <1> QED BY <1>4

(* w has the first n elements of s that are not in T, each once.           *)
Keeps(w, s, n, T) ==
  \E f \in [1 .. Len(w) -> 1 .. n] :
    /\ \A k \in 1 .. Len(w) : w[k] = s[f[k]] /\ s[f[k]] \notin T
    /\ \A j, k \in 1 .. Len(w) : f[j] = f[k] => j = k
    /\ \A i \in 1 .. n : s[i] \notin T => \E k \in 1 .. Len(w) : f[k] = i

(* Nothing is kept of nothing.                                             *)
LEMMA KeepsNone ==
  ASSUME NEW s, NEW T
  PROVE  Keeps(<< >>, s, 0, T)
  <1> DEFINE none == << >>
             f == [k \in 1 .. 0 |-> 1]
  <1>1. Len(none) = 0 /\ f \in [1 .. 0 -> 1 .. 0] /\ \A i \in 1 .. 0 : FALSE
    OBVIOUS
  <1> HIDE DEF none, f
  <1>2. Keeps(none, s, 0, T)
    BY <1>1 DEF Keeps
  <1> QED BY <1>2 DEF none

(* An element of T is left out.                                            *)
LEMMA KeepsSame ==
  ASSUME NEW M, NEW w \in Seq(M), NEW s, NEW n \in Nat, NEW T, Keeps(w, s, n, T), s[n + 1] \in T
  PROVE  Keeps(w, s, n + 1, T)
  <1>1. PICK f \in [1 .. Len(w) -> 1 .. n] :
          /\ \A k \in 1 .. Len(w) : w[k] = s[f[k]] /\ s[f[k]] \notin T
          /\ \A j, k \in 1 .. Len(w) : f[j] = f[k] => j = k
          /\ \A i \in 1 .. n : s[i] \notin T => \E k \in 1 .. Len(w) : f[k] = i
    BY DEF Keeps
  <1>2. f \in [1 .. Len(w) -> 1 .. n + 1]
    OBVIOUS
  <1>3. \A i \in 1 .. n + 1 : i \in 1 .. n \/ i = n + 1
    OBVIOUS
  <1>4. \A i \in 1 .. n + 1 : s[i] \notin T => \E k \in 1 .. Len(w) : f[k] = i
    BY <1>1, <1>3
  <1> QED BY <1>1, <1>2, <1>4 DEF Keeps

(* Any other element is added at the end.                                  *)
LEMMA KeepsMore ==
  ASSUME NEW M, NEW w \in Seq(M), NEW s, NEW n \in Nat, NEW T, Keeps(w, s, n, T), s[n + 1] \notin T, s[n + 1] \in M
  PROVE  Keeps(Append(w, s[n + 1]), s, n + 1, T)
  <1> DEFINE v == Append(w, s[n + 1])
             l == Len(w)
  <1>1. PICK f \in [1 .. Len(w) -> 1 .. n] :
          /\ \A k \in 1 .. Len(w) : w[k] = s[f[k]] /\ s[f[k]] \notin T
          /\ \A j, k \in 1 .. Len(w) : f[j] = f[k] => j = k
          /\ \A i \in 1 .. n : s[i] \notin T => \E k \in 1 .. Len(w) : f[k] = i
    BY DEF Keeps
  <1>2. l \in Nat /\ Len(v) = l + 1 /\ v[l + 1] = s[n + 1] /\ \A k \in 1 .. l : v[k] = w[k]
    OBVIOUS
  <1> HIDE DEF v
  <1> DEFINE g == [k \in 1 .. l + 1 |-> IF k = l + 1 THEN n + 1 ELSE f[k]]
  <1>3. g \in [1 .. l + 1 -> 1 .. n + 1]
    BY <1>2
  <1>4. g[l + 1] = n + 1 /\ \A k \in 1 .. l : g[k] = f[k] /\ g[k] \in 1 .. n /\ g[k] # n + 1
    BY <1>2
  <1>5. \A k \in 1 .. l + 1 : k \in 1 .. l \/ k = l + 1
    BY <1>2
  <1>6. \A i \in 1 .. n + 1 : i \in 1 .. n \/ i = n + 1
    OBVIOUS
  <1>7. 1 .. l \subseteq 1 .. l + 1 /\ l + 1 \in 1 .. l + 1
    BY <1>2
  <1> HIDE DEF g
  <1>8. \A k \in 1 .. l + 1 : v[k] = s[g[k]] /\ s[g[k]] \notin T
    BY <1>1, <1>2, <1>4, <1>5
  <1>9. \A j, k \in 1 .. l + 1 : g[j] = g[k] => j = k
    BY <1>1, <1>4, <1>5
  <1>10. \A i \in 1 .. n + 1 : s[i] \notin T => \E k \in 1 .. l + 1 : g[k] = i
    BY <1>1, <1>4, <1>6, <1>7
  <1>11. Len(v) = l + 1
    BY <1>2
  <1> HIDE DEF l
  <1>12. Keeps(v, s, n + 1, T)
    BY <1>3, <1>8, <1>9, <1>10, <1>11 DEF Keeps
  <1> QED BY <1>12 DEF v

(* Without keeps what is not in T, each once and in order.                 *)
LEMMA WithoutKeeps ==
  ASSUME NEW M, NEW s \in Seq(M), NEW T
  PROVE  Without(s, T) \in Seq(M) /\ Keeps(Without(s, T), s, Len(s), T)
  <1> DEFINE n == Len(s)
             Step(f, i) == IF i = 0 THEN << >> ELSE IF s[i] \in T THEN f[i - 1] ELSE Append(f[i - 1], s[i])
             Good(m) == {f \in [0 .. m -> Seq(M)] : \A i \in 0 .. m : f[i] = Step(f, i)}
             S == {m \in Nat : m <= n => Good(m) # {}}
  <1>1. n \in Nat /\ \A i \in 1 .. n : s[i] \in M
    OBVIOUS
  <1> HIDE DEF n
  <1>2. 0 \in S
    <2>1. [i \in 0 .. 0 |-> << >>] \in Good(0)
      OBVIOUS
    <2> HIDE DEF Good
    <2> QED BY <2>1
  <1>3. ASSUME NEW m \in Nat, m \in S PROVE m + 1 \in S
    <2> HIDE DEF Good
    <2> SUFFICES ASSUME m + 1 <= n PROVE Good(m + 1) # {}
      OBVIOUS
    <2>1. PICK f \in Good(m) : TRUE
      BY <1>1, <1>3
    <2>2. f \in [0 .. m -> Seq(M)] /\ \A i \in 0 .. m : f[i] = Step(f, i)
      BY <2>1 DEF Good
    <2> DEFINE g == [i \in 0 .. m + 1 |-> IF i <= m THEN f[i] ELSE Step(f, i)]
    <2>3. \A i \in 0 .. m + 1 : g[i] = Step(g, i)
      <3> SUFFICES ASSUME NEW i \in 0 .. m + 1 PROVE g[i] = Step(g, i)
        OBVIOUS
      <3>1. g[i] = Step(f, i)
        <4>1. g[i] = IF i <= m THEN f[i] ELSE Step(f, i)
          OBVIOUS
        <4> HIDE DEF g, Step
        <4> QED BY <2>2, <4>1
      <3>2. i # 0 => i - 1 \in 0 .. m /\ g[i - 1] = f[i - 1]
        OBVIOUS
      <3> HIDE DEF g
      <3> QED BY <3>1, <3>2
    <2>4. \A i \in 0 .. m + 1 : g[i] \in Seq(M)
      <3>1. \A i \in 0 .. m : g[i] = f[i] /\ f[i] \in Seq(M)
        BY <2>2
      <3>2. g[m + 1] = Step(f, m + 1) /\ (m + 1) - 1 = m /\ m \in 0 .. m /\ m + 1 # 0 /\ s[m + 1] \in M
        BY <1>1
      <3>3. f[m] \in Seq(M)
        BY <3>1, <3>2
      <3>6. \A w \in Seq(M), x \in M : Append(w, x) \in Seq(M)
        OBVIOUS
      <3>4. \A i \in 0 .. m + 1 : i \in 0 .. m \/ i = m + 1
        OBVIOUS
      <3> HIDE DEF g
      <3>5. g[m + 1] \in Seq(M)
        BY <3>2, <3>3, <3>6
      <3> QED BY <3>1, <3>4, <3>5
    <2>5. g \in Good(m + 1)
      <3>1. g \in [0 .. m + 1 -> Seq(M)]
        BY <2>4
      <3> HIDE DEF g
      <3> QED BY <2>3, <3>1 DEF Good
    <2> HIDE DEF g
    <2> QED BY <2>5
  <1>4. Good(n) # {}
    <2> HIDE DEF S, Good
    <2>1. Nat \subseteq S
      BY <1>2, <1>3, SetInduction
    <2> QED BY <1>1, <2>1 DEF S
  <1> DEFINE kept == CHOOSE f : f = [i \in 0 .. n |-> Step(f, i)]
  <1>5. kept = [i \in 0 .. n |-> Step(kept, i)]
    <2>1. PICK f \in Good(n) : TRUE
      BY <1>4
    <2>2. f = [i \in 0 .. n |-> Step(f, i)]
      BY <2>1
    <2> QED BY <2>2
  <1>6. Without(s, T) = kept[n]
    BY DEF Without, n
  <1> HIDE DEF kept
  <1>7. kept[0] = << >>
    BY <1>1, <1>5
  <1>8. ASSUME NEW i \in 1 .. n
        PROVE  kept[i] = IF s[i] \in T THEN kept[i - 1] ELSE Append(kept[i - 1], s[i])
    <2>1. i \in 0 .. n /\ i # 0
      BY <1>1
    <2>2. kept[i] = Step(kept, i)
      <3> HIDE DEF Step
      <3> QED BY <1>5, <2>1
    <2> QED BY <2>1, <2>2
  <1> HIDE DEF Step, Good, S
  <1> DEFINE Right(m) == kept[m] \in Seq(M) /\ Keeps(kept[m], s, m, T)
             R == {m \in Nat : m <= n => Right(m)}
  <1>9. 0 \in R
    <2>1. << >> \in Seq(M) /\ 0 \in Nat
      OBVIOUS
    <2>2. Right(0)
      BY <1>7, <2>1, KeepsNone
    <2> HIDE DEF Right
    <2> QED BY <2>1, <2>2
  <1>10. ASSUME NEW m \in Nat, m \in R PROVE m + 1 \in R
    <2> SUFFICES ASSUME m + 1 <= n PROVE Right(m + 1)
      OBVIOUS
    <2>1. Right(m) /\ m + 1 \in 1 .. n /\ (m + 1) - 1 = m /\ s[m + 1] \in M
      BY <1>1, <1>10
    <2>2. kept[m + 1] = IF s[m + 1] \in T THEN kept[m] ELSE Append(kept[m], s[m + 1])
      BY <1>8, <2>1
    <2>3. CASE s[m + 1] \in T
      BY <2>1, <2>2, <2>3, KeepsSame
    <2>4. CASE s[m + 1] \notin T
      <3>1. Append(kept[m], s[m + 1]) \in Seq(M)
        BY <2>1
      <3> QED BY <2>1, <2>2, <2>4, <3>1, KeepsMore
    <2> QED BY <2>3, <2>4
  <1>11. Right(n)
    <2> HIDE DEF R
    <2>1. Nat \subseteq R
      BY <1>9, <1>10, SetInduction
    <2> QED BY <1>1, <2>1 DEF R
  <1> QED BY <1>6, <1>11 DEF n

(* Without tasks there are no agents.                                      *)
LEMMA NoneHeld ==
  ASSUME NEW past, NEW list \in Seq(Item), NEW lo \in Nat, NEW hi \in Nat, EntriesOk(past, list, lo, hi),
         hi <= Len(past), NoTask(past), Len(past) \in Nat, NEW k \in 1 .. Len(list)
  PROVE  list[k].kind # "agent"
  <1>1. list[k].pos \in lo + 1 .. hi /\ past[list[k].pos].type \in TypesOf(list[k].kind)
    BY DEF EntriesOk
  <1>2. list[k].pos \in 1 .. Len(past)
    BY <1>1
  <1>3. past[list[k].pos].type # "task.start"
    BY <1>2 DEF NoTask, At
  <1> QED BY <1>1, <1>3 DEF TypesOf

-----------------------------------------------------------------------------
(* One step of the processor.                                              *)

(* A function on 1 .. n is a list of n elements.                           *)
LEMMA ListFrom ==
  ASSUME NEW S, NEW n \in Nat, NEW f \in [1 .. n -> S]
  PROVE  f \in Seq(S) /\ Len(f) = n
  OBVIOUS

(* An entry is made of its parts.                                          *)
LEMMA EntryIs ==
  ASSUME NEW K, << >> \in K, NEW kind \in ProcessedKinds, NEW rec, rec.pos \in Nat, rec.ts \in Nat, NEW call \in Nat,
         NEW status \in Statuses
  PROVE  Entry(kind, rec, call, status) \in ItemWith(K)
  BY DEF Entry, ItemWith

(* A settled entry changes nothing but its status.                         *)
LEMMA CompletedIs ==
  ASSUME NEW K, NEW x \in ItemWith(K)
  PROVE  /\ [x EXCEPT !.status = "completed"] \in ItemWith(K)
         /\ [x EXCEPT !.status = "completed"].kind = x.kind /\ [x EXCEPT !.status = "completed"].pos = x.pos
         /\ [x EXCEPT !.status = "completed"].ts = x.ts
         /\ [x EXCEPT !.status = "completed"].call = x.call
         /\ [x EXCEPT !.status = "completed"].status = "completed"
  BY DEF ItemWith, Statuses

(* The agent an entry belongs to is in the list, if there is an agent.     *)
LEMMA HolderIs ==
  ASSUME NEW M, NEW list \in Seq(M), NEW call
  PROVE  /\ Holder(list, call) \in {0} \cup (1 .. Len(list))
         /\ (\A k \in 1 .. Len(list) : list[k].kind # "agent") => Holder(list, call) = 0
  <1> DEFINE at == Container(list, call)
             n == Len(list)
  <1>1. n \in Nat /\ at \in SUBSET (1 .. n)
    BY DEF Container
  <1>2. (\A k \in 1 .. n : list[k].kind # "agent") => at = {}
    BY DEF Container
  <1>3. Holder(list, call) = IF at = {} THEN 0 ELSE CHOOSE k \in at : \A m \in at : k <= m
    BY DEF Holder
  <1> HIDE DEF at, n
  <1>4. at # {} => \E k \in at : \A m \in at : k <= m
    BY <1>1, Least
  <1> QED BY <1>1, <1>2, <1>3, <1>4 DEF n

(* A list after a step: the entries stay, and at most one is added.        *)
New(past, e, i) ==
  /\ e.pos = i /\ e.ts = past[i].ts
  /\ past[i].type \in TypesOf(e.kind)
  /\ e.kind = "tool" => e.call = e.pos
  /\ e.kind = "toolcomplete" => e.call = past[i].call

Stays(x, y) ==
  y.kind = x.kind /\ y.pos = x.pos /\ y.ts = x.ts /\ y.call = x.call /\ (x.status = "completed" => y.status = "completed")

Grown(past, list, list2, i) ==
  /\ \A k \in 1 .. Len(list) : Stays(list[k], list2[k])
  /\ \/ Len(list2) = Len(list)
     \/ Len(list2) = Len(list) + 1 /\ New(past, list2[Len(list) + 1], i)

(* What is held stays, and what is done stays done.                        *)
LEMMA GrownKeeps ==
  ASSUME NEW M, NEW list \in Seq(M), NEW list2 \in Seq(M), NEW past, NEW i, Grown(past, list, list2, i)
  PROVE  \A kind, p : /\ Holds(list, kind, p) => Holds(list2, kind, p)
                      /\ HoldsDone(list, kind, p) => HoldsDone(list2, kind, p)
  <1>1. 1 .. Len(list) \subseteq 1 .. Len(list2)
    BY DEF Grown
  <1>2. \A k \in 1 .. Len(list) : Stays(list[k], list2[k])
    BY DEF Grown
  <1>3. ASSUME NEW k \in 1 .. Len(list)
        PROVE  /\ k \in 1 .. Len(list2) /\ list2[k].kind = list[k].kind /\ list2[k].pos = list[k].pos
               /\ list[k].status = "completed" => list2[k].status = "completed"
    BY <1>1, <1>2 DEF Stays
  <1> QED BY <1>3 DEF Holds, HoldsDone

(* The entries stay in order, and of the events up to the new one.         *)
LEMMA GrownOk ==
  ASSUME NEW M, NEW list \in Seq(M), NEW list2 \in Seq(M), NEW past, NEW lo \in Nat, NEW m \in Nat, lo <= m,
         EntriesOk(past, list, lo, m), Grown(past, list, list2, m + 1)
  PROVE  EntriesOk(past, list2, lo, m + 1)
  <1> DEFINE n == Len(list)
  <1>1. n \in Nat /\ (Len(list2) = n \/ (Len(list2) = n + 1 /\ New(past, list2[n + 1], m + 1)))
    BY DEF Grown
  <1>2. \A k \in 1 .. n : Stays(list[k], list2[k])
    BY DEF Grown
  <1>3. \A k \in 1 .. n :
          /\ list[k].pos \in lo + 1 .. m /\ list[k].ts = past[list[k].pos].ts
          /\ past[list[k].pos].type \in TypesOf(list[k].kind)
          /\ list[k].kind = "tool" => list[k].call = list[k].pos
          /\ list[k].kind = "toolcomplete" => list[k].call = past[list[k].pos].call
    BY DEF EntriesOk
  <1>4. \A j, k \in 1 .. n : j < k => list[j].pos < list[k].pos
    BY DEF EntriesOk
  <1> HIDE DEF n
  <1>5. \A k \in 1 .. Len(list2) : k \in 1 .. n \/ (k = n + 1 /\ New(past, list2[n + 1], m + 1))
    BY <1>1
  <1>6. ASSUME NEW k \in 1 .. Len(list2)
        PROVE  /\ list2[k].pos \in lo + 1 .. m + 1 /\ list2[k].ts = past[list2[k].pos].ts
               /\ past[list2[k].pos].type \in TypesOf(list2[k].kind)
               /\ list2[k].kind = "tool" => list2[k].call = list2[k].pos
               /\ list2[k].kind = "toolcomplete" => list2[k].call = past[list2[k].pos].call
    <2>1. CASE k \in 1 .. n
      <3>1. list2[k].kind = list[k].kind /\ list2[k].pos = list[k].pos /\ list2[k].ts = list[k].ts /\ list2[k].call = list[k].call
        BY <1>2, <2>1 DEF Stays
      <3> QED BY <1>3, <2>1, <3>1, SMTT(30)
    <2>2. CASE k = n + 1 /\ New(past, list2[n + 1], m + 1)
      BY <2>2 DEF New
    <2> QED BY <1>5, <2>1, <2>2
  <1>7. ASSUME NEW j \in 1 .. Len(list2), NEW k \in 1 .. Len(list2), j < k PROVE list2[j].pos < list2[k].pos
    <2>1. j \in 1 .. n
      BY <1>1, <1>7
    <2>2. list2[j].pos = list[j].pos /\ list[j].pos \in lo + 1 .. m
      BY <1>2, <1>3, <2>1 DEF Stays
    <2>3. CASE k \in 1 .. n
      <3>1. list2[k].pos = list[k].pos
        BY <1>2, <2>3 DEF Stays
      <3> QED BY <1>4, <1>7, <2>1, <2>2, <2>3, <3>1
    <2>4. CASE k = n + 1 /\ New(past, list2[n + 1], m + 1)
      BY <2>2, <2>4 DEF New
    <2> QED BY <1>5, <2>3, <2>4
  <1> QED BY <1>6, <1>7 DEF EntriesOk

(* A piece stays owed until its whole comes.                               *)
LEMMA OwedStays ==
  ASSUME NEW past, NEW lo \in Nat, NEW m \in Nat, lo <= m, NEW pieces, NEW whole, pieces # whole,
         At(past, m + 1, pieces) \/ (Owed(past, pieces, whole, lo, m) /\ ~At(past, m + 1, whole))
  PROVE  Owed(past, pieces, whole, lo, m + 1)
  <1>1. CASE At(past, m + 1, pieces)
    <2>1. m + 1 \in lo + 1 .. m + 1 /\ \A k \in (m + 1) + 1 .. m + 1 : FALSE
      OBVIOUS
    <2> QED BY <1>1, <2>1 DEF Owed
  <1>2. CASE Owed(past, pieces, whole, lo, m) /\ ~At(past, m + 1, whole)
    <2>1. PICK i \in lo + 1 .. m : At(past, i, pieces) /\ \A k \in i + 1 .. m : ~At(past, k, whole)
      BY <1>2 DEF Owed
    <2>2. i \in lo + 1 .. m + 1 /\ \A k \in i + 1 .. m + 1 : k \in i + 1 .. m \/ k = m + 1
      OBVIOUS
    <2>3. \A k \in i + 1 .. m + 1 : ~At(past, k, whole)
      BY <1>2, <2>1, <2>2
    <2> QED BY <2>1, <2>2, <2>3 DEF Owed
  <1> QED BY <1>1, <1>2

(* What a processor has to show for one event more.                        *)
LEMMA SawStep ==
  ASSUME NEW past, NEW lo \in Nat, NEW m \in Nat, lo <= m, NEW s, Saw(past, s, lo, m), NEW t \in Processor,
         Grown(past, s.entries, t.entries, m + 1), ShownAt(past, t.entries, lo, m + 1),
         t.streaming => At(past, m + 1, "assistant.message_delta") \/ (s.streaming /\ ~At(past, m + 1, "assistant.message")),
         t.thinking => At(past, m + 1, "assistant.reasoning_delta") \/ (s.thinking /\ ~At(past, m + 1, "assistant.reasoning"))
  PROVE  Saw(past, t, lo, m + 1)
  <1>1. s \in Processor /\ EntriesOk(past, s.entries, lo, m) /\ EventsShown(past, s.entries, lo, m)
    BY DEF Saw
  <1>2. s.entries \in Seq(Item) /\ t.entries \in Seq(Item)
    BY <1>1 DEF Processor
  <1>3. EntriesOk(past, t.entries, lo, m + 1)
    BY <1>1, <1>2, GrownOk
  <1>4. EventsShown(past, t.entries, lo, m + 1)
    <2> SUFFICES ASSUME NEW i \in lo + 1 .. m + 1 PROVE ShownAt(past, t.entries, lo, i)
      BY DEF EventsShown
    <2>1. CASE i \in lo + 1 .. m
      <3>1. ShownAt(past, s.entries, lo, i)
        BY <1>1, <2>1 DEF EventsShown
      <3>2. \A kind, p : /\ Holds(s.entries, kind, p) => Holds(t.entries, kind, p)
                         /\ HoldsDone(s.entries, kind, p) => HoldsDone(t.entries, kind, p)
        BY <1>2, GrownKeeps
      <3> QED BY <3>1, <3>2 DEF ShownAt
    <2>2. CASE i = m + 1
      BY <2>2
    <2>3. i \in lo + 1 .. m \/ i = m + 1
      OBVIOUS
    <2> QED BY <2>1, <2>2, <2>3
  <1>5. t.streaming => Owed(past, "assistant.message_delta", "assistant.message", lo, m + 1)
    <2>1. s.streaming => Owed(past, "assistant.message_delta", "assistant.message", lo, m)
      BY DEF Saw
    <2> QED BY <2>1, OwedStays
  <1>6. t.thinking => Owed(past, "assistant.reasoning_delta", "assistant.reasoning", lo, m + 1)
    <2>1. s.thinking => Owed(past, "assistant.reasoning_delta", "assistant.reasoning", lo, m)
      BY DEF Saw
    <2> QED BY <2>1, OwedStays
  <1> QED BY <1>3, <1>4, <1>5, <1>6 DEF Saw

-----------------------------------------------------------------------------
(* The lists the processor changes.                                        *)

(* An entry at the end.                                                    *)
LEMMA AppendGrown ==
  ASSUME NEW past, NEW list \in Seq(Item), NEW e \in Item, NEW i, New(past, e, i)
  PROVE  Append(list, e) \in Seq(Item) /\ Grown(past, list, Append(list, e), i) /\ Holds(Append(list, e), e.kind, e.pos)
  <1> DEFINE list2 == Append(list, e)
             n == Len(list)
  <1>1. list2 \in Seq(Item) /\ n \in Nat /\ Len(list2) = n + 1 /\ list2[n + 1] = e
        /\ \A k \in 1 .. n : list2[k] = list[k]
    OBVIOUS
  <1> HIDE DEF list2, n
  <1>2. \A k \in 1 .. n : Stays(list[k], list2[k])
    BY <1>1 DEF Stays
  <1>3. Grown(past, list, list2, i)
    BY <1>1, <1>2 DEF Grown, n
  <1>4. n + 1 \in 1 .. n + 1
    BY <1>1
  <1>5. Holds(list2, e.kind, e.pos)
    BY <1>1, <1>4 DEF Holds
  <1> QED BY <1>1, <1>3, <1>5 DEF list2

(* An entry that changes and stays itself.                                 *)
LEMMA ChangedGrown ==
  ASSUME NEW M, NEW past, NEW list \in Seq(M), NEW h \in 1 .. Len(list), NEW x \in M, Stays(list[h], x), NEW i
  PROVE  /\ [list EXCEPT ![h] = x] \in Seq(M) /\ Grown(past, list, [list EXCEPT ![h] = x], i)
         /\ Len([list EXCEPT ![h] = x]) = Len(list) /\ [list EXCEPT ![h] = x][h] = x
         /\ \A k \in 1 .. Len(list) : [list EXCEPT ![h] = x][k] = IF k = h THEN x ELSE list[k]
  <1> DEFINE list2 == [list EXCEPT ![h] = x]
             n == Len(list)
  <1>1. n \in Nat /\ list \in [1 .. n -> M] /\ h \in 1 .. n
    OBVIOUS
  <1>2. list2 \in [1 .. n -> M]
    BY <1>1
  <1>3. list2 \in Seq(M) /\ Len(list2) = n
    <2> HIDE DEF list2, n
    <2> QED BY <1>1, <1>2, ListFrom
  <1>4. \A k \in 1 .. n : list2[k] = IF k = h THEN x ELSE list[k]
    BY <1>1
  <1> HIDE DEF list2, n
  <1>5. \A k \in 1 .. n : Stays(list[k], list2[k])
    BY <1>1, <1>4 DEF Stays
  <1>6. Grown(past, list, list2, i)
    BY <1>3, <1>5 DEF Grown, n
  <1> QED BY <1>1, <1>3, <1>4, <1>6 DEF list2, n

(* An agent's entries are its own.                                         *)
LEMMA KidsGrown ==
  ASSUME NEW past, NEW list \in Seq(Item), NEW h \in 1 .. Len(list), NEW kids \in Seq(Kid), NEW i
  PROVE  /\ [list EXCEPT ![h].kids = kids] \in Seq(Item)
         /\ Grown(past, list, [list EXCEPT ![h].kids = kids], i)
  <1> DEFINE x == [list[h] EXCEPT !.kids = kids]
  <1>1. list[h] \in Item
    OBVIOUS
  <1>2. x \in Item /\ Stays(list[h], x)
    BY <1>1 DEF Item, ItemWith, Stays
  <1>3. [list EXCEPT ![h].kids = kids] = [list EXCEPT ![h] = x]
    OBVIOUS
  <1> HIDE DEF x
  <1> QED BY <1>2, <1>3, ChangedGrown, SMTT(30)

(* An entry's children have their type.                                    *)
LEMMA KidsAre ==
  ASSUME NEW list \in Seq(Item), NEW h \in 1 .. Len(list)
  PROVE  list[h].kids \in Seq(Kid)
  <1>1. list[h] \in Item
    OBVIOUS
  <1> QED BY <1>1 DEF Item, ItemWith

(* An entry goes to its agent, or to the end where there is none.          *)
LEMMA AddedGrown ==
  ASSUME NEW past, NEW list \in Seq(Item), NEW call, NEW e \in Item, e \in Kid, NEW i, New(past, e, i)
  PROVE  /\ Added(list, call, e) \in Seq(Item) /\ Grown(past, list, Added(list, call, e), i)
         /\ (\A k \in 1 .. Len(list) : list[k].kind # "agent") => Holds(Added(list, call, e), e.kind, e.pos)
  <1> DEFINE h == Holder(list, call)
  <1>1. h \in {0} \cup (1 .. Len(list)) /\ ((\A k \in 1 .. Len(list) : list[k].kind # "agent") => h = 0)
    BY HolderIs
  <1>2. Added(list, call, e) =
          IF h = 0 THEN Append(list, e) ELSE [list EXCEPT ![h].kids = Append(list[h].kids, e)]
    BY DEF Added, WithList, ListOf
  <1> HIDE DEF h
  <1>3. CASE h = 0
    BY <1>2, <1>3, AppendGrown
  <1>4. CASE h \in 1 .. Len(list)
    <2>1. h # 0
      BY <1>4
    <2>2. Append(list[h].kids, e) \in Seq(Kid)
      <3>1. list[h].kids \in Seq(Kid)
        BY <1>4, KidsAre
      <3> QED BY <3>1
    <2> DEFINE kids == Append(list[h].kids, e)
               list2 == [list EXCEPT ![h].kids = kids]
    <2>3. Added(list, call, e) = list2
      BY <1>2, <2>1
    <2>4. kids \in Seq(Kid)
      BY <2>2
    <2> HIDE DEF kids
    <2>5. list2 \in Seq(Item) /\ Grown(past, list, list2, i)
      BY <1>4, <2>4, KidsGrown
    <2>6. ~ \A k \in 1 .. Len(list) : list[k].kind # "agent"
      BY <1>1, <2>1
    <2> HIDE DEF list2
    <2> QED BY <2>3, <2>5, <2>6
  <1> QED BY <1>1, <1>3, <1>4

(* updateInArray appends an entry or settles one, its own if it can.       *)
SettlesOrAdds(list, ev, list2) ==
  \/ /\ list2 = Append(list, Entry("toolcomplete", ev, ev.call, "completed"))
     /\ \A k \in 1 .. Len(list) : ~(list[k].call = ev.call /\ IsTool(list[k]))
  \/ \E h \in 1 .. Len(list) :
       /\ list2 = [list EXCEPT ![h].status = "completed"]
       /\ \A k \in 1 .. Len(list) :
            list[k].call = ev.call /\ IsTool(list[k]) => list[h].call = ev.call /\ IsTool(list[h])

(* updateInArray does one or the other.                                    *)
LEMMA CompleteIs ==
  ASSUME NEW K, << >> \in K, NEW list \in Seq(ItemWith(K)), NEW ev, ev.pos \in Nat, ev.ts \in Nat, ev.call \in Nat
  PROVE  Complete(list, ev) \in Seq(ItemWith(K)) /\ SettlesOrAdds(list, ev, Complete(list, ev))
  <1> DEFINE n == Len(list)
             own == {k \in 1 .. n : list[k].call = ev.call /\ IsTool(list[k])}
             running == {k \in 1 .. n : IsTool(list[k]) /\ list[k].status = "running"}
             at == IF own # {} THEN CHOOSE k \in own : \A m \in own : k <= m
                   ELSE CHOOSE k \in running : \A m \in running : k >= m
             new == Entry("toolcomplete", ev, ev.call, "completed")
  <1>1. n \in Nat /\ DOMAIN list = 1 .. n /\ own \in SUBSET (1 .. n) /\ running \in SUBSET (1 .. n)
    OBVIOUS
  <1>2. Complete(list, ev) = IF own = {} /\ running = {} THEN Append(list, new)
                             ELSE [list EXCEPT ![at].status = "completed"]
    BY <1>1 DEF Complete
  <1>3. \A k \in 1 .. n : list[k].call = ev.call /\ IsTool(list[k]) => k \in own
    OBVIOUS
  <1>4. \A k \in own : list[k].call = ev.call /\ IsTool(list[k])
    OBVIOUS
  <1>5. CASE own = {} /\ running = {}
    <2>1. new \in ItemWith(K)
      <3>1. "toolcomplete" \in ProcessedKinds /\ "completed" \in Statuses
        BY DEF ProcessedKinds, Statuses
      <3> QED BY <3>1, EntryIs
    <2> HIDE DEF new, own, running, at
    <2>2. Append(list, new) \in Seq(ItemWith(K))
      BY <2>1
    <2>3. Complete(list, ev) = Append(list, new) /\ \A k \in 1 .. n : ~(list[k].call = ev.call /\ IsTool(list[k]))
      BY <1>2, <1>3, <1>5
    <2> QED BY <2>2, <2>3 DEF new, n, SettlesOrAdds
  <1>6. CASE ~(own = {} /\ running = {})
    <2> DEFINE h == at
    <2>1. h \in 1 .. n /\ (own # {} => h \in own)
      <3>1. own # {} => \E k \in own : \A m \in own : k <= m
        <4> HIDE DEF own, running, n
        <4> QED BY <1>1, Least
      <3>2. running # {} => \E k \in running : \A m \in running : k >= m
        <4> HIDE DEF own, running, n
        <4> QED BY <1>1, Greatest
      <3> HIDE DEF own, running
      <3> QED BY <1>1, <1>6, <3>1, <3>2
    <2>2. Complete(list, ev) = [list EXCEPT ![h].status = "completed"]
      <3> HIDE DEF own, running, new
      <3> QED BY <1>2, <1>6
    <2> HIDE DEF h, own, running, new
    <2>3. [list EXCEPT ![h].status = "completed"] \in Seq(ItemWith(K))
      <3> DEFINE x == [list[h] EXCEPT !.status = "completed"]
      <3>1. list[h] \in ItemWith(K)
        BY <1>1, <2>1
      <3>2. x \in ItemWith(K) /\ Stays(list[h], x)
        BY <3>1, CompletedIs DEF Stays
      <3>3. [list EXCEPT ![h].status = "completed"] = [list EXCEPT ![h] = x]
        OBVIOUS
      <3> HIDE DEF x
      <3>4. h \in 1 .. Len(list)
        BY <2>1
      <3> QED BY <3>2, <3>3, <3>4, ChangedGrown
    <2>4. \A k \in 1 .. n : list[k].call = ev.call /\ IsTool(list[k]) => list[h].call = ev.call /\ IsTool(list[h])
      BY <1>3, <1>4, <2>1
    <2> QED BY <2>1, <2>2, <2>3, <2>4 DEF n, SettlesOrAdds
  <1> QED BY <1>5, <1>6

(* An entry is settled.                                                    *)
LEMMA DoneGrown ==
  ASSUME NEW past, NEW list \in Seq(Item), NEW h \in 1 .. Len(list), NEW i
  PROVE  /\ Grown(past, list, [list EXCEPT ![h].status = "completed"], i)
         /\ HoldsDone([list EXCEPT ![h].status = "completed"], list[h].kind, list[h].pos)
  <1> DEFINE x == [list[h] EXCEPT !.status = "completed"]
             list2 == [list EXCEPT ![h] = x]
  <1>1. list[h] \in Item
    OBVIOUS
  <1>2. x \in Item /\ Stays(list[h], x) /\ x.kind = list[h].kind /\ x.pos = list[h].pos /\ x.status = "completed"
    BY <1>1, CompletedIs DEF Stays, Item
  <1>3. [list EXCEPT ![h].status = "completed"] = list2
    OBVIOUS
  <1> HIDE DEF x
  <1>4. Grown(past, list, list2, i) /\ Len(list2) = Len(list) /\ list2[h] = x
    BY <1>2, ChangedGrown
  <1> HIDE DEF list2
  <1>5. HoldsDone(list2, list[h].kind, list[h].pos)
    BY <1>2, <1>4 DEF HoldsDone
  <1> QED BY <1>3, <1>4, <1>5

-----------------------------------------------------------------------------
(* Each event.                                                             *)

(* The next event is of its time.                                          *)
LEMMA RecordIs ==
  ASSUME NEW past, LogOk(past), NEW m \in Nat, m + 1 <= Len(past)
  PROVE  /\ past[m + 1].pos = m + 1 /\ m + 1 \in Stamps /\ past[m + 1].ts \in Nat /\ past[m + 1].call \in Nat
         /\ past[m + 1].type \in LogTypes /\ Len(past) \in Nat
  <1>1. past \in Seq(LogRecord) /\ Len(past) \in Nat /\ Len(past) <= MaxLogged /\ MaxLogged \in Nat
    BY ConversationAssumption DEF LogOk
  <1>2. m + 1 \in 1 .. Len(past)
    BY <1>1
  <1>3. past[m + 1] \in LogRecord
    BY <1>1, <1>2
  <1>4. past[m + 1].pos = m + 1
    BY <1>2 DEF LogOk
  <1>5. m + 1 \in Stamps
    BY <1>1, <1>2 DEF Stamps
  <1> QED BY <1>1, <1>3, <1>4, <1>5 DEF LogRecord

(* A list that stays.                                                      *)
LEMMA GrownSelf ==
  ASSUME NEW past, NEW list, NEW i
  PROVE  Grown(past, list, list, i)
  BY DEF Grown, Stays

(* An event that opens and closes no bubble.                               *)
LEMMA SawSame ==
  ASSUME NEW past, NEW lo \in Nat, NEW m \in Nat, lo <= m, NEW s, Saw(past, s, lo, m), NEW t \in Processor,
         Grown(past, s.entries, t.entries, m + 1), ShownAt(past, t.entries, lo, m + 1),
         t.streaming = s.streaming, t.thinking = s.thinking,
         past[m + 1].type \notin {"assistant.message", "assistant.reasoning"}
  PROVE  Saw(past, t, lo, m + 1)
  <1>1. ~At(past, m + 1, "assistant.message") /\ ~At(past, m + 1, "assistant.reasoning")
    BY DEF At
  <1>2. t.streaming => s.streaming /\ ~At(past, m + 1, "assistant.message")
    BY <1>1, Zenon
  <1>3. t.thinking => s.thinking /\ ~At(past, m + 1, "assistant.reasoning")
    BY <1>1, Zenon
  <1> QED BY <1>2, <1>3, SawStep

(* The processor with another list.                                        *)
LEMMA EntriesReplaced ==
  ASSUME NEW s \in Processor, NEW list \in Seq(Item), NEW starts \in SUBSET Stamps
  PROVE  /\ [s EXCEPT !.entries = list] \in Processor /\ [s EXCEPT !.entries = list].entries = list
         /\ [s EXCEPT !.entries = list].streaming = s.streaming
         /\ [s EXCEPT !.entries = list].thinking = s.thinking
         /\ [s EXCEPT !.starts = starts, !.entries = list] \in Processor
         /\ [s EXCEPT !.starts = starts, !.entries = list].entries = list
         /\ [s EXCEPT !.starts = starts, !.entries = list].streaming = s.streaming
         /\ [s EXCEPT !.starts = starts, !.entries = list].thinking = s.thinking
  BY DEF Processor

(* A new entry has no children.                                            *)
LEMMA NoKids ==
  << >> \in {<< >>} /\ << >> \in Seq(Kid)
  <1>1. \A x : x \in {x}
    OBVIOUS
  <1>2. << >> \in Seq(Kid)
    BY EmptySeq
  <1> QED BY <1>1, <1>2, Zenon

(* The entry an event makes.                                               *)
LEMMA NewEntry ==
  ASSUME NEW past, LogOk(past), NEW m \in Nat, m + 1 <= Len(past), NEW kind \in ProcessedKinds,
         past[m + 1].type \in TypesOf(kind), NEW call \in Nat, NEW status \in Statuses,
         kind = "tool" => call = m + 1, kind = "toolcomplete" => call = past[m + 1].call
  PROVE  LET e == Entry(kind, past[m + 1], call, status)
         IN e \in Item /\ e \in Kid /\ New(past, e, m + 1) /\ e.kind = kind /\ e.pos = m + 1
  <1> DEFINE rec == past[m + 1]
             e == Entry(kind, rec, call, status)
  <1>1. rec.pos = m + 1 /\ rec.pos \in Nat /\ rec.ts \in Nat /\ call \in Nat
    <2>1. past[m + 1].pos = m + 1 /\ past[m + 1].ts \in Nat
      BY RecordIs
    <2>2. m + 1 \in Nat
      OBVIOUS
    <2> QED BY <2>1, <2>2, Zenon
  <1>2. << >> \in {<< >>} /\ << >> \in Seq(Kid)
    BY NoKids
  <1> HIDE DEF rec
  <1>3. e \in Kid /\ e \in Item
    BY <1>1, <1>2, EntryIs DEF Kid, Item
  <1>4. e.pos = rec.pos /\ e.ts = rec.ts /\ e.call = call /\ e.kind = kind
    BY DEF Entry
  <1> HIDE DEF e
  <1>5. New(past, e, m + 1)
    BY <1>1, <1>4 DEF New, rec
  <1> QED BY <1>1, <1>3, <1>4, <1>5 DEF e, rec

(* The handlers, one by one.  An entry is added.                           *)
Additions == {"user", "error", "reasoning", "hqtool"}

(* The addition of an entry shows its event.                               *)
LEMMA NotedIs ==
  ASSUME NEW past, LogOk(past), NEW lo \in Nat, NEW m \in Nat, lo <= m, m + 1 <= Len(past), NEW s, Saw(past, s, lo, m),
         NEW kind \in Additions, past[m + 1].type \in TypesOf(kind)
  PROVE  LET t == Noted(s, past[m + 1], kind)
         IN /\ t \in Processor /\ t.streaming = s.streaming /\ t.thinking = s.thinking
            /\ Grown(past, s.entries, t.entries, m + 1) /\ ShownAt(past, t.entries, lo, m + 1)
  <1> DEFINE e == Entry(kind, past[m + 1], 0, "")
             list == Append(s.entries, e)
             t == [s EXCEPT !.entries = list]
  <1>1. s \in Processor /\ s.entries \in Seq(Item)
    BY DEF Saw, Processor
  <1>2. e \in Item /\ New(past, e, m + 1) /\ e.kind = kind /\ e.pos = m + 1
    <2>1. kind \in ProcessedKinds /\ "" \in Statuses /\ kind # "tool" /\ kind # "toolcomplete"
          /\ 0 \in Nat
      BY DEF ProcessedKinds, Additions, Statuses
    <2> DEFINE blank == ""
    <2>2. e = Entry(kind, past[m + 1], 0, blank) /\ blank \in Statuses
      BY <2>1
    <2> HIDE DEF e, blank
    <2>3. kind \in ProcessedKinds /\ kind # "tool" /\ kind # "toolcomplete" /\ 0 \in Nat
      BY <2>1, Zenon
    <2> QED BY <2>2, <2>3, NewEntry
  <1> HIDE DEF e
  <1>3. list \in Seq(Item) /\ Grown(past, s.entries, list, m + 1) /\ Holds(list, kind, m + 1)
    BY <1>1, <1>2, AppendGrown
  <1>4. Noted(s, past[m + 1], kind) = t
    BY DEF Noted, e
  <1> HIDE DEF list
  <1>5. t \in Processor /\ t.entries = list /\ t.streaming = s.streaming /\ t.thinking = s.thinking
    BY <1>1, <1>3, EntriesReplaced
  <1> HIDE DEF t
  <1>6. ShownAt(past, t.entries, lo, m + 1)
    BY <1>3, <1>5 DEF ShownAt, At, Additions, TypesOf
  <1> QED BY <1>3, <1>4, <1>5, <1>6

(* user.message, session.error and copilot:tool-invocation.                *)
LEMMA NotedSaw ==
  ASSUME NEW past, LogOk(past), NEW lo \in Nat, NEW m \in Nat, lo <= m, m + 1 <= Len(past), NEW s, Saw(past, s, lo, m),
         NEW kind \in Additions \ {"reasoning"}, past[m + 1].type \in TypesOf(kind)
  PROVE  Saw(past, Noted(s, past[m + 1], kind), lo, m + 1)
  <1> DEFINE t == Noted(s, past[m + 1], kind)
  <1>1. /\ t \in Processor /\ t.streaming = s.streaming /\ t.thinking = s.thinking
        /\ Grown(past, s.entries, t.entries, m + 1) /\ ShownAt(past, t.entries, lo, m + 1)
    BY NotedIs
  <1>2. past[m + 1].type \notin {"assistant.message", "assistant.reasoning"}
    BY DEF Additions, TypesOf
  <1> HIDE DEF t
  <1>3. Saw(past, t, lo, m + 1)
    BY <1>1, <1>2, SawSame
  <1> QED BY <1>3 DEF t

(* assistant.reasoning closes the thought.                                 *)
LEMMA ReasoningSaw ==
  ASSUME NEW past, LogOk(past), NEW lo \in Nat, NEW m \in Nat, lo <= m, m + 1 <= Len(past), NEW s, Saw(past, s, lo, m),
         past[m + 1].type = "assistant.reasoning"
  PROVE  Saw(past, Reasoning(s, past[m + 1]), lo, m + 1)
  <1> DEFINE u == Noted(s, past[m + 1], "reasoning")
             t == [u EXCEPT !.thinking = FALSE]
  <1>1. /\ u \in Processor /\ u.streaming = s.streaming
        /\ Grown(past, s.entries, u.entries, m + 1) /\ ShownAt(past, u.entries, lo, m + 1)
    <2>1. "reasoning" \in Additions /\ past[m + 1].type \in TypesOf("reasoning")
      BY DEF Additions, TypesOf
    <2> QED BY <2>1, NotedIs
  <1>2. Reasoning(s, past[m + 1]) = t
    BY DEF Reasoning
  <1> HIDE DEF u
  <1>3. t \in Processor /\ t.entries = u.entries /\ t.streaming = u.streaming /\ t.thinking = FALSE
    BY <1>1 DEF Processor
  <1> HIDE DEF t
  <1>4. ~At(past, m + 1, "assistant.message")
    BY DEF At
  <1>5. t.streaming = s.streaming
    BY <1>1, <1>3
  <1>6. t.streaming => At(past, m + 1, "assistant.message_delta") \/ (s.streaming /\ ~At(past, m + 1, "assistant.message"))
    BY <1>4, <1>5, Zenon
  <1>7. t.thinking => At(past, m + 1, "assistant.reasoning_delta") \/ (s.thinking /\ ~At(past, m + 1, "assistant.reasoning"))
    BY <1>3, Zenon
  <1>8. Saw(past, t, lo, m + 1)
    BY <1>1, <1>3, <1>6, <1>7, SawStep
  <1> QED BY <1>2, <1>8

(* assistant.message_delta opens a bubble.                                 *)
LEMMA DeltaSaw ==
  ASSUME NEW past, LogOk(past), NEW lo \in Nat, NEW m \in Nat, lo <= m, m + 1 <= Len(past), NEW s, Saw(past, s, lo, m),
         past[m + 1].type = "assistant.message_delta"
  PROVE  Saw(past, MessageDelta(s), lo, m + 1)
  <1> DEFINE t == [s EXCEPT !.streaming = TRUE]
  <1>1. s \in Processor
    BY DEF Saw
  <1>2. t \in Processor /\ t.entries = s.entries /\ t.thinking = s.thinking
    BY <1>1 DEF Processor
  <1>3. MessageDelta(s) = t
    BY DEF MessageDelta
  <1> HIDE DEF t
  <1>4. At(past, m + 1, "assistant.message_delta") /\ ~At(past, m + 1, "assistant.reasoning")
    BY DEF At
  <1>5. ShownAt(past, t.entries, lo, m + 1)
    BY DEF ShownAt, At
  <1>6. t.streaming => At(past, m + 1, "assistant.message_delta") \/ (s.streaming /\ ~At(past, m + 1, "assistant.message"))
    BY <1>4, Zenon
  <1>7. t.thinking => At(past, m + 1, "assistant.reasoning_delta") \/ (s.thinking /\ ~At(past, m + 1, "assistant.reasoning"))
    BY <1>2, <1>4, Zenon
  <1>8. Saw(past, t, lo, m + 1)
    BY <1>2, <1>5, <1>6, <1>7, GrownSelf, SawStep
  <1> QED BY <1>3, <1>8

(* assistant.reasoning_delta opens a thought.                              *)
LEMMA ThoughtSaw ==
  ASSUME NEW past, LogOk(past), NEW lo \in Nat, NEW m \in Nat, lo <= m, m + 1 <= Len(past), NEW s, Saw(past, s, lo, m),
         past[m + 1].type = "assistant.reasoning_delta"
  PROVE  Saw(past, ReasoningDelta(s), lo, m + 1)
  <1> DEFINE t == [s EXCEPT !.thinking = TRUE]
  <1>1. s \in Processor
    BY DEF Saw
  <1>2. t \in Processor /\ t.entries = s.entries /\ t.streaming = s.streaming
    BY <1>1 DEF Processor
  <1>3. ReasoningDelta(s) = t
    BY DEF ReasoningDelta
  <1> HIDE DEF t
  <1>4. At(past, m + 1, "assistant.reasoning_delta") /\ ~At(past, m + 1, "assistant.message")
    BY DEF At
  <1>5. ShownAt(past, t.entries, lo, m + 1)
    BY DEF ShownAt, At
  <1>6. t.streaming => At(past, m + 1, "assistant.message_delta") \/ (s.streaming /\ ~At(past, m + 1, "assistant.message"))
    BY <1>2, <1>4, Zenon
  <1>7. t.thinking => At(past, m + 1, "assistant.reasoning_delta") \/ (s.thinking /\ ~At(past, m + 1, "assistant.reasoning"))
    BY <1>4, Zenon
  <1>8. Saw(past, t, lo, m + 1)
    BY <1>2, <1>5, <1>6, <1>7, GrownSelf, SawStep
  <1> QED BY <1>3, <1>8

(* Without a task there is no agent to hold entries.                       *)
LEMMA NoAgents ==
  ASSUME NEW past, LogOk(past), NEW lo \in Nat, NEW m \in Nat, m + 1 <= Len(past), NEW s, Saw(past, s, lo, m), NoTask(past)
  PROVE  \A k \in 1 .. Len(s.entries) : s.entries[k].kind # "agent"
  <1>1. s.entries \in Seq(Item) /\ EntriesOk(past, s.entries, lo, m)
    BY DEF Saw, Processor
  <1>2. Len(past) \in Nat /\ m <= Len(past)
    BY RecordIs
  <1> QED BY <1>1, <1>2, NoneHeld

(* assistant.message closes the bubble.                                    *)
LEMMA MessageSaw ==
  ASSUME NEW past, LogOk(past), NEW lo \in Nat, NEW m \in Nat, lo <= m, m + 1 <= Len(past), NEW s, Saw(past, s, lo, m),
         past[m + 1].type = "assistant.message"
  PROVE  Saw(past, AssistantMessage(s, past[m + 1]), lo, m + 1)
  <1> DEFINE ev == past[m + 1]
             parent == IF ev.call > 0 THEN ev.call ELSE Top(s.stack)
             e == Entry("assistant", ev, ev.call, "")
             list == Added(s.entries, parent, e)
             t == [s EXCEPT !.streaming = FALSE, !.entries = list]
  <1>1. s \in Processor /\ s.entries \in Seq(Item)
    BY DEF Saw, Processor
  <1>2. e \in Item /\ e \in Kid /\ New(past, e, m + 1) /\ e.kind = "assistant" /\ e.pos = m + 1
    <2>1. "assistant" \in ProcessedKinds /\ past[m + 1].type \in TypesOf("assistant") /\ "" \in Statuses
          /\ past[m + 1].call \in Nat
      BY RecordIs DEF ProcessedKinds, TypesOf, Statuses
    <2> DEFINE blank == ""
    <2>2. e = Entry("assistant", past[m + 1], past[m + 1].call, blank) /\ blank \in Statuses
      BY <2>1
    <2>3. "assistant" \in ProcessedKinds /\ past[m + 1].type \in TypesOf("assistant") /\ past[m + 1].call \in Nat
      BY <2>1, Zenon
    <2> HIDE DEF e, blank
    <2> QED BY <2>2, <2>3, NewEntry
  <1>3. AssistantMessage(s, past[m + 1]) = t
    BY DEF AssistantMessage
  <1> HIDE DEF e, parent
  <1>4. list \in Seq(Item) /\ Grown(past, s.entries, list, m + 1)
        /\ ((\A k \in 1 .. Len(s.entries) : s.entries[k].kind # "agent") => Holds(list, "assistant", m + 1))
    BY <1>1, <1>2, AddedGrown
  <1> HIDE DEF list
  <1>5. t \in Processor /\ t.entries = list /\ t.streaming = FALSE /\ t.thinking = s.thinking
    BY <1>1, <1>4 DEF Processor
  <1> HIDE DEF t
  <1>6. NoTask(past) => Holds(list, "assistant", m + 1)
    BY <1>4, NoAgents
  <1>7. ShownAt(past, t.entries, lo, m + 1)
    BY <1>5, <1>6 DEF ShownAt, At
  <1>8. t.streaming => At(past, m + 1, "assistant.message_delta") \/ (s.streaming /\ ~At(past, m + 1, "assistant.message"))
    BY <1>5, Zenon
  <1>9. ~At(past, m + 1, "assistant.reasoning")
    BY DEF At
  <1>10. t.thinking => At(past, m + 1, "assistant.reasoning_delta") \/ (s.thinking /\ ~At(past, m + 1, "assistant.reasoning"))
    BY <1>5, <1>9, Zenon
  <1>11. Grown(past, s.entries, t.entries, m + 1)
    BY <1>4, <1>5
  <1>12. Saw(past, t, lo, m + 1)
    BY <1>5, <1>7, <1>8, <1>10, <1>11, SawStep
  <1> QED BY <1>3, <1>12

(* tool.execution_start.                                                   *)
LEMMA ToolSaw ==
  ASSUME NEW past, LogOk(past), NEW lo \in Nat, NEW m \in Nat, lo <= m, m + 1 <= Len(past), NEW s, Saw(past, s, lo, m),
         past[m + 1].type = "tool.execution_start"
  PROVE  Saw(past, ToolStart(s, past[m + 1]), lo, m + 1)
  <1> DEFINE ev == past[m + 1]
             e == Entry("tool", ev, ev.pos, "running")
             top == Top(s.stack)
             list == Added(s.entries, top, e)
             starts == s.starts \cup {ev.pos}
             t == [s EXCEPT !.starts = starts, !.entries = list]
  <1>1. s \in Processor /\ s.entries \in Seq(Item)
    BY DEF Saw, Processor
  <1>2. ev.pos = m + 1 /\ m + 1 \in Stamps
    BY RecordIs
  <1>3. e \in Item /\ e \in Kid /\ New(past, e, m + 1) /\ e.kind = "tool" /\ e.pos = m + 1
    <2>1. "tool" \in ProcessedKinds /\ past[m + 1].type \in TypesOf("tool") /\ "running" \in Statuses
          /\ m + 1 \in Nat
      BY <1>2 DEF ProcessedKinds, TypesOf, Statuses
    <2>2. e = Entry("tool", past[m + 1], m + 1, "running")
      BY <1>2
    <2> HIDE DEF e
    <2> QED BY <2>1, <2>2, NewEntry, SMTT(30)
  <1>4. ToolStart(s, past[m + 1]) = t
    BY DEF ToolStart
  <1>5. starts \in SUBSET Stamps
    BY <1>1, <1>2 DEF Processor
  <1> HIDE DEF e, top, starts
  <1>6. list \in Seq(Item) /\ Grown(past, s.entries, list, m + 1)
        /\ ((\A k \in 1 .. Len(s.entries) : s.entries[k].kind # "agent") => Holds(list, "tool", m + 1))
    BY <1>1, <1>3, AddedGrown
  <1> HIDE DEF list
  <1>7. t \in Processor /\ t.entries = list /\ t.streaming = s.streaming /\ t.thinking = s.thinking
    BY <1>1, <1>5, <1>6 DEF Processor
  <1> HIDE DEF t
  <1>8. NoTask(past) => Holds(list, "tool", m + 1)
    BY <1>6, NoAgents
  <1>9. ShownAt(past, t.entries, lo, m + 1)
    BY <1>7, <1>8 DEF ShownAt, At
  <1>10. Grown(past, s.entries, t.entries, m + 1)
    BY <1>6, <1>7
  <1> QED BY <1>4, <1>7, <1>9, <1>10, SawSame

(* task.start.                                                             *)
LEMMA TaskSaw ==
  ASSUME NEW past, LogOk(past), NEW lo \in Nat, NEW m \in Nat, lo <= m, m + 1 <= Len(past), NEW s, Saw(past, s, lo, m),
         past[m + 1].type = "task.start"
  PROVE  Saw(past, TaskStart(s, past[m + 1]), lo, m + 1)
  <1> DEFINE ev == past[m + 1]
             e == Entry("agent", ev, ev.pos, "running")
             list == Append(s.entries, e)
             starts == s.starts \cup {ev.pos}
             t == [s EXCEPT !.starts = starts, !.entries = list]
  <1>1. s \in Processor /\ s.entries \in Seq(Item)
    BY DEF Saw, Processor
  <1>2. ev.pos = m + 1 /\ m + 1 \in Stamps
    BY RecordIs
  <1>3. e \in Item /\ New(past, e, m + 1)
    <2>1. "agent" \in ProcessedKinds /\ past[m + 1].type \in TypesOf("agent") /\ "running" \in Statuses
          /\ m + 1 \in Nat
      BY <1>2 DEF ProcessedKinds, TypesOf, Statuses
    <2>2. e = Entry("agent", past[m + 1], m + 1, "running")
      BY <1>2
    <2> HIDE DEF e
    <2> QED BY <2>1, <2>2, NewEntry, SMTT(30)
  <1>4. TaskStart(s, past[m + 1]) = t
    BY DEF TaskStart
  <1>5. starts \in SUBSET Stamps
    BY <1>1, <1>2 DEF Processor
  <1> HIDE DEF e, starts
  <1>6. list \in Seq(Item) /\ Grown(past, s.entries, list, m + 1)
    BY <1>1, <1>3, AppendGrown
  <1> HIDE DEF list
  <1>7. t \in Processor /\ t.entries = list /\ t.streaming = s.streaming /\ t.thinking = s.thinking
    BY <1>1, <1>5, <1>6 DEF Processor
  <1> HIDE DEF t
  <1>8. ShownAt(past, t.entries, lo, m + 1)
    BY DEF ShownAt, At
  <1>9. Grown(past, s.entries, t.entries, m + 1)
    BY <1>6, <1>7
  <1> QED BY <1>4, <1>7, <1>8, <1>9, SawSame

(* Without tasks, the entries of a call are that of its start.             *)
LEMMA OwnTool ==
  ASSUME NEW past, LogOk(past), NEW lo \in Nat, NEW m \in Nat, lo <= m, m + 1 <= Len(past), NEW s, Saw(past, s, lo, m),
         past[m + 1].type = "tool.execution_complete", NoTask(past), past[m + 1].call > lo
  PROVE  /\ \E k \in 1 .. Len(s.entries) : s.entries[k].call = past[m + 1].call /\ IsTool(s.entries[k])
         /\ \A k \in 1 .. Len(s.entries) :
              s.entries[k].call = past[m + 1].call /\ IsTool(s.entries[k]) =>
                s.entries[k].kind = "tool" /\ s.entries[k].pos = past[m + 1].call
  <1> DEFINE call == past[m + 1].call
             list == s.entries
  <1>1. Len(past) \in Nat /\ m + 1 \in 1 .. Len(past)
    BY RecordIs
  <1>2. At(past, m + 1, "tool.execution_complete")
    BY DEF At
  <1>3. call \in 1 .. (m + 1) - 1 /\ At(past, call, "tool.execution_start")
    BY <1>1, <1>2 DEF LogOk
  <1>4. call \in lo + 1 .. m
    BY <1>3
  <1>5. Holds(list, "tool", call)
    BY <1>3, <1>4 DEF Saw, EventsShown, ShownAt
  <1>6. \A k \in 1 .. Len(list) :
          /\ list[k].pos \in lo + 1 .. m /\ list[k].ts = past[list[k].pos].ts
          /\ past[list[k].pos].type \in TypesOf(list[k].kind)
          /\ list[k].kind = "tool" => list[k].call = list[k].pos
          /\ list[k].kind = "toolcomplete" => list[k].call = past[list[k].pos].call
    BY DEF Saw, EntriesOk
  <1>7. \A k \in 1 .. Len(list) : list[k].kind # "agent"
    BY NoAgents
  <1> HIDE DEF list, call
  <1>8. \E k \in 1 .. Len(list) : list[k].call = call /\ IsTool(list[k])
    <2>2. PICK k \in 1 .. Len(list) : list[k].kind = "tool" /\ list[k].pos = call
      BY <1>5 DEF Holds
    <2> QED BY <1>6, <2>2 DEF IsTool
  <1>9. ASSUME NEW k \in 1 .. Len(list), list[k].call = call, IsTool(list[k]) PROVE list[k].kind = "tool" /\ list[k].pos = call
    <2>1. list[k].kind \in {"tool", "toolcomplete"}
      BY <1>7, <1>9 DEF IsTool
    <2>2. CASE list[k].kind = "tool"
      BY <1>6, <1>9, <2>2
    <2>3. CASE list[k].kind = "toolcomplete"
      <3>1. list[k].pos \in 1 .. m /\ past[list[k].pos].type = "tool.execution_complete"
            /\ past[list[k].pos].call = past[m + 1].call
        BY <1>6, <1>9, <2>3 DEF TypesOf, call
      <3>2. list[k].pos \in 1 .. Len(past)
        BY <1>1, <3>1
      <3>3. list[k].pos = m + 1
        BY <1>1, <1>2, <3>1, <3>2 DEF LogOk, At
      <3> QED BY <3>1, <3>3
    <2> QED BY <2>1, <2>2, <2>3
  <1> QED BY <1>8, <1>9 DEF list, call

(* tool.execution_complete settles the entry of its call.                  *)
LEMMA CompleteSaw ==
  ASSUME NEW past, LogOk(past), NEW lo \in Nat, NEW m \in Nat, lo <= m, m + 1 <= Len(past), NEW s, Saw(past, s, lo, m),
         past[m + 1].type = "tool.execution_complete"
  PROVE  Saw(past, ToolComplete(s, past[m + 1]), lo, m + 1)
  <1> DEFINE ev == past[m + 1]
             owner == IF Top(s.stack) = ev.call THEN 0 ELSE Top(s.stack)
             entries == s.entries
             h == Holder(entries, owner)
             new == Entry("toolcomplete", ev, ev.call, "completed")
             whole == Complete(entries, ev)
             kids == Complete(entries[h].kids, ev)
             list == IF h = 0 THEN whole ELSE [entries EXCEPT ![h].kids = kids]
             t == [s EXCEPT !.entries = list]
  <1>1. s \in Processor /\ entries \in Seq(Item)
    BY DEF Saw, Processor
  <1>2. ev.pos = m + 1 /\ ev.pos \in Nat /\ ev.ts \in Nat /\ ev.call \in Nat
    BY RecordIs
  <1>3. ToolComplete(s, ev) = t
    BY DEF ToolComplete, WithList, ListOf
  <1>4. h \in {0} \cup (1 .. Len(entries)) /\ ((\A k \in 1 .. Len(entries) : entries[k].kind # "agent") => h = 0)
    BY <1>1, HolderIs
  <1>5. NoTask(past) => h = 0
    BY <1>4, NoAgents
  <1>6. new \in Item /\ New(past, new, m + 1)
    <2>1. "toolcomplete" \in ProcessedKinds /\ ev.type \in TypesOf("toolcomplete")
          /\ "completed" \in Statuses
      BY DEF ProcessedKinds, TypesOf, Statuses
    <2> QED BY <1>2, <2>1, NewEntry
  <1>7. ASSUME NoTask(past), ev.call > lo
        PROVE  /\ \E k \in 1 .. Len(entries) : entries[k].call = ev.call /\ IsTool(entries[k])
               /\ \A k \in 1 .. Len(entries) :
                    entries[k].call = ev.call /\ IsTool(entries[k]) => entries[k].kind = "tool" /\ entries[k].pos = ev.call
    <2> HIDE DEF list, kids, whole, new, h, owner, t
    <2>1. NoTask(past) /\ past[m + 1].call > lo
      BY <1>7
    <2>2. /\ \E k \in 1 .. Len(s.entries) : s.entries[k].call = past[m + 1].call /\ IsTool(s.entries[k])
          /\ \A k \in 1 .. Len(s.entries) :
               s.entries[k].call = past[m + 1].call /\ IsTool(s.entries[k]) =>
                 s.entries[k].kind = "tool" /\ s.entries[k].pos = past[m + 1].call
      BY <2>1, OwnTool, SMTT(30)
    <2> QED BY <2>2
  <1>8. list \in Seq(Item) /\ Grown(past, entries, list, m + 1)
        /\ (NoTask(past) /\ ev.call > lo => HoldsDone(list, "tool", ev.call))
    <2>1. CASE h = 0
      <3>1. whole \in Seq(Item) /\ SettlesOrAdds(entries, ev, whole)
        <4>1. << >> \in Seq(Kid) /\ Item = ItemWith(Seq(Kid))
          BY NoKids DEF Item
        <4>2. ev.pos \in Nat /\ ev.ts \in Nat /\ ev.call \in Nat
          BY <1>2
        <4> DEFINE K == Seq(Kid)
        <4>3. << >> \in K /\ Item = ItemWith(K)
          BY <4>1
        <4>4. entries \in Seq(ItemWith(K))
          BY <1>1, <4>3
        <4>5. new = Entry("toolcomplete", ev, ev.call, "completed") /\ whole = Complete(entries, ev)
          OBVIOUS
        <4> HIDE DEF list, kids, whole, new, h, owner, t, ev, entries, K
        <4>7. Complete(entries, ev) \in Seq(ItemWith(K)) /\ SettlesOrAdds(entries, ev, Complete(entries, ev))
          BY <4>2, <4>3, <4>4, CompleteIs
        <4> QED BY <4>3, <4>5, <4>7
      <3>2. list = whole
        BY <2>1
      <3>5. \/ /\ whole = Append(entries, new)
               /\ \A k \in 1 .. Len(entries) : ~(entries[k].call = ev.call /\ IsTool(entries[k]))
            \/ \E i \in 1 .. Len(entries) :
                 /\ whole = [entries EXCEPT ![i].status = "completed"]
                 /\ \A k \in 1 .. Len(entries) :
                      entries[k].call = ev.call /\ IsTool(entries[k]) =>
                        entries[i].call = ev.call /\ IsTool(entries[i])
        <4> HIDE DEF whole, ev, entries
        <4> QED BY <3>1 DEF SettlesOrAdds
      <3> HIDE DEF list, whole, new, h, ev, entries, kids
      <3>3. CASE whole = Append(entries, new)
                 /\ \A k \in 1 .. Len(entries) : ~(entries[k].call = ev.call /\ IsTool(entries[k]))
        <4>1. Grown(past, entries, Append(entries, new), m + 1)
          BY <1>1, <1>6, AppendGrown
        <4> QED BY <1>7, <3>1, <3>2, <3>3, <4>1
      <3>4. ASSUME NEW i \in 1 .. Len(entries), whole = [entries EXCEPT ![i].status = "completed"],
                   \A k \in 1 .. Len(entries) :
                     entries[k].call = ev.call /\ IsTool(entries[k]) => entries[i].call = ev.call /\ IsTool(entries[i])
            PROVE  Grown(past, entries, whole, m + 1) /\ (NoTask(past) /\ ev.call > lo => HoldsDone(whole, "tool", ev.call))
        <4>1. Grown(past, entries, whole, m + 1) /\ HoldsDone(whole, entries[i].kind, entries[i].pos)
          BY <1>1, <3>4, DoneGrown
        <4>2. NoTask(past) /\ ev.call > lo => entries[i].kind = "tool" /\ entries[i].pos = ev.call
          BY <1>7, <3>4
        <4> QED BY <4>1, <4>2
      <3> QED BY <3>1, <3>2, <3>3, <3>4, <3>5
    <2>2. CASE h \in 1 .. Len(entries)
      <3>1. h # 0
        BY <2>2
      <3>2. entries[h].kids \in Seq(Kid)
        <4> HIDE DEF h, entries
        <4> QED BY <1>1, <2>2, KidsAre
      <3>3. kids \in Seq(Kid)
        <4>1. << >> \in {<< >>} /\ Kid = ItemWith({<< >>})
          BY NoKids DEF Kid
        <4>2. ev.pos \in Nat /\ ev.ts \in Nat /\ ev.call \in Nat
          BY <1>2
        <4> DEFINE had == entries[h].kids
        <4>3. had \in Seq(Kid) /\ kids = Complete(had, ev)
          BY <3>2
        <4> HIDE DEF ev, h, entries, had, kids
        <4> QED BY <4>1, <4>2, <4>3, CompleteIs
      <3>4. list = [entries EXCEPT ![h].kids = kids]
        BY <3>1
      <3> HIDE DEF list, kids, h, entries, ev
      <3>5. list \in Seq(Item) /\ Grown(past, entries, list, m + 1)
        BY <1>1, <2>2, <3>3, <3>4, KidsGrown
      <3> QED BY <1>5, <3>1, <3>5
    <2> QED BY <1>4, <2>1, <2>2
  <1> HIDE DEF list
  <1>9. t \in Processor /\ t.entries = list /\ t.streaming = s.streaming /\ t.thinking = s.thinking
    BY <1>1, <1>8, EntriesReplaced
  <1> HIDE DEF t
  <1>10. ShownAt(past, t.entries, lo, m + 1)
    BY <1>8, <1>9 DEF ShownAt, At
  <1>11. Grown(past, s.entries, t.entries, m + 1)
    BY <1>8, <1>9
  <1> QED BY <1>3, <1>9, <1>10, <1>11, SawSame

(* task.complete.                                                          *)
LEMMA TaskEndSaw ==
  ASSUME NEW past, LogOk(past), NEW lo \in Nat, NEW m \in Nat, lo <= m, m + 1 <= Len(past), NEW s, Saw(past, s, lo, m),
         past[m + 1].type = "task.complete"
  PROVE  Saw(past, TaskComplete(s, past[m + 1]), lo, m + 1)
  <1> DEFINE entries == s.entries
             n == Len(entries)
             C == Container(entries, past[m + 1].call)
             list == [i \in DOMAIN entries |-> IF i \in C THEN [entries[i] EXCEPT !.status = "completed"] ELSE entries[i]]
             t == [s EXCEPT !.entries = list]
  <1>1. s \in Processor /\ entries \in Seq(Item)
    BY DEF Saw, Processor
  <1>2. TaskComplete(s, past[m + 1]) = t
    BY DEF TaskComplete
  <1>3. n \in Nat /\ DOMAIN entries = 1 .. n /\ \A i \in 1 .. n : entries[i] \in Item
    BY <1>1
  <1> HIDE DEF C, entries, n
  <1>4. \A i \in 1 .. n : list[i] = IF i \in C THEN [entries[i] EXCEPT !.status = "completed"] ELSE entries[i]
    BY <1>3
  <1>5. ASSUME NEW i \in 1 .. n PROVE list[i] \in Item /\ Stays(entries[i], list[i])
    <2> DEFINE x == entries[i]
               y == [x EXCEPT !.status = "completed"]
    <2>1. x \in Item /\ list[i] \in {x, y}
      BY <1>3, <1>4
    <2>2. y \in Item /\ y.kind = x.kind /\ y.pos = x.pos /\ y.ts = x.ts /\ y.call = x.call /\ y.status = "completed"
      <3> HIDE DEF x
      <3> QED BY <2>1, CompletedIs DEF Item
    <2> HIDE DEF list, x, y
    <2>3. list[i] \in Item /\ Stays(x, list[i])
      BY <2>1, <2>2 DEF Stays
    <2> QED BY <2>3 DEF x
  <1>6. list \in [1 .. n -> Item]
    <2>1. list = [i \in 1 .. n |-> list[i]]
      BY <1>3
    <2> HIDE DEF list
    <2> QED BY <1>5, <2>1
  <1> HIDE DEF list
  <1>7. list \in Seq(Item) /\ Len(list) = n
    BY <1>3, <1>6, ListFrom
  <1>8. Grown(past, entries, list, m + 1)
    BY <1>5, <1>7 DEF Grown, n
  <1>9. t \in Processor /\ t.entries = list /\ t.streaming = s.streaming /\ t.thinking = s.thinking
    BY <1>1, <1>7, EntriesReplaced
  <1> HIDE DEF t
  <1>10. ShownAt(past, t.entries, lo, m + 1)
    BY DEF ShownAt, At
  <1>11. Grown(past, s.entries, t.entries, m + 1)
    BY <1>8, <1>9 DEF entries
  <1> QED BY <1>2, <1>9, <1>10, <1>11, SawSame

(* subagent.started and subagent.completed.                                *)
LEMMA SubagentSaw ==
  ASSUME NEW past, LogOk(past), NEW lo \in Nat, NEW m \in Nat, lo <= m, m + 1 <= Len(past), NEW s, Saw(past, s, lo, m),
         past[m + 1].type \in {"subagent.started", "subagent.completed"},
         NEW stack \in Seq(Stamps)
  PROVE  Saw(past, [s EXCEPT !.stack = stack], lo, m + 1)
  <1> DEFINE t == [s EXCEPT !.stack = stack]
  <1>1. s \in Processor
    BY DEF Saw
  <1>2. t \in Processor /\ t.entries = s.entries /\ t.streaming = s.streaming /\ t.thinking = s.thinking
    BY <1>1 DEF Processor
  <1> HIDE DEF t
  <1>3. ShownAt(past, t.entries, lo, m + 1)
    BY DEF ShownAt, At
  <1>4. past[m + 1].type \notin {"assistant.message", "assistant.reasoning"}
    OBVIOUS
  <1>5. Saw(past, t, lo, m + 1)
    BY <1>2, <1>3, <1>4, GrownSelf, SawSame
  <1> QED BY <1>5 DEF t

(* Whatever the event, the processor has seen one event more.              *)
LEMMA ProcessSaw ==
  ASSUME NEW past, LogOk(past), NEW lo \in Nat, NEW m \in Nat, lo <= m, m + 1 <= Len(past), NEW s, Saw(past, s, lo, m)
  PROVE  Saw(past, ProcessSessionEvent(s, past[m + 1]), lo, m + 1)
  <1> DEFINE ev == past[m + 1]
  <1>1. ev.type \in LogTypes /\ Len(past) \in Nat
    BY RecordIs
  <1>2. s.stack \in Seq(Stamps)
    BY DEF Saw, Processor
  <1>3. CASE ev.type = "user.message"
    <2>1. ProcessSessionEvent(s, ev) = Noted(s, ev, "user")
      BY <1>3 DEF ProcessSessionEvent, UserMessage, Noted
    <2>2. "user" \in Additions \ {"reasoning"} /\ ev.type \in TypesOf("user")
      BY <1>3 DEF Additions, TypesOf
    <2> QED BY <2>1, <2>2, NotedSaw
  <1>4. CASE ev.type = "assistant.message_delta"
    <2>1. ProcessSessionEvent(s, ev) = MessageDelta(s)
      BY <1>4 DEF ProcessSessionEvent
    <2> QED BY <1>4, <2>1, DeltaSaw
  <1>5. CASE ev.type = "assistant.reasoning_delta"
    <2>1. ProcessSessionEvent(s, ev) = ReasoningDelta(s)
      BY <1>5 DEF ProcessSessionEvent
    <2> QED BY <1>5, <2>1, ThoughtSaw
  <1>6. CASE ev.type = "assistant.reasoning"
    <2>1. ProcessSessionEvent(s, ev) = Reasoning(s, ev)
      BY <1>6 DEF ProcessSessionEvent
    <2> QED BY <1>6, <2>1, ReasoningSaw
  <1>7. CASE ev.type = "assistant.message"
    <2>1. ProcessSessionEvent(s, ev) = AssistantMessage(s, ev)
      BY <1>7 DEF ProcessSessionEvent
    <2> QED BY <1>7, <2>1, MessageSaw
  <1>8. CASE ev.type = "tool.execution_start"
    <2>1. ProcessSessionEvent(s, ev) = ToolStart(s, ev)
      BY <1>8 DEF ProcessSessionEvent
    <2> QED BY <1>8, <2>1, ToolSaw
  <1>9. CASE ev.type = "task.start"
    <2>1. ProcessSessionEvent(s, ev) = TaskStart(s, ev)
      BY <1>9 DEF ProcessSessionEvent
    <2> QED BY <1>9, <2>1, TaskSaw
  <1>10. CASE ev.type = "tool.execution_complete"
    <2>1. ProcessSessionEvent(s, ev) = ToolComplete(s, ev)
      BY <1>10 DEF ProcessSessionEvent
    <2> QED BY <1>10, <2>1, CompleteSaw
  <1>11. CASE ev.type = "task.complete"
    <2>1. ProcessSessionEvent(s, ev) = TaskComplete(s, ev)
      BY <1>11 DEF ProcessSessionEvent
    <2> QED BY <1>11, <2>1, TaskEndSaw
  <1>12. CASE ev.type = "subagent.started"
    <2>1. ProcessSessionEvent(s, ev) = [s EXCEPT !.stack = Append(s.stack, ev.call)]
      BY <1>12 DEF ProcessSessionEvent, SubagentStarted
    <2>2. m + 1 \in 1 .. Len(past)
      BY <1>1
    <2>3. ev.call \in Stamps
      BY <1>12, <2>2 DEF LogOk, At
    <2> DEFINE stack == Append(s.stack, ev.call)
    <2>4. stack \in Seq(Stamps)
      <3> HIDE DEF ev
      <3> QED BY <1>2, <2>3
    <2> HIDE DEF stack
    <2>5. Saw(past, [s EXCEPT !.stack = stack], lo, m + 1)
      BY <1>12, <2>4, SubagentSaw
    <2> QED BY <2>1, <2>5 DEF stack
  <1>13. CASE ev.type = "subagent.completed"
    <2> DEFINE stack == Without(s.stack, {ev.call})
    <2>1. ProcessSessionEvent(s, ev) = [s EXCEPT !.stack = stack]
      BY <1>13 DEF ProcessSessionEvent, SubagentEnded
    <2>2. stack \in Seq(Stamps)
      BY <1>2, WithoutKeeps
    <2> HIDE DEF stack
    <2>3. Saw(past, [s EXCEPT !.stack = stack], lo, m + 1)
      BY <1>13, <2>2, SubagentSaw
    <2> QED BY <2>1, <2>3
  <1>14. CASE ev.type = "session.error"
    <2>1. ProcessSessionEvent(s, ev) = Noted(s, ev, "error")
      BY <1>14 DEF ProcessSessionEvent
    <2>2. "error" \in Additions \ {"reasoning"} /\ ev.type \in TypesOf("error")
      BY <1>14 DEF Additions, TypesOf
    <2> QED BY <2>1, <2>2, NotedSaw
  <1>15. CASE ev.type = "copilot:tool-invocation"
    <2>1. ProcessSessionEvent(s, ev) = Noted(s, ev, "hqtool")
      BY <1>15 DEF ProcessSessionEvent
    <2>2. "hqtool" \in Additions \ {"reasoning"} /\ ev.type \in TypesOf("hqtool")
      BY <1>15 DEF Additions, TypesOf
    <2> QED BY <2>1, <2>2, NotedSaw
  <1> QED BY <1>1, <1>3, <1>4, <1>5, <1>6, <1>7, <1>8, <1>9, <1>10, <1>11, <1>12, <1>13, <1>14, <1>15 DEF LogTypes

(* A new processor has seen nothing.                                       *)
LEMMA NothingSaw ==
  ASSUME NEW past, NEW lo \in Nat
  PROVE  Saw(past, NothingProcessed, lo, lo)
  <1> DEFINE s == NothingProcessed
             none == << >>
  <1>1. none \in Seq(Item) /\ none \in Seq(Stamps) /\ Len(none) = 0
    BY EmptySeq
  <1>2. s.entries = none /\ s.stack = none /\ s.starts = {} /\ s.streaming = FALSE /\ s.thinking = FALSE
        /\ s = [entries |-> none, stack |-> none, starts |-> {}, streaming |-> FALSE, thinking |-> FALSE]
    BY DEF NothingProcessed
  <1> HIDE DEF s, none
  <1>3. s \in Processor
    BY <1>1, <1>2 DEF Processor
  <1>4. \A i \in lo + 1 .. lo : FALSE
    OBVIOUS
  <1>5. EntriesOk(past, s.entries, lo, lo)
    BY <1>1, <1>2 DEF EntriesOk
  <1>6. EventsShown(past, s.entries, lo, lo)
    BY <1>4 DEF EventsShown
  <1>7. ~s.streaming /\ ~s.thinking
    BY <1>2, Zenon
  <1>8. Saw(past, s, lo, lo)
    BY <1>3, <1>5, <1>6, <1>7, Zenon DEF Saw
  <1> QED BY <1>8 DEF s

(* A batch has seen all its events.                                        *)
LEMMA BatchSaw ==
  ASSUME LogOk(sessionLog), NEW lo \in Nat, NEW hi \in Nat, lo <= hi, hi <= Len(sessionLog)
  PROVE  Saw(sessionLog, ProcessEventBatch(lo, hi), lo, hi)
  <1> DEFINE Step(f, i) == IF i = lo THEN NothingProcessed ELSE ProcessSessionEvent(f[i - 1], sessionLog[i])
             Good(m) == {f \in [lo .. m -> Processor] :
                           \A i \in lo .. m : f[i] = Step(f, i) /\ Saw(sessionLog, f[i], lo, i)}
             S == {d \in Nat : lo + d <= hi => Good(lo + d) # {}}
  <1>1. Len(sessionLog) \in Nat
    BY DEF LogOk
  <1>2. 0 \in S
    <2> DEFINE f == [i \in lo .. lo |-> NothingProcessed]
    <2>1. Saw(sessionLog, NothingProcessed, lo, lo) /\ NothingProcessed \in Processor
      BY NothingSaw DEF Saw
    <2>2. f \in [lo .. lo -> Processor] /\ \A i \in lo .. lo : i = lo /\ f[i] = NothingProcessed
      BY <2>1
    <2> HIDE DEF f
    <2>3. f \in Good(lo)
      BY <2>1, <2>2
    <2>4. lo + 0 = lo
      OBVIOUS
    <2> HIDE DEF Good
    <2> QED BY <2>3, <2>4
  <1>3. ASSUME NEW d \in Nat, d \in S PROVE d + 1 \in S
    <2> HIDE DEF Good
    <2> DEFINE m == lo + d
    <2>8. m \in Nat /\ lo <= m /\ lo + (d + 1) = m + 1
      OBVIOUS
    <2> SUFFICES ASSUME m + 1 <= hi PROVE Good(m + 1) # {}
      BY <2>8
    <2>1. PICK f \in Good(m) : TRUE
      BY <1>1, <1>3
    <2> HIDE DEF m
    <2>2. f \in [lo .. m -> Processor] /\ \A i \in lo .. m : f[i] = Step(f, i) /\ Saw(sessionLog, f[i], lo, i)
      BY <2>1 DEF Good
    <2> DEFINE last == ProcessSessionEvent(f[m], sessionLog[m + 1])
               g == [i \in lo .. m + 1 |-> IF i <= m THEN f[i] ELSE last]
    <2>3. Saw(sessionLog, last, lo, m + 1) /\ last \in Processor
      <3>1. Saw(sessionLog, f[m], lo, m) /\ m + 1 <= Len(sessionLog)
        <4>1. m \in lo .. m
          BY <2>8
        <4> QED BY <1>1, <2>2, <2>8, <4>1
      <3>2. Saw(sessionLog, last, lo, m + 1)
        BY <2>8, <3>1, ProcessSaw
      <3> QED BY <3>2 DEF Saw
    <2> HIDE DEF last, Step
    <2>4. (\A i \in lo .. m : g[i] = f[i]) /\ g[m + 1] = last
      BY <2>8
    <2>5. g \in [lo .. m + 1 -> Processor]
      BY <2>2, <2>3, <2>8
    <2> HIDE DEF g
    <2>6. ASSUME NEW i \in lo .. m + 1 PROVE g[i] = Step(g, i) /\ Saw(sessionLog, g[i], lo, i)
      <3>1. CASE i = lo
        <4>1. lo \in lo .. m
          BY <2>8
        <4>2. g[lo] = f[lo] /\ f[lo] = Step(f, lo) /\ Saw(sessionLog, f[lo], lo, lo)
          BY <2>2, <2>4, <4>1
        <4>3. Step(g, lo) = Step(f, lo)
          BY DEF Step
        <4> QED BY <3>1, <4>2, <4>3
      <3>2. CASE i \in lo + 1 .. m
        <4>1. i \in lo .. m /\ i - 1 \in lo .. m /\ i # lo
          BY <2>8, <3>2
        <4>2. g[i] = f[i] /\ f[i] = Step(f, i) /\ Saw(sessionLog, f[i], lo, i) /\ g[i - 1] = f[i - 1]
          BY <2>2, <2>4, <4>1
        <4>3. Step(g, i) = Step(f, i)
          BY <4>2 DEF Step
        <4> QED BY <4>2, <4>3
      <3>3. CASE i = m + 1
        <4>1. m \in lo .. m /\ m + 1 # lo /\ (m + 1) - 1 = m
          BY <2>8
        <4>2. g[m] = f[m]
          BY <2>4, <4>1
        <4>3. Step(g, m + 1) = last
          BY <4>1, <4>2 DEF Step, last
        <4> QED BY <2>3, <2>4, <3>3, <4>3
      <3>4. i = lo \/ i \in lo + 1 .. m \/ i = m + 1
        BY <2>8
      <3> QED BY <3>1, <3>2, <3>3, <3>4
    <2>7. g \in Good(m + 1)
      BY <2>5, <2>6 DEF Good
    <2> QED BY <2>7
  <1>4. Good(hi) # {}
    <2> HIDE DEF Good
    <2>1. hi - lo \in Nat /\ lo + (hi - lo) = hi
      OBVIOUS
    <2>3. ASSUME hi - lo \in S PROVE Good(hi) # {}
      BY <2>1, <2>3
    <2> HIDE DEF S
    <2>2. Nat \subseteq S
      BY <1>2, <1>3, SetInduction
    <2> QED BY <2>1, <2>2, <2>3
  <1> HIDE DEF S, Good
  <1>5. PICK f \in Good(hi) : TRUE
    BY <1>4
  <1>6. f \in [lo .. hi -> Processor] /\ \A i \in lo .. hi : f[i] = Step(f, i) /\ Saw(sessionLog, f[i], lo, i)
    BY <1>5 DEF Good
  <1> DEFINE after == CHOOSE g : g = [i \in lo .. hi |-> Step(g, i)]
  <1>7. after = [i \in lo .. hi |-> Step(after, i)]
    <2>1. f = [i \in lo .. hi |-> Step(f, i)]
      <3> HIDE DEF Step
      <3> QED BY <1>6
    <2> HIDE DEF Step
    <2> QED BY <2>1
  <1>8. ProcessEventBatch(lo, hi) = after[hi]
    BY DEF ProcessEventBatch
  <1> HIDE DEF after
  <1>9. \A i \in lo .. hi : after[i] = Step(after, i)
    <2> HIDE DEF Step
    <2> QED BY <1>7
  <1> DEFINE R == {d \in Nat : lo + d <= hi => after[lo + d] = f[lo + d]}
  <1>10. 0 \in R
    <2>1. lo \in lo .. hi /\ lo + 0 = lo
      OBVIOUS
    <2>2. after[lo] = Step(after, lo) /\ f[lo] = Step(f, lo)
      <3> HIDE DEF Step
      <3> QED BY <1>6, <1>9, <2>1
    <2> QED BY <2>1, <2>2
  <1>11. ASSUME NEW d \in Nat, d \in R PROVE d + 1 \in R
    <2> DEFINE m == lo + d
    <2> SUFFICES ASSUME m + 1 <= hi PROVE after[m + 1] = f[m + 1]
      OBVIOUS
    <2>1. m + 1 \in lo .. hi /\ (m + 1) - 1 = m /\ m + 1 # lo
      OBVIOUS
    <2>2. after[m + 1] = Step(after, m + 1) /\ f[m + 1] = Step(f, m + 1)
      <3> HIDE DEF Step
      <3> QED BY <1>6, <1>9, <2>1
    <2>3. after[m] = f[m]
      BY <1>11
    <2>4. Step(after, m + 1) = Step(f, m + 1)
      <3> HIDE DEF m
      <3> QED BY <2>1, <2>3
    <2> HIDE DEF Step, m
    <2> QED BY <2>2, <2>4
  <1>12. after[hi] = f[hi]
    <2>1. hi - lo \in Nat /\ lo + (hi - lo) = hi
      OBVIOUS
    <2>3. ASSUME hi - lo \in R PROVE after[hi] = f[hi]
      BY <2>1, <2>3
    <2> HIDE DEF R
    <2>2. Nat \subseteq R
      BY <1>10, <1>11, SetInduction
    <2> QED BY <2>1, <2>2, <2>3
  <1>13. hi \in lo .. hi
    OBVIOUS
  <1> HIDE DEF Step
  <1> QED BY <1>6, <1>8, <1>12, <1>13

-----------------------------------------------------------------------------
(* The only entry of its kinds for a position.                             *)

EntryOf(e, K, i) == e.kind \in K /\ e.pos = i

Sole(list, K, i) ==
  \E k \in 1 .. Len(list) : EntryOf(list[k], K, i) /\ \A j \in 1 .. Len(list) : EntryOf(list[j], K, i) => j = k

NoneOf(list, K, i) == \A k \in 1 .. Len(list) : ~EntryOf(list[k], K, i)

(* What remains of a list is of the list.                                  *)
LEMMA KeepsIs ==
  ASSUME NEW M, NEW s \in Seq(M), NEW T
  PROVE  /\ \A k \in 1 .. Len(Without(s, T)) : Contains(s, Without(s, T)[k]) /\ Without(s, T)[k] \notin T
         /\ \A e : Contains(s, e) /\ e \notin T => Contains(Without(s, T), e)
  <1> DEFINE w == Without(s, T)
             n == Len(s)
  <1>1. Keeps(w, s, n, T)
    BY WithoutKeeps
  <1>2. PICK f \in [1 .. Len(w) -> 1 .. n] :
          /\ \A k \in 1 .. Len(w) : w[k] = s[f[k]] /\ s[f[k]] \notin T
          /\ \A j \in 1 .. n : s[j] \notin T => \E k \in 1 .. Len(w) : f[k] = j
    <2> HIDE DEF w, n
    <2> QED BY <1>1 DEF Keeps
  <1> HIDE DEF w, n
  <1>3. ASSUME NEW k \in 1 .. Len(w) PROVE (\E j \in 1 .. n : s[j] = w[k]) /\ w[k] \notin T
    <2>1. f[k] \in 1 .. n /\ w[k] = s[f[k]] /\ s[f[k]] \notin T
      BY <1>2
    <2> QED BY <2>1
  <1>4. ASSUME NEW j \in 1 .. n, s[j] \notin T PROVE \E k \in 1 .. Len(w) : w[k] = s[j]
    <2>1. PICK k \in 1 .. Len(w) : f[k] = j
      BY <1>2, <1>4
    <2>2. w[k] = s[f[k]]
      BY <1>2
    <2> QED BY <2>1, <2>2
  <1> QED BY <1>3, <1>4 DEF Contains, w, n

(* The only entry stays so when others are left out.                       *)
LEMMA SoleWithout ==
  ASSUME NEW M, NEW s \in Seq(M), NEW T, NEW K, NEW i, Sole(s, K, i),
         \A k \in 1 .. Len(s) : EntryOf(s[k], K, i) => s[k] \notin T
  PROVE  Sole(Without(s, T), K, i)
  <1> DEFINE w == Without(s, T)
             n == Len(s)
  <1>1. PICK p \in 1 .. n : EntryOf(s[p], K, i) /\ \A j \in 1 .. n : EntryOf(s[j], K, i) => j = p
    BY DEF Sole
  <1>2. s[p] \notin T
    BY <1>1
  <1>3. Keeps(w, s, n, T)
    BY WithoutKeeps
  <1> HIDE DEF w, n
  <1>4. PICK f \in [1 .. Len(w) -> 1 .. n] :
          /\ \A k \in 1 .. Len(w) : w[k] = s[f[k]] /\ s[f[k]] \notin T
          /\ \A j, k \in 1 .. Len(w) : f[j] = f[k] => j = k
          /\ \A j \in 1 .. n : s[j] \notin T => \E k \in 1 .. Len(w) : f[k] = j
    BY <1>3 DEF Keeps
  <1>5. PICK k \in 1 .. Len(w) : f[k] = p
    BY <1>1, <1>2, <1>4
  <1>6. EntryOf(w[k], K, i)
    BY <1>1, <1>4, <1>5
  <1>7. ASSUME NEW j \in 1 .. Len(w), EntryOf(w[j], K, i) PROVE j = k
    <2>1. f[j] \in 1 .. n /\ w[j] = s[f[j]]
      BY <1>4
    <2>2. f[j] = p
      BY <1>1, <1>7, <2>1
    <2> QED BY <1>4, <1>5, <2>2
  <1>8. Sole(w, K, i)
    BY <1>6, <1>7 DEF Sole
  <1> QED BY <1>8 DEF w

(* When all of them are left out, none remains.                            *)
LEMMA NoneWithout ==
  ASSUME NEW M, NEW s \in Seq(M), NEW T, NEW K, NEW i, \A k \in 1 .. Len(s) : EntryOf(s[k], K, i) => s[k] \in T
  PROVE  NoneOf(Without(s, T), K, i)
  <1> DEFINE w == Without(s, T)
  <1>1. \A k \in 1 .. Len(w) : (\E j \in 1 .. Len(s) : s[j] = w[k]) /\ w[k] \notin T
    BY KeepsIs DEF Contains
  <1> HIDE DEF w
  <1>2. NoneOf(w, K, i)
    BY <1>1 DEF NoneOf
  <1> QED BY <1>2 DEF w

(* The positions of two lists joined.                                      *)
LEMMA ConcatAt ==
  ASSUME NEW M, NEW s \in Seq(M), NEW t \in Seq(M)
  PROVE  /\ s \o t \in Seq(M) /\ Len(s \o t) = Len(s) + Len(t) /\ Len(s) \in Nat /\ Len(t) \in Nat
         /\ \A k \in 1 .. Len(s) : k \in 1 .. Len(s \o t) /\ (s \o t)[k] = s[k]
         /\ \A k \in 1 .. Len(t) : Len(s) + k \in 1 .. Len(s \o t) /\ (s \o t)[Len(s) + k] = t[k]
         /\ \A k \in 1 .. Len(s \o t) : k \in 1 .. Len(s) \/ \E j \in 1 .. Len(t) : k = Len(s) + j
  <1>1. s \o t \in Seq(M) /\ Len(s \o t) = Len(s) + Len(t) /\ Len(s) \in Nat /\ Len(t) \in Nat
    OBVIOUS
  <1>2. \A k \in 1 .. Len(s) + Len(t) : (s \o t)[k] = IF k <= Len(s) THEN s[k] ELSE t[k - Len(s)]
    OBVIOUS
  <1> DEFINE u == s \o t
             m == Len(s)
             n == Len(t)
  <1> HIDE DEF u, m, n
  <1>3. m \in Nat /\ n \in Nat /\ Len(u) = m + n /\ \A k \in 1 .. m + n : u[k] = IF k <= m THEN s[k] ELSE t[k - m]
    BY <1>1, <1>2 DEF u, m, n
  <1>4. \A k \in 1 .. m : k \in 1 .. Len(u) /\ u[k] = s[k]
    BY <1>3
  <1>5. ASSUME NEW k \in 1 .. n PROVE m + k \in 1 .. Len(u) /\ u[m + k] = t[k]
    <2>1. m + k \in 1 .. m + n /\ ~ (m + k <= m) /\ (m + k) - m = k
      BY <1>3
    <2> QED BY <1>3, <2>1
  <1>6. ASSUME NEW k \in 1 .. Len(u) PROVE k \in 1 .. m \/ \E j \in 1 .. n : k = m + j
    <2>1. k \in 1 .. m \/ (k - m \in 1 .. n /\ k = m + (k - m))
      BY <1>3
    <2> QED BY <2>1
  <1> QED BY <1>1, <1>4, <1>5, <1>6 DEF u, m, n

(* One list has the only entry, the other none: so have both joined.       *)
LEMMA SoleConcat ==
  ASSUME NEW M, NEW s \in Seq(M), NEW t \in Seq(M), NEW K, NEW i,
         (Sole(s, K, i) /\ NoneOf(t, K, i)) \/ (NoneOf(s, K, i) /\ Sole(t, K, i))
  PROVE  Sole(s \o t, K, i)
  <1> DEFINE u == s \o t
             m == Len(s)
             n == Len(t)
  <1>1. /\ m \in Nat /\ n \in Nat
        /\ \A k \in 1 .. m : k \in 1 .. Len(u) /\ u[k] = s[k]
        /\ \A k \in 1 .. n : m + k \in 1 .. Len(u) /\ u[m + k] = t[k]
        /\ \A k \in 1 .. Len(u) : k \in 1 .. m \/ \E j \in 1 .. n : k = m + j
    BY ConcatAt
  <1>2. CASE Sole(s, K, i) /\ NoneOf(t, K, i)
    <2>1. PICK k \in 1 .. m : EntryOf(s[k], K, i) /\ \A j \in 1 .. m : EntryOf(s[j], K, i) => j = k
      BY <1>2 DEF Sole
    <2>2. \A j \in 1 .. n : ~EntryOf(t[j], K, i)
      BY <1>2 DEF NoneOf
    <2> HIDE DEF u, m, n
    <2>3. k \in 1 .. Len(u) /\ EntryOf(u[k], K, i)
      BY <1>1, <2>1
    <2>4. ASSUME NEW j \in 1 .. Len(u), EntryOf(u[j], K, i) PROVE j = k
      <3>1. CASE j \in 1 .. m
        BY <1>1, <2>1, <2>4, <3>1
      <3>2. ASSUME NEW l \in 1 .. n, j = m + l PROVE FALSE
        BY <1>1, <2>2, <2>4, <3>2
      <3> QED BY <1>1, <3>1, <3>2
    <2>5. Sole(u, K, i)
      BY <2>3, <2>4 DEF Sole
    <2> QED BY <2>5 DEF u
  <1>3. CASE NoneOf(s, K, i) /\ Sole(t, K, i)
    <2>1. PICK k \in 1 .. n : EntryOf(t[k], K, i) /\ \A j \in 1 .. n : EntryOf(t[j], K, i) => j = k
      BY <1>3 DEF Sole
    <2>2. \A j \in 1 .. m : ~EntryOf(s[j], K, i)
      BY <1>3 DEF NoneOf
    <2> HIDE DEF u, m, n
    <2>3. m + k \in 1 .. Len(u) /\ EntryOf(u[m + k], K, i)
      BY <1>1, <2>1
    <2>4. ASSUME NEW j \in 1 .. Len(u), EntryOf(u[j], K, i) PROVE j = m + k
      <3>1. CASE j \in 1 .. m
        BY <1>1, <2>2, <2>4, <3>1
      <3>2. ASSUME NEW l \in 1 .. n, j = m + l PROVE l = k
        BY <1>1, <2>1, <2>4, <3>2
      <3> QED BY <1>1, <3>1, <3>2
    <2>5. Sole(u, K, i)
      BY <2>3, <2>4 DEF Sole
    <2> QED BY <2>5 DEF u
  <1> QED BY <1>2, <1>3

(* What is in neither list is not in both joined.                          *)
LEMMA NoneConcat ==
  ASSUME NEW M, NEW s \in Seq(M), NEW t \in Seq(M), NEW K, NEW i, NoneOf(s, K, i), NoneOf(t, K, i)
  PROVE  NoneOf(s \o t, K, i)
  <1> DEFINE u == s \o t
             m == Len(s)
             n == Len(t)
  <1>1. /\ \A k \in 1 .. m : k \in 1 .. Len(u) /\ u[k] = s[k]
        /\ \A k \in 1 .. n : m + k \in 1 .. Len(u) /\ u[m + k] = t[k]
        /\ \A k \in 1 .. Len(u) : k \in 1 .. m \/ \E j \in 1 .. n : k = m + j
    BY ConcatAt
  <1>2. (\A k \in 1 .. m : ~EntryOf(s[k], K, i)) /\ (\A k \in 1 .. n : ~EntryOf(t[k], K, i))
    BY DEF NoneOf
  <1> HIDE DEF u, m, n
  <1>3. \A k \in 1 .. Len(u) : ~EntryOf(u[k], K, i)
    BY <1>1, <1>2
  <1> QED BY <1>3 DEF NoneOf, u

(* What either list contains, both joined contain, and nothing else.       *)
LEMMA ConcatContains ==
  ASSUME NEW M, NEW s \in Seq(M), NEW t \in Seq(M)
  PROVE  \A e : Contains(s \o t, e) <=> Contains(s, e) \/ Contains(t, e)
  <1> DEFINE u == s \o t
             m == Len(s)
             n == Len(t)
  <1>1. /\ \A k \in 1 .. m : k \in 1 .. Len(u) /\ u[k] = s[k]
        /\ \A k \in 1 .. n : m + k \in 1 .. Len(u) /\ u[m + k] = t[k]
        /\ \A k \in 1 .. Len(u) : k \in 1 .. m \/ \E j \in 1 .. n : k = m + j
    BY ConcatAt
  <1> HIDE DEF u, m, n
  <1>2. \A e : (\E k \in 1 .. Len(u) : u[k] = e) <=> (\E k \in 1 .. m : s[k] = e) \/ (\E k \in 1 .. n : t[k] = e)
    BY <1>1, SMTT(30)
  <1> QED BY <1>2 DEF Contains, u, m, n

(* The only entry is shown exactly once, and what is not there never.      *)
LEMMA SoleShows ==
  ASSUME NEW M, NEW s \in Seq(M), NEW K, NEW i
  PROVE  (Sole(s, K, i) => TimesShown(s, K, i) = 1) /\ (NoneOf(s, K, i) => TimesShown(s, K, i) = 0)
  <1>1. DOMAIN s = 1 .. Len(s)
    OBVIOUS
  <1>2. ASSUME Sole(s, K, i) PROVE TimesShown(s, K, i) = 1
    <2>1. PICK k \in 1 .. Len(s) : EntryOf(s[k], K, i) /\ \A j \in 1 .. Len(s) : EntryOf(s[j], K, i) => j = k
      BY <1>2 DEF Sole
    <2>2. {j \in DOMAIN s : s[j].kind \in K /\ s[j].pos = i} = {k}
      BY <1>1, <2>1 DEF EntryOf
    <2>3. Cardinality({k}) = 1
      BY FS_Singleton
    <2> QED BY <2>2, <2>3 DEF TimesShown
  <1>3. ASSUME NoneOf(s, K, i) PROVE TimesShown(s, K, i) = 0
    <2>1. {j \in DOMAIN s : s[j].kind \in K /\ s[j].pos = i} = {}
      BY <1>1, <1>3 DEF NoneOf, EntryOf
    <2>2. Cardinality({}) = 0
      BY FS_EmptySet
    <2> QED BY <2>1, <2>2 DEF TimesShown
  <1> QED BY <1>2, <1>3

-----------------------------------------------------------------------------
(* The merging.                                                            *)

(* An entry the tab shows, processed or copied from HQ's lists.            *)
ViewEntry == [kind : ProcessedKinds \cup RestKinds, pos : Nat, ts : Nat, call : Nat, status : Statuses, kids : Seq(Kid)]

(* A list of entries of one kind is a list of entries of any.              *)
LEMMA ItemsShown ==
  ASSUME NEW list \in Seq(Item)
  PROVE  list \in Seq(ViewEntry)
  <1>1. Item \subseteq ViewEntry
    BY DEF Item, ItemWith, ViewEntry
  <1>2. \A k \in 1 .. Len(list) : list[k] \in ViewEntry
    BY <1>1
  <1>3. Len(list) \in Nat /\ list \in [1 .. Len(list) -> ViewEntry]
    BY <1>2
  <1> DEFINE n == Len(list)
  <1>4. n \in Nat /\ list \in [1 .. n -> ViewEntry]
    BY <1>3
  <1> HIDE DEF n
  <1> QED BY <1>4, ListFrom

(* A copy makes an entry.                                                  *)
LEMMA CopyShown ==
  ASSUME NEW rec \in Copy
  PROVE  LET e == Entry(rec.type, rec, rec.call, "")
         IN e \in ViewEntry /\ e.kind = rec.type /\ e.pos = rec.pos /\ e.ts = rec.ts
  <1> DEFINE blank == ""
             none == << >>
             e == [kind |-> rec.type, pos |-> rec.pos, ts |-> rec.ts, call |-> rec.call, status |-> blank, kids |-> none]
  <1>1. Entry(rec.type, rec, rec.call, "") = e
    BY DEF Entry
  <1>2. blank \in Statuses
    BY DEF Statuses
  <1>3. none \in Seq(Kid)
    BY NoKids
  <1> HIDE DEF blank, none
  <1>4. e \in ViewEntry /\ e.kind = rec.type /\ e.pos = rec.pos /\ e.ts = rec.ts
    BY <1>2, <1>3 DEF Copy, ViewEntry
  <1> HIDE DEF e
  <1> QED BY <1>1, <1>4

(* Of HQ's list, the only copy of its kinds for a position, if any, is not *)
(* covered; or all copies are.                                             *)
RestSole(list, n, history, K, i) ==
  \E m \in 1 .. n :
    /\ list[m].type \in K /\ list[m].pos = i /\ ~Covers(history, list[m].ts)
    /\ \A j \in 1 .. n : list[j].type \in K /\ list[j].pos = i => j = m

RestNone(list, n, history, K, i) ==
  \A m \in 1 .. n : list[m].type \in K /\ list[m].pos = i => Covers(history, list[m].ts)

(* What an entry of HQ's list is.                                          *)
CopyOf(list, n, history, e) ==
  \E m \in 1 .. n :
    e.kind = list[m].type /\ e.pos = list[m].pos /\ e.ts = list[m].ts /\ ~Covers(history, list[m].ts)

(* The entries made of HQ's list are those.                                *)
LEMMA RestIs ==
  ASSUME NEW list \in Seq(Copy), NEW n \in Nat, n <= Len(list), NEW history
  PROVE  /\ RestEntries(list, n, history) \in Seq(ViewEntry)
         /\ \A k \in 1 .. Len(RestEntries(list, n, history)) : CopyOf(list, n, history, RestEntries(list, n, history)[k])
         /\ \A K, i : RestSole(list, n, history, K, i) => Sole(RestEntries(list, n, history), K, i)
         /\ \A K, i : RestNone(list, n, history, K, i) => NoneOf(RestEntries(list, n, history), K, i)
  <1> DEFINE all == [m \in 1 .. n |-> Entry(list[m].type, list[m], list[m].call, "")]
             T == {e \in Range(all) : Covers(history, e.ts)}
             rest == Without(all, T)
  <1>1. RestEntries(list, n, history) = rest
    BY DEF RestEntries
  <1>2. \A m \in 1 .. n : list[m] \in Copy
    OBVIOUS
  <1>3. \A m \in 1 .. n :
          all[m] \in ViewEntry /\ all[m].kind = list[m].type /\ all[m].pos = list[m].pos /\ all[m].ts = list[m].ts
    <2> SUFFICES ASSUME NEW m \in 1 .. n
                 PROVE  /\ all[m] \in ViewEntry /\ all[m].kind = list[m].type
                        /\ all[m].pos = list[m].pos /\ all[m].ts = list[m].ts
      OBVIOUS
    <2>1. list[m] \in Copy
      BY <1>2
    <2>2. all[m] = Entry(list[m].type, list[m], list[m].call, "")
      BY Zenon
    <2> HIDE DEF all
    <2> QED BY <2>1, <2>2, CopyShown
  <1>4. DOMAIN all = 1 .. n /\ all = [m \in 1 .. n |-> all[m]]
    OBVIOUS
  <1> HIDE DEF all
  <1>5. all \in Seq(ViewEntry) /\ Len(all) = n
    <2>1. all \in [1 .. n -> ViewEntry]
      BY <1>3, <1>4
    <2> QED BY <2>1, ListFrom
  <1>6. \A m \in 1 .. n : all[m] \in T <=> Covers(history, list[m].ts)
    <2>1. \A m \in 1 .. n : all[m] \in Range(all)
      BY <1>4 DEF Range
    <2> QED BY <1>3, <2>1
  <1> HIDE DEF T
  <1>7. rest \in Seq(ViewEntry)
    BY <1>5, WithoutKeeps
  <1>8. \A k \in 1 .. Len(rest) : CopyOf(list, n, history, rest[k])
    <2>1. \A k \in 1 .. Len(rest) : (\E m \in 1 .. n : all[m] = rest[k]) /\ rest[k] \notin T
      BY <1>5, KeepsIs DEF Contains
    <2> HIDE DEF rest
    <2> QED BY <1>3, <1>6, <2>1 DEF CopyOf
  <1>9. ASSUME NEW K, NEW i, RestSole(list, n, history, K, i) PROVE Sole(rest, K, i)
    <2>1. PICK m \in 1 .. n :
            /\ list[m].type \in K /\ list[m].pos = i /\ ~Covers(history, list[m].ts)
            /\ \A j \in 1 .. n : list[j].type \in K /\ list[j].pos = i => j = m
      BY <1>9 DEF RestSole
    <2>2. \A j \in 1 .. n : EntryOf(all[j], K, i) <=> j = m
      BY <1>3, <2>1 DEF EntryOf
    <2>3. Sole(all, K, i)
      BY <1>5, <2>2 DEF Sole
    <2>4. \A j \in 1 .. Len(all) : EntryOf(all[j], K, i) => all[j] \notin T
      BY <1>5, <1>6, <2>1, <2>2
    <2> QED BY <1>5, <2>3, <2>4, SoleWithout
  <1>10. ASSUME NEW K, NEW i, RestNone(list, n, history, K, i) PROVE NoneOf(rest, K, i)
    <2>1. \A j \in 1 .. Len(all) : EntryOf(all[j], K, i) => all[j] \in T
      BY <1>3, <1>5, <1>6, <1>10 DEF RestNone, EntryOf
    <2> QED BY <1>5, <2>1, NoneWithout
  <1> HIDE DEF rest
  <1> QED BY <1>1, <1>7, <1>8, <1>9, <1>10

(* A live entry repeats a fetched one.                                     *)
Repeats(x, y) == Id(x) = Id(y) \/ (y.kind \in {"user", "assistant"} /\ x.ts = y.ts)

(* The merged list: what was fetched, and of the live entries those that   *)
(* repeat nothing before them.                                             *)
LEMMA MergedIs ==
  ASSUME NEW f \in Seq(ViewEntry), NEW l \in Seq(ViewEntry)
  PROVE  \E T : /\ Merged(f, l) = f \o Without(l, T)
                /\ \A k \in 1 .. Len(l) : (\E j \in 1 .. Len(f) : Repeats(f[j], l[k])) => l[k] \in T
                /\ \A x \in T : \E k \in 1 .. Len(l) :
                     /\ x = l[k]
                     /\ \/ \E j \in 1 .. Len(f) : Repeats(f[j], l[k])
                        \/ \E j \in 1 .. Len(l) : j < k /\ Id(l[j]) = Id(l[k])
  <1> DEFINE ids == {Id(f[i]) : i \in DOMAIN f}
             times == {f[i].ts : i \in DOMAIN f}
             gone(k) == \/ Id(l[k]) \in ids
                        \/ \E j \in DOMAIN l : j < k /\ Id(l[j]) = Id(l[k])
                        \/ l[k].kind \in {"user", "assistant"} /\ l[k].ts \in times
             T == {l[k] : k \in {i \in DOMAIN l : gone(i)}}
  <1>1. Merged(f, l) = f \o Without(l, T)
    BY DEF Merged
  <1>2. DOMAIN f = 1 .. Len(f) /\ DOMAIN l = 1 .. Len(l)
    OBVIOUS
  <1>3. \A k : gone(k) <=> \/ \E j \in 1 .. Len(f) : Repeats(f[j], l[k])
                           \/ \E j \in 1 .. Len(l) : j < k /\ Id(l[j]) = Id(l[k])
    BY <1>2, Zenon DEF Repeats
  <1> HIDE DEF gone
  <1>4. \A k \in 1 .. Len(l) : gone(k) => l[k] \in T
    BY <1>2
  <1>5. \A x \in T : \E k \in 1 .. Len(l) : x = l[k] /\ gone(k)
    BY <1>2
  <1> HIDE DEF T
  <1> QED BY <1>1, <1>3, <1>4, <1>5

(* Entries with one id are of one kind, and of one position or time.       *)
LEMMA IdIs ==
  ASSUME NEW x, NEW y
  PROVE  /\ Id(x) = Id(y) => /\ x.kind = y.kind
                             /\ IF x.kind \in {"user", "tool", "agent"} THEN x.pos = y.pos ELSE x.ts = y.ts
         /\ x.kind = y.kind /\ x.pos = y.pos /\ x.ts = y.ts => Id(x) = Id(y)
  BY DEF Id

(* Nothing like a live entry came before it.                               *)
Novel(f, l, k) ==
  /\ \A j \in 1 .. Len(f) : ~Repeats(f[j], l[k])
  /\ \A j \in 1 .. Len(l) : Id(l[j]) = Id(l[k]) => j = k

MessageKinds == {"assistant", "msg-assistant"}

(* The merged list has the only entry that was fetched, when it repeats    *)
(* all live ones, and the only live one, when nothing came before it.      *)
LEMMA MergedHas ==
  ASSUME NEW f \in Seq(ViewEntry), NEW l \in Seq(ViewEntry)
  PROVE  /\ Merged(f, l) \in Seq(ViewEntry)
         /\ \A K, i :
              /\ Sole(f, K, i) /\ (\A k \in 1 .. Len(l) : EntryOf(l[k], K, i) => \E j \in 1 .. Len(f) : Repeats(f[j], l[k])) =>
                   Sole(Merged(f, l), K, i)
              /\ NoneOf(f, K, i) /\ Sole(l, K, i) /\ (\A k \in 1 .. Len(l) : EntryOf(l[k], K, i) => Novel(f, l, k)) =>
                   Sole(Merged(f, l), K, i)
              /\ NoneOf(f, K, i) /\ NoneOf(l, K, i) => NoneOf(Merged(f, l), K, i)
         /\ \A e : Contains(f, e) => Contains(Merged(f, l), e)
         /\ \A k \in 1 .. Len(l) : Novel(f, l, k) => Contains(Merged(f, l), l[k])
  <1>1. PICK T : /\ Merged(f, l) = f \o Without(l, T)
                 /\ \A k \in 1 .. Len(l) : (\E j \in 1 .. Len(f) : Repeats(f[j], l[k])) => l[k] \in T
                 /\ \A x \in T : \E k \in 1 .. Len(l) :
                      /\ x = l[k]
                      /\ \/ \E j \in 1 .. Len(f) : Repeats(f[j], l[k])
                         \/ \E j \in 1 .. Len(l) : j < k /\ Id(l[j]) = Id(l[k])
    BY MergedIs
  <1> DEFINE rest == Without(l, T)
  <1>2. rest \in Seq(ViewEntry)
    BY WithoutKeeps
  <1>3. Merged(f, l) = f \o rest
    BY <1>1
  <1>4. ASSUME NEW k \in 1 .. Len(l), Novel(f, l, k) PROVE l[k] \notin T
    <2> SUFFICES ASSUME l[k] \in T PROVE FALSE
      OBVIOUS
    <2>1. PICK m \in 1 .. Len(l) : /\ l[k] = l[m]
                                   /\ \/ \E j \in 1 .. Len(f) : Repeats(f[j], l[m])
                                      \/ \E j \in 1 .. Len(l) : j < m /\ Id(l[j]) = Id(l[m])
      BY <1>1
    <2>2. \A j \in 1 .. Len(f) : ~Repeats(f[j], l[m])
      BY <1>4, <2>1 DEF Novel
    <2>3. PICK j \in 1 .. Len(l) : j < m /\ Id(l[j]) = Id(l[m])
      BY <2>1, <2>2
    <2>4. j = k /\ m = k
      BY <1>4, <2>1, <2>3 DEF Novel
    <2> QED BY <2>3, <2>4
  <1>5. \A k \in 1 .. Len(l) : (\E j \in 1 .. Len(f) : Repeats(f[j], l[k])) => l[k] \in T
    BY <1>1
  <1>6. ASSUME NEW K, NEW i, Sole(f, K, i),
               \A k \in 1 .. Len(l) : EntryOf(l[k], K, i) => \E j \in 1 .. Len(f) : Repeats(f[j], l[k])
        PROVE  Sole(f \o rest, K, i)
    <2>1. NoneOf(rest, K, i)
      BY <1>5, <1>6, NoneWithout
    <2> HIDE DEF rest
    <2> QED BY <1>2, <1>6, <2>1, SoleConcat
  <1>7. ASSUME NEW K, NEW i, NoneOf(f, K, i), Sole(l, K, i), \A k \in 1 .. Len(l) : EntryOf(l[k], K, i) => Novel(f, l, k)
        PROVE  Sole(f \o rest, K, i)
    <2>1. Sole(rest, K, i)
      BY <1>4, <1>7, SoleWithout
    <2> HIDE DEF rest
    <2> QED BY <1>2, <1>7, <2>1, SoleConcat
  <1>8. ASSUME NEW K, NEW i, NoneOf(f, K, i), NoneOf(l, K, i) PROVE NoneOf(f \o rest, K, i)
    <2>1. \A k \in 1 .. Len(l) : EntryOf(l[k], K, i) => l[k] \in T
      BY <1>8 DEF NoneOf
    <2>2. NoneOf(rest, K, i)
      BY <2>1, NoneWithout
    <2> HIDE DEF rest
    <2> QED BY <1>2, <1>8, <2>2, NoneConcat
  <1>9. \A k \in 1 .. Len(l) : Novel(f, l, k) => Contains(rest, l[k])
    <2>1. \A k \in 1 .. Len(l) : Contains(l, l[k])
      BY DEF Contains
    <2> QED BY <1>4, <2>1, KeepsIs
  <1> HIDE DEF rest
  <1>10. \A e : Contains(f \o rest, e) <=> Contains(f, e) \/ Contains(rest, e)
    BY <1>2, ConcatContains
  <1>11. f \o rest \in Seq(ViewEntry)
    BY <1>2, ConcatAt
  <1> QED BY <1>3, <1>6, <1>7, <1>8, <1>9, <1>10, <1>11

(* Only messages are hidden beside a container, and only with tasks.       *)
LEMMA HidesMessages ==
  ASSUME NEW f \in Seq(ViewEntry), NEW l \in Seq(ViewEntry), NEW K, NEW i,
         K \cap MessageKinds = {} \/ \A k \in 1 .. Len(l) : l[k].kind # "agent"
  PROVE  /\ WithoutHeld(f, l) \in Seq(ViewEntry)
         /\ Sole(Merged(f, l), K, i) => Sole(WithoutHeld(f, l), K, i)
         /\ NoneOf(Merged(f, l), K, i) => NoneOf(WithoutHeld(f, l), K, i)
         /\ \A e : Contains(Merged(f, l), e) /\ e.kind \notin MessageKinds => Contains(WithoutHeld(f, l), e)
  <1> DEFINE subagents == {l[k].call : k \in {j \in DOMAIN l : l[j].kind = "agent" /\ l[j].kids # <<>>}}
             merged == Merged(f, l)
             T == {e \in Range(merged) : e.kind \in MessageKinds /\ e.call \in subagents}
  <1>1. WithoutHeld(f, l) = Without(merged, T)
    BY DEF WithoutHeld, MessageKinds
  <1>2. merged \in Seq(ViewEntry)
    BY MergedHas
  <1>3. DOMAIN l = 1 .. Len(l)
    OBVIOUS
  <1>4. (\A k \in 1 .. Len(l) : l[k].kind # "agent") => subagents = {}
    BY <1>3
  <1>5. \A e \in T : e.kind \in MessageKinds /\ e.call \in subagents
    OBVIOUS
  <1> HIDE DEF merged, subagents, T
  <1>6. \A k \in 1 .. Len(merged) : EntryOf(merged[k], K, i) => merged[k] \notin T
    BY <1>4, <1>5 DEF EntryOf
  <1>7. Without(merged, T) \in Seq(ViewEntry)
    BY <1>2, WithoutKeeps
  <1>8. Sole(merged, K, i) => Sole(Without(merged, T), K, i)
    BY <1>2, <1>6, SoleWithout
  <1>9. NoneOf(merged, K, i) => NoneOf(Without(merged, T), K, i)
    <2> SUFFICES ASSUME NoneOf(merged, K, i) PROVE NoneOf(Without(merged, T), K, i)
      OBVIOUS
    <2>1. \A k \in 1 .. Len(merged) : EntryOf(merged[k], K, i) => merged[k] \in T
      BY DEF NoneOf
    <2> QED BY <1>2, <2>1, NoneWithout
  <1>10. \A e : Contains(merged, e) /\ e.kind \notin MessageKinds => Contains(Without(merged, T), e)
    BY <1>2, <1>5, KeepsIs
  <1> QED BY <1>1, <1>7, <1>8, <1>9, <1>10 DEF merged

-----------------------------------------------------------------------------
(* The log grows.                                                          *)

(* What was seen does not change when the log grows.                       *)
LEMMA SawLonger ==
  ASSUME NEW past, LogOk(past), NEW ev, NEW lo \in Nat, NEW hi \in Nat, hi <= Len(past), NEW s, Saw(past, s, lo, hi)
  PROVE  Saw(Append(past, ev), s, lo, hi)
  <1> DEFINE past2 == Append(past, ev)
             n == Len(past)
  <1>1. n \in Nat /\ past \in Seq(LogRecord)
    BY DEF LogOk
  <1>2. Len(past2) = n + 1 /\ \A i \in 1 .. n : past2[i] = past[i]
    BY <1>1
  <1> HIDE DEF past2, n
  <1>3. hi <= n
    BY DEF n
  <1>4. \A i \in lo + 1 .. hi : i \in 1 .. n /\ past2[i] = past[i]
    BY <1>1, <1>2, <1>3
  <1>5. NoTask(past2) => NoTask(past)
    <2>1. 1 .. n \subseteq 1 .. n + 1
      BY <1>1
    <2> QED BY <1>2, <2>1 DEF NoTask, At, n
  <1>6. EntriesOk(past2, s.entries, lo, hi)
    <2>1. EntriesOk(past, s.entries, lo, hi)
      BY DEF Saw
    <2> QED BY <1>4, <2>1 DEF EntriesOk
  <1>7. EventsShown(past2, s.entries, lo, hi)
    <2> SUFFICES ASSUME NEW i \in lo + 1 .. hi PROVE ShownAt(past2, s.entries, lo, i)
      BY DEF EventsShown
    <2>1. ShownAt(past, s.entries, lo, i) /\ past2[i] = past[i]
      BY <1>4 DEF Saw, EventsShown
    <2> QED BY <1>5, <2>1 DEF ShownAt, At
  <1>8. ASSUME NEW pieces, NEW whole, Owed(past, pieces, whole, lo, hi) PROVE Owed(past2, pieces, whole, lo, hi)
    <2>1. PICK i \in lo + 1 .. hi : At(past, i, pieces) /\ \A k \in i + 1 .. hi : ~At(past, k, whole)
      BY <1>8 DEF Owed
    <2>2. \A k \in i + 1 .. hi : k \in lo + 1 .. hi
      OBVIOUS
    <2>3. At(past2, i, pieces) /\ \A k \in i + 1 .. hi : ~At(past2, k, whole)
      BY <1>4, <2>1, <2>2 DEF At
    <2> QED BY <2>3 DEF Owed
  <1>9. Saw(past2, s, lo, hi)
    <2>1. /\ s \in Processor
          /\ s.streaming => Owed(past, "assistant.message_delta", "assistant.message", lo, hi)
          /\ s.thinking => Owed(past, "assistant.reasoning_delta", "assistant.reasoning", lo, hi)
      BY DEF Saw
    <2> QED BY <1>6, <1>7, <1>8, <2>1, Zenon DEF Saw
  <1> QED BY <1>9 DEF past2

(* The log has a length, and its records what a record has.                *)
LEMMA LogOkLen ==
  ASSUME NEW past, LogOk(past)
  PROVE  /\ Len(past) \in Nat /\ past \in Seq(LogRecord)
         /\ \A i \in 1 .. Len(past) : past[i] \in LogRecord /\ past[i].pos = i /\ past[i].ts \in Nat /\ past[i].call \in Nat
  <1>1. past \in Seq(LogRecord) /\ Len(past) \in Nat
    BY DEF LogOk
  <1>2. \A i \in 1 .. Len(past) : past[i] \in LogRecord
    BY <1>1
  <1>3. \A rec \in LogRecord : rec.ts \in Nat /\ rec.call \in Nat
    <2>1. 1 .. MaxTime \subseteq Nat
      BY ConversationAssumption
    <2> QED BY <2>1 DEF LogRecord
  <1> QED BY <1>1, <1>2, <1>3 DEF LogOk

(* The events of a type.                                                   *)
LEMMA LoggedIs ==
  ASSUME LogOk(sessionLog), NEW type
  PROVE  /\ \A i : i \in Logged(type) <=> i \in 1 .. Len(sessionLog) /\ At(sessionLog, i, type)
         /\ \A c : c \in LoggedFor(type) <=>
              \E i \in 1 .. Len(sessionLog) : At(sessionLog, i, type) /\ sessionLog[i].call = c
  <1>1. DOMAIN sessionLog = 1 .. Len(sessionLog)
    BY DEF LogOk
  <1>2. \A i : i \in Logged(type) <=> i \in 1 .. Len(sessionLog) /\ At(sessionLog, i, type)
    BY <1>1 DEF Logged, At
  <1>3. \A c : c \in LoggedFor(type) <=> \E i \in Logged(type) : sessionLog[i].call = c
    BY DEF LoggedFor
  <1> QED BY <1>2, <1>3

(* The event the session adds.                                             *)
LEMMA NextEventIs ==
  ASSUME LogOk(sessionLog), messages \in Seq(Copy), Len(sessionLog) < MaxLogged,
         NEW type \in LogTypes, NEW c \in NextCalls(type), NEW ts \in NextTimes
  PROVE  LET ev == Record(type, Len(sessionLog) + 1, ts, c)
         IN /\ ev \in LogRecord /\ ev.type = type /\ ev.pos = Len(sessionLog) + 1 /\ ev.ts = ts /\ ev.call = c
            /\ ts \in Nat /\ c \in Nat
            /\ type = "subagent.started" => c \in Stamps
            /\ type = "tool.execution_complete" =>
                 c \in Logged("tool.execution_start") /\ c \notin LoggedFor("tool.execution_complete")
  <1> DEFINE n == Len(sessionLog)
             ev == [type |-> type, pos |-> n + 1, ts |-> ts, call |-> c]
  <1>1. n \in Nat /\ MaxLogged \in Nat
    BY LogOkLen, ConversationAssumption
  <1>2. \A t : Logged(t) \subseteq 1 .. n
    BY LoggedIs
  <1>3. \A t : LoggedFor(t) \subseteq Nat
    BY LoggedIs, LogOkLen
  <1>4. Prompts \subseteq Nat
    BY DEF Prompts
  <1>5. ts \in 1 .. MaxTime
    BY DEF NextTimes
  <1>6. n + 1 \in Stamps /\ 1 .. n \subseteq Stamps /\ 1 .. n \subseteq Nat /\ 0 \in Nat
    BY <1>1 DEF Stamps
  <1>7. c \in Nat
    <2>1. SubagentsRunning \subseteq Nat
      BY <1>3 DEF SubagentsRunning
    <2>2. NextCalls(type) \subseteq Nat
      <3> HIDE DEF n
      <3> QED BY <1>2, <1>3, <1>4, <1>6, <2>1, Zenon DEF NextCalls, LogTypes
    <2> QED BY <2>2
  <1>8. ts \in Nat
    BY <1>5, ConversationAssumption
  <1>9. type = "subagent.started" => c \in Stamps
    <2>1. NextCalls("subagent.started") = Logged("task.start") \ LoggedFor("subagent.started")
      BY DEF NextCalls
    <2> QED BY <1>2, <1>6, <2>1
  <1>10. type = "tool.execution_complete" =>
           c \in Logged("tool.execution_start") /\ c \notin LoggedFor("tool.execution_complete")
    <2>1. NextCalls("tool.execution_complete") =
            Logged("tool.execution_start") \ LoggedFor("tool.execution_complete")
      BY DEF NextCalls
    <2> QED BY <2>1
  <1>11. Record(type, Len(sessionLog) + 1, ts, c) = ev
    BY DEF Record
  <1>12. ev \in LogRecord /\ ev.type = type /\ ev.pos = n + 1 /\ ev.ts = ts /\ ev.call = c
    <2> HIDE DEF n
    <2> QED BY <1>5, <1>6, <1>7 DEF LogRecord
  <1> HIDE DEF ev
  <1> QED BY <1>7, <1>8, <1>9, <1>10, <1>11, <1>12

(* The log stays as it should be.                                          *)
LEMMA LogGrows ==
  ASSUME LogOk(sessionLog), Len(sessionLog) < MaxLogged, NEW ev \in LogRecord, ev.pos = Len(sessionLog) + 1,
         ev.type = "subagent.started" => ev.call \in Stamps,
         ev.type = "tool.execution_complete" =>
           ev.call \in Logged("tool.execution_start") /\ ev.call \notin LoggedFor("tool.execution_complete")
  PROVE  LogOk(Append(sessionLog, ev))
  <1> DEFINE n == Len(sessionLog)
             past2 == Append(sessionLog, ev)
  <1>1. n \in Nat /\ sessionLog \in Seq(LogRecord) /\ MaxLogged \in Nat /\ n < MaxLogged
    BY ConversationAssumption DEF LogOk
  <1>2. /\ ev.pos = n + 1
        /\ ev.type = "subagent.started" => ev.call \in Stamps
        /\ ev.type = "tool.execution_complete" =>
             ev.call \in Logged("tool.execution_start") /\ ev.call \notin LoggedFor("tool.execution_complete")
    OBVIOUS
  <1>4. past2 \in Seq(LogRecord) /\ Len(past2) = n + 1 /\ past2[n + 1] = ev /\ \A i \in 1 .. n : past2[i] = sessionLog[i]
    BY <1>1
  <1>5. \A i \in 1 .. n :
          /\ sessionLog[i].pos = i
          /\ At(sessionLog, i, "subagent.started") => sessionLog[i].call \in Stamps
          /\ At(sessionLog, i, "tool.execution_complete") =>
               sessionLog[i].call \in 1 .. i - 1 /\ At(sessionLog, sessionLog[i].call, "tool.execution_start")
    BY DEF LogOk
  <1>6. \A i, k \in 1 .. n :
          At(sessionLog, i, "tool.execution_complete") /\ At(sessionLog, k, "tool.execution_complete")
            /\ sessionLog[i].call = sessionLog[k].call => i = k
    BY DEF LogOk
  <1>7. At(past2, n + 1, "tool.execution_complete") =>
          /\ ev.call \in 1 .. n /\ At(sessionLog, ev.call, "tool.execution_start")
          /\ \A i \in 1 .. n : At(sessionLog, i, "tool.execution_complete") => sessionLog[i].call # ev.call
    <2> SUFFICES ASSUME ev.type = "tool.execution_complete"
                 PROVE  /\ ev.call \in 1 .. n /\ At(sessionLog, ev.call, "tool.execution_start")
                        /\ \A i \in 1 .. n : At(sessionLog, i, "tool.execution_complete") => sessionLog[i].call # ev.call
      BY <1>4 DEF At
    <2>1. ev.call \in Logged("tool.execution_start") /\ ev.call \notin LoggedFor("tool.execution_complete")
      BY <1>2
    <2> QED BY <2>1, LoggedIs
  <1> HIDE DEF n, past2
  <1>8. \A i \in 1 .. n + 1 : i \in 1 .. n \/ i = n + 1
    BY <1>1
  <1>9. ASSUME NEW i \in 1 .. n + 1
        PROVE  /\ past2[i].pos = i
               /\ At(past2, i, "subagent.started") => past2[i].call \in Stamps
               /\ At(past2, i, "tool.execution_complete") =>
                    past2[i].call \in 1 .. i - 1 /\ At(past2, past2[i].call, "tool.execution_start")
    <2>1. CASE i \in 1 .. n
      <3>1. past2[i] = sessionLog[i]
        BY <1>4, <2>1
      <3>2. past2[i].pos = i /\ (At(past2, i, "subagent.started") => past2[i].call \in Stamps)
        BY <1>5, <2>1, <3>1 DEF At
      <3>3. ASSUME At(past2, i, "tool.execution_complete")
            PROVE  past2[i].call \in 1 .. i - 1 /\ At(past2, past2[i].call, "tool.execution_start")
        <4> DEFINE c == sessionLog[i].call
        <4>1. c \in 1 .. i - 1 /\ At(sessionLog, c, "tool.execution_start")
          BY <1>5, <2>1, <3>1, <3>3 DEF At
        <4>2. c \in 1 .. n
          BY <1>1, <2>1, <4>1
        <4> HIDE DEF c
        <4>3. At(past2, c, "tool.execution_start")
          BY <1>4, <4>1, <4>2 DEF At
        <4> QED BY <3>1, <4>1, <4>3 DEF c
      <3> QED BY <3>2, <3>3
    <2>2. CASE i = n + 1
      <3>1. past2[n + 1] = ev /\ ev.pos = n + 1
        BY <1>2, <1>4
      <3>3. At(past2, n + 1, "subagent.started") => ev.call \in Stamps
        BY <1>2, <3>1 DEF At
      <3>4. ASSUME At(past2, n + 1, "tool.execution_complete")
            PROVE  ev.call \in 1 .. (n + 1) - 1 /\ At(past2, ev.call, "tool.execution_start")
        <4>1. ev.call \in 1 .. n /\ At(sessionLog, ev.call, "tool.execution_start")
          BY <1>7, <3>4
        <4>2. past2[ev.call] = sessionLog[ev.call]
          BY <1>4, <4>1
        <4>3. (n + 1) - 1 = n
          BY <1>1
        <4> QED BY <4>1, <4>2, <4>3 DEF At
      <3> QED BY <2>2, <3>1, <3>3, <3>4
    <2> QED BY <1>8, <2>1, <2>2
  <1>10. ASSUME NEW i \in 1 .. n + 1, NEW k \in 1 .. n + 1, At(past2, i, "tool.execution_complete"),
                At(past2, k, "tool.execution_complete"), past2[i].call = past2[k].call
         PROVE  i = k
    <2>1. CASE i \in 1 .. n /\ k \in 1 .. n
      <3>1. past2[i] = sessionLog[i] /\ past2[k] = sessionLog[k]
        BY <1>4, <2>1
      <3> QED BY <1>6, <1>10, <2>1, <3>1 DEF At
    <2>2. CASE i = n + 1 /\ k \in 1 .. n
      <3>1. past2[i] = ev /\ past2[k] = sessionLog[k]
        BY <1>4, <2>2
      <3> QED BY <1>7, <1>10, <2>2, <3>1 DEF At
    <2>3. CASE i \in 1 .. n /\ k = n + 1
      <3>1. past2[k] = ev /\ past2[i] = sessionLog[i]
        BY <1>4, <2>3
      <3> QED BY <1>7, <1>10, <2>3, <3>1 DEF At
    <2> QED BY <1>8, <2>1, <2>2, <2>3
  <1>11. Len(past2) <= MaxLogged
    BY <1>1, <1>4
  <1>12. LogOk(past2)
    <2>1. 1 .. Len(past2) = 1 .. n + 1
      BY <1>4
    <2> QED BY <1>4, <1>9, <1>10, <1>11, <2>1 DEF LogOk
  <1> QED BY <1>12 DEF past2

(* HQ's list with the copy of an event, if it keeps one.                   *)
LEMMA KeptIs ==
  ASSUME NEW list \in Seq(Copy), NEW type, NEW copy \in RestKinds, NEW ev \in LogRecord, ev.ts \in Nat
  PROVE  LET list2 == KeptAs(list, type, ev, copy)
         IN /\ list2 \in Seq(Copy) /\ Len(list) \in Nat /\ Len(list2) \in Nat /\ Len(list) <= Len(list2)
            /\ \A m \in 1 .. Len(list) : list2[m] = list[m]
            /\ \A m \in 1 .. Len(list2) :
                 \/ m \in 1 .. Len(list)
                 \/ m = Len(list) + 1 /\ ev.type = type /\ list2[m].type = copy /\ list2[m].pos = ev.pos /\ list2[m].ts = ev.ts
  <1> DEFINE rec == [type |-> copy, pos |-> ev.pos, ts |-> ev.ts, call |-> ev.call]
             n == Len(list)
  <1>1. KeptAs(list, type, ev, copy) = IF ev.type = type THEN Append(list, rec) ELSE list
    BY DEF KeptAs, Record
  <1>2. ev.pos \in Nat /\ ev.call \in Nat
    BY DEF LogRecord, Stamps
  <1>3. rec \in Copy /\ rec.type = copy /\ rec.pos = ev.pos /\ rec.ts = ev.ts
    BY <1>2 DEF Copy
  <1> HIDE DEF rec
  <1>4. /\ n \in Nat /\ Append(list, rec) \in Seq(Copy) /\ Len(Append(list, rec)) = n + 1
        /\ Append(list, rec)[n + 1] = rec /\ \A m \in 1 .. n : Append(list, rec)[m] = list[m]
    BY <1>3
  <1> DEFINE list2 == Append(list, rec)
  <1>5. \A m \in 1 .. n + 1 : m \in 1 .. n \/ m = n + 1
    BY <1>4
  <1>6. CASE ev.type = type
    <2>1. KeptAs(list, type, ev, copy) = list2
      BY <1>1, <1>6
    <2>2. \A m \in 1 .. Len(list2) :
            \/ m \in 1 .. n
            \/ m = n + 1 /\ ev.type = type /\ list2[m].type = copy /\ list2[m].pos = ev.pos /\ list2[m].ts = ev.ts
      <3> HIDE DEF list2, n
      <3> QED BY <1>3, <1>4, <1>5, <1>6 DEF list2
    <2>3. n <= n + 1 /\ n + 1 \in Nat
      BY <1>4
    <2> QED BY <1>4, <2>1, <2>2, <2>3
  <1>7. CASE ev.type # type
    <2>1. KeptAs(list, type, ev, copy) = list
      BY <1>1, <1>7
    <2> QED BY <1>4, <2>1
  <1> QED BY <1>6, <1>7

(* Its copies are each of an event of their own still.                     *)
LEMMA CopiesGrow ==
  ASSUME NEW past, LogOk(past), NEW list \in Seq(Copy), NEW type, NEW copy \in RestKinds, CopiesOk(past, list, copy, type),
         NEW ev \in LogRecord, ev.ts \in Nat, ev.pos = Len(past) + 1
  PROVE  CopiesOk(Append(past, ev), KeptAs(list, type, ev, copy), copy, type)
  <1> DEFINE past2 == Append(past, ev)
             list2 == KeptAs(list, type, ev, copy)
             n == Len(past)
             l == Len(list)
  <1>1. n \in Nat /\ past \in Seq(LogRecord)
    BY LogOkLen
  <1>2. Len(past2) = n + 1 /\ past2[n + 1] = ev /\ \A i \in 1 .. n : past2[i] = past[i]
    BY <1>1
  <1>3. /\ l \in Nat
        /\ \A m \in 1 .. l : list2[m] = list[m]
        /\ \A m \in 1 .. Len(list2) :
             \/ m \in 1 .. l
             \/ m = l + 1 /\ ev.type = type /\ list2[m].type = copy /\ list2[m].pos = ev.pos /\ list2[m].ts = ev.ts
    BY KeptIs
  <1>4. \A m \in 1 .. l : list[m].type = copy =>
          list[m].pos \in 1 .. n /\ At(past, list[m].pos, type) /\ list[m].ts = past[list[m].pos].ts
    BY DEF CopiesOk
  <1>5. \A m, k \in 1 .. l :
          list[m].type = copy /\ list[k].type = copy /\ list[m].pos = list[k].pos => m = k
    BY DEF CopiesOk
  <1>6. ev.pos = n + 1 /\ n + 1 \notin 1 .. n /\ n + 1 \in 1 .. n + 1 /\ 1 .. n \subseteq 1 .. n + 1
    BY <1>1
  <1> HIDE DEF past2, list2, n, l
  <1>7. ASSUME NEW m \in 1 .. Len(list2), list2[m].type = copy
        PROVE  list2[m].pos \in 1 .. Len(past2) /\ At(past2, list2[m].pos, type) /\ list2[m].ts = past2[list2[m].pos].ts
    <2>1. CASE m \in 1 .. l
      <3>1. list[m].pos \in 1 .. n /\ At(past, list[m].pos, type) /\ list[m].ts = past[list[m].pos].ts /\ list2[m] = list[m]
        BY <1>3, <1>4, <1>7, <2>1
      <3>2. past2[list[m].pos] = past[list[m].pos]
        BY <1>2, <3>1
      <3> QED BY <1>2, <1>6, <3>1, <3>2 DEF At
    <2>2. CASE ev.type = type /\ list2[m].pos = ev.pos /\ list2[m].ts = ev.ts
      BY <1>2, <1>6, <2>2 DEF At
    <2> QED BY <1>3, <2>1, <2>2
  <1>8. ASSUME NEW m \in 1 .. Len(list2), NEW k \in 1 .. Len(list2), list2[m].type = copy, list2[k].type = copy,
               list2[m].pos = list2[k].pos
        PROVE  m = k
    <2>1. CASE m \in 1 .. l /\ k \in 1 .. l
      BY <1>3, <1>5, <1>8, <2>1
    <2>2. CASE m = l + 1 /\ k = l + 1
      BY <2>2
    <2>3. CASE m \in 1 .. l /\ list2[k].pos = ev.pos
      <3>1. list[m].pos \in 1 .. n /\ list2[m] = list[m]
        BY <1>3, <1>4, <1>8, <2>3
      <3> QED BY <1>6, <1>8, <2>3, <3>1
    <2>4. CASE k \in 1 .. l /\ list2[m].pos = ev.pos
      <3>1. list[k].pos \in 1 .. n /\ list2[k] = list[k]
        BY <1>3, <1>4, <1>8, <2>4
      <3> QED BY <1>6, <1>8, <2>4, <3>1
    <2> QED BY <1>3, <2>1, <2>2, <2>3, <2>4
  <1>9. CopiesOk(past2, list2, copy, type)
    BY <1>7, <1>8 DEF CopiesOk
  <1> QED BY <1>9 DEF past2, list2

(* HQ's messages stay as they should be, with what is kept of an event,    *)
LEMMA MessagesGrow ==
  ASSUME NEW past, LogOk(past), NEW list, MessagesOk(past, list), NEW ev \in LogRecord, ev.ts \in Nat,
         ev.pos = Len(past) + 1
  PROVE  LET list2 == KeptAs(list, "assistant.message", ev, "msg-assistant")
         IN MessagesOk(Append(past, ev), list2) /\ Len(list) \in Nat /\ Len(list2) \in Nat /\ Len(list) <= Len(list2)
  <1> DEFINE type == "assistant.message"
             copy == "msg-assistant"
             list2 == KeptAs(list, type, ev, copy)
             l == Len(list)
  <1>1. /\ list \in Seq(Copy) /\ \A m \in 1 .. l : list[m].type \in {"msg-user", "msg-assistant"}
        /\ \A m \in 1 .. l : list[m].type = "msg-user" => list[m].pos = m
        /\ CopiesOk(past, list, copy, type)
    BY DEF MessagesOk
  <1>2. copy \in RestKinds
    BY DEF RestKinds
  <1> HIDE DEF type, copy
  <1>3. CopiesOk(Append(past, ev), list2, copy, type)
    BY <1>1, <1>2, CopiesGrow
  <1>4. /\ list2 \in Seq(Copy) /\ l \in Nat /\ Len(list2) \in Nat /\ l <= Len(list2)
        /\ \A m \in 1 .. l : list2[m] = list[m]
        /\ \A m \in 1 .. Len(list2) :
             \/ m \in 1 .. l
             \/ m = l + 1 /\ ev.type = type /\ list2[m].type = copy /\ list2[m].pos = ev.pos /\ list2[m].ts = ev.ts
    <2>1. list \in Seq(Copy)
      BY <1>1
    <2> QED BY <1>2, <2>1, KeptIs
  <1> HIDE DEF list2, l
  <1>5. \A m \in 1 .. Len(list2) : list2[m].type \in {"msg-user", "msg-assistant"}
    BY <1>1, <1>4 DEF copy
  <1>6. \A m \in 1 .. Len(list2) : list2[m].type = "msg-user" => list2[m].pos = m
    BY <1>1, <1>4 DEF copy
  <1>7. MessagesOk(Append(past, ev), list2)
    BY <1>3, <1>4, <1>5, <1>6 DEF MessagesOk, type, copy
  <1> QED BY <1>4, <1>7 DEF list2, l, type, copy

(* and so do HQ's tool invocations.                                        *)
LEMMA InvocationsGrow ==
  ASSUME NEW past, LogOk(past), NEW list, InvocationsOk(past, list), NEW ev \in LogRecord, ev.ts \in Nat,
         ev.pos = Len(past) + 1
  PROVE  LET list2 == KeptAs(list, "copilot:tool-invocation", ev, "tool-invocation")
         IN InvocationsOk(Append(past, ev), list2) /\ Len(list) \in Nat /\ Len(list2) \in Nat /\ Len(list) <= Len(list2)
  <1> DEFINE type == "copilot:tool-invocation"
             copy == "tool-invocation"
             list2 == KeptAs(list, type, ev, copy)
             l == Len(list)
  <1>1. /\ list \in Seq(Copy) /\ \A m \in 1 .. l : list[m].type = "tool-invocation"
        /\ CopiesOk(past, list, copy, type)
    BY DEF InvocationsOk
  <1>2. copy \in RestKinds
    BY DEF RestKinds
  <1> HIDE DEF type, copy
  <1>3. CopiesOk(Append(past, ev), list2, copy, type)
    BY <1>1, <1>2, CopiesGrow
  <1>4. /\ list2 \in Seq(Copy) /\ l \in Nat /\ Len(list2) \in Nat /\ l <= Len(list2)
        /\ \A m \in 1 .. l : list2[m] = list[m]
        /\ \A m \in 1 .. Len(list2) :
             \/ m \in 1 .. l
             \/ m = l + 1 /\ ev.type = type /\ list2[m].type = copy /\ list2[m].pos = ev.pos /\ list2[m].ts = ev.ts
    <2>1. list \in Seq(Copy)
      BY <1>1
    <2> QED BY <1>2, <2>1, KeptIs
  <1> HIDE DEF list2, l
  <1>5. \A m \in 1 .. Len(list2) : list2[m].type = "tool-invocation"
    BY <1>1, <1>4 DEF copy
  <1>6. InvocationsOk(Append(past, ev), list2)
    BY <1>3, <1>4, <1>5 DEF InvocationsOk, type, copy
  <1> QED BY <1>4, <1>6 DEF list2, l, type, copy

(* A prompt is kept at its own position.                                   *)
LEMMA PromptKept ==
  ASSUME NEW past, NEW list, MessagesOk(past, list), NEW ts \in Nat
  PROVE  LET list2 == Append(list, Record("msg-user", Len(list) + 1, ts, 0))
         IN MessagesOk(past, list2) /\ Len(list) \in Nat /\ Len(list2) = Len(list) + 1
  <1> DEFINE l == Len(list)
             rec == [type |-> "msg-user", pos |-> l + 1, ts |-> ts, call |-> 0]
             list2 == Append(list, rec)
  <1>1. Append(list, Record("msg-user", Len(list) + 1, ts, 0)) = list2
    BY DEF Record
  <1>2. /\ list \in Seq(Copy) /\ \A m \in 1 .. l : list[m].type \in {"msg-user", "msg-assistant"}
        /\ \A m \in 1 .. l : list[m].type = "msg-user" => list[m].pos = m
        /\ CopiesOk(past, list, "msg-assistant", "assistant.message")
    BY DEF MessagesOk
  <1>3. l \in Nat
    BY <1>2
  <1>4. rec \in Copy /\ rec.type = "msg-user" /\ rec.pos = l + 1
    <2> HIDE DEF l
    <2> QED BY <1>3 DEF Copy, RestKinds
  <1> HIDE DEF rec
  <1>5. /\ list2 \in Seq(Copy) /\ Len(list2) = l + 1 /\ list2[l + 1] = rec
        /\ \A m \in 1 .. l : list2[m] = list[m]
    BY <1>2, <1>4
  <1>6. \A m \in 1 .. l + 1 : m \in 1 .. l \/ m = l + 1
    BY <1>3
  <1> HIDE DEF list2, l
  <1>7. \A m \in 1 .. Len(list2) : list2[m].type \in {"msg-user", "msg-assistant"}
    BY <1>2, <1>4, <1>5, <1>6
  <1>8. \A m \in 1 .. Len(list2) : list2[m].type = "msg-user" => list2[m].pos = m
    BY <1>2, <1>4, <1>5, <1>6
  <1>9. \A m \in 1 .. Len(list2) : list2[m].type = "msg-assistant" => m \in 1 .. l /\ list2[m] = list[m]
    BY <1>4, <1>5, <1>6
  <1>10. CopiesOk(past, list2, "msg-assistant", "assistant.message")
    <2>1. /\ \A m \in 1 .. l : list[m].type = "msg-assistant" =>
               /\ list[m].pos \in 1 .. Len(past) /\ At(past, list[m].pos, "assistant.message")
               /\ list[m].ts = past[list[m].pos].ts
          /\ \A m, k \in 1 .. l :
               list[m].type = "msg-assistant" /\ list[k].type = "msg-assistant" /\ list[m].pos = list[k].pos => m = k
      BY <1>2 DEF CopiesOk, l
    <2>2. \A m \in 1 .. Len(list2) : list2[m].type = "msg-assistant" =>
            /\ list2[m].pos \in 1 .. Len(past) /\ At(past, list2[m].pos, "assistant.message")
            /\ list2[m].ts = past[list2[m].pos].ts
      BY <1>9, <2>1
    <2>3. \A m, k \in 1 .. Len(list2) :
            list2[m].type = "msg-assistant" /\ list2[k].type = "msg-assistant" /\ list2[m].pos = list2[k].pos => m = k
      BY <1>9, <2>1
    <2> QED BY <2>2, <2>3 DEF CopiesOk
  <1>11. MessagesOk(past, list2)
    BY <1>5, <1>7, <1>8, <1>10 DEF MessagesOk
  <1> HIDE DEF list2
  <1> QED BY <1>1, <1>3, <1>5, <1>11 DEF l

(* Seeding changes nothing that was seen.                                  *)
LEMMA SeededSaw ==
  ASSUME LogOk(sessionLog), NEW from \in Nat, NEW upto \in Nat, from <= upto, upto <= Len(sessionLog),
         NEW s, NEW lo, NEW hi, Saw(sessionLog, s, lo, hi)
  PROVE  Saw(sessionLog, Seeded(s, from, upto), lo, hi)
  <1> DEFINE batch == ProcessEventBatch(from, upto)
             starts == s.starts \cup batch.starts
             stack == IF s.stack = <<>> THEN batch.stack ELSE s.stack
             t == [s EXCEPT !.starts = starts, !.stack = stack]
  <1>1. batch \in Processor
    BY BatchSaw DEF Saw
  <1>2. s \in Processor
    BY DEF Saw
  <1>3. Seeded(s, from, upto) = t
    BY DEF Seeded
  <1> HIDE DEF batch
  <1>4. starts \in SUBSET Stamps /\ stack \in Seq(Stamps)
    BY <1>1, <1>2 DEF Processor
  <1> HIDE DEF starts, stack
  <1>5. t \in Processor /\ t.entries = s.entries /\ t.streaming = s.streaming /\ t.thinking = s.thinking
    BY <1>2, <1>4 DEF Processor
  <1> HIDE DEF t
  <1>6. EntriesOk(sessionLog, t.entries, lo, hi) /\ EventsShown(sessionLog, t.entries, lo, hi)
    BY <1>5 DEF Saw
  <1>7. /\ t.streaming => Owed(sessionLog, "assistant.message_delta", "assistant.message", lo, hi)
        /\ t.thinking => Owed(sessionLog, "assistant.reasoning_delta", "assistant.reasoning", lo, hi)
    BY <1>5, Zenon DEF Saw
  <1>8. Saw(sessionLog, t, lo, hi)
    BY <1>5, <1>6, <1>7, Zenon DEF Saw
  <1> QED BY <1>3, <1>8

(* The invariant holds at first,                                           *)
LEMMA ConversationStart == CvInit => ConversationInv
  <1> SUFFICES ASSUME CvInit PROVE ConversationInv
    OBVIOUS
  <1> DEFINE none == << >>
  <1>1. none \in Seq(LogRecord) /\ none \in Seq(Copy) /\ Len(none) = 0
    BY EmptySeq
  <1>2. sessionLog = none /\ messages = none /\ invocations = none
    BY DEF CvInit
  <1> HIDE DEF none
  <1>3. \A i \in 1 .. 0 : FALSE
    OBVIOUS
  <1>4. LogOk(sessionLog)
    <2>1. 0 <= MaxLogged
      BY ConversationAssumption
    <2> QED BY <1>1, <1>2, <1>3, <2>1 DEF LogOk
  <1>5. MessagesOk(sessionLog, messages) /\ InvocationsOk(sessionLog, invocations)
    BY <1>1, <1>2, <1>3 DEF MessagesOk, InvocationsOk, CopiesOk
  <1>6. QueriesOk
    <2>1. fetch = "idle" /\ askedAt = 0 /\ pageFrom = 0 /\ answered = FALSE /\ held = [q \in Queries |-> 0]
      BY DEF CvInit
    <2>2. held \in [Queries -> Nat] /\ held["events"] = 0 /\ held["messages"] = 0 /\ held["tools"] = 0
      BY <2>1 DEF Queries
    <2>3. 0 \in 0 .. 0 /\ 0 <= 0
      OBVIOUS
    <2>4. answered \in BOOLEAN /\ fetch \in {"idle", "requested"}
      BY <2>1
    <2> QED BY <1>1, <1>2, <2>1, <2>2, <2>3, <2>4 DEF QueriesOk
  <1>7. LiveOk
    <2>1. delivered = 0 /\ liveFrom = 0 /\ selectedNow = FALSE /\ selections = 0 /\ live = NothingProcessed
      BY DEF CvInit
    <2>2. live \in Processor
      BY <2>1, NothingSaw DEF Saw
    <2>3. 0 \in 0 .. 0 /\ 0 \in 0 .. MaxSelections
      BY ConversationAssumption
    <2>4. selectedNow \in BOOLEAN /\ ~selectedNow
      BY <2>1
    <2> QED BY <1>1, <1>2, <2>1, <2>2, <2>3, <2>4, Zenon DEF LiveOk
  <1> QED BY <1>4, <1>5, <1>6, <1>7 DEF ConversationInv

(* An event of the session is added to HQ's lists.                         *)
LEMMA EventStep == ConversationInv /\ SessionEvent => ConversationInv'
  <1> SUFFICES ASSUME ConversationInv, SessionEvent PROVE ConversationInv'
    OBVIOUS
  <1>1. /\ LogOk(sessionLog) /\ MessagesOk(sessionLog, messages) /\ InvocationsOk(sessionLog, invocations)
        /\ QueriesOk /\ LiveOk
    BY DEF ConversationInv
  <1>2. PICK type \in LogTypes : \E c \in NextCalls(type), ts \in NextTimes :
          KeepEvent(Record(type, Len(sessionLog) + 1, ts, c))
    BY DEF SessionEvent
  <1>3. PICK c \in NextCalls(type), ts \in NextTimes : KeepEvent(Record(type, Len(sessionLog) + 1, ts, c))
    BY <1>2
  <1>4. Len(sessionLog) < MaxLogged /\ UNCHANGED <<queries, delivered, selectedNow, liveFrom, live, selections>>
    BY DEF SessionEvent
  <1> DEFINE ev == Record(type, Len(sessionLog) + 1, ts, c)
  <1>5. messages \in Seq(Copy)
    BY <1>1 DEF MessagesOk
  <1>6. /\ ev \in LogRecord /\ ev.type = type /\ ev.pos = Len(sessionLog) + 1 /\ ev.ts = ts /\ ev.call = c
        /\ ts \in Nat /\ c \in Nat
        /\ type = "subagent.started" => c \in Stamps
        /\ type = "tool.execution_complete" =>
             c \in Logged("tool.execution_start") /\ c \notin LoggedFor("tool.execution_complete")
    BY <1>1, <1>4, <1>5, NextEventIs
  <1>7. /\ sessionLog' = Append(sessionLog, ev)
        /\ messages' = KeptAs(messages, "assistant.message", ev, "msg-assistant")
        /\ invocations' = KeptAs(invocations, "copilot:tool-invocation", ev, "tool-invocation")
    BY <1>3 DEF KeepEvent
  <1> HIDE DEF ev
  <1>8. LogOk(sessionLog')
    BY <1>1, <1>4, <1>6, <1>7, LogGrows
  <1>9. MessagesOk(sessionLog', messages') /\ Len(messages) \in Nat /\ Len(messages') \in Nat /\ Len(messages) <= Len(messages')
    <2>1. ev.ts \in Nat
      BY <1>6
    <2> QED BY <1>1, <1>6, <1>7, <2>1, MessagesGrow
  <1>10. /\ InvocationsOk(sessionLog', invocations') /\ Len(invocations) \in Nat /\ Len(invocations') \in Nat
         /\ Len(invocations) <= Len(invocations')
    <2>1. ev.ts \in Nat
      BY <1>6
    <2> QED BY <1>1, <1>6, <1>7, <2>1, InvocationsGrow
  <1>11. sessionLog \in Seq(LogRecord) /\ Len(sessionLog) \in Nat
    BY <1>1, LogOkLen
  <1>12. Len(sessionLog') = Len(sessionLog) + 1
    BY <1>7, <1>11
  <1>13. QueriesOk'
    <2>1. UNCHANGED <<fetch, askedAt, held, pageFrom, answered>>
      BY <1>4 DEF queries
    <2>2. held \in [Queries -> Nat] /\ held["events"] \in Nat /\ held["messages"] \in Nat /\ held["tools"] \in Nat
      BY <1>1 DEF QueriesOk, Queries
    <2>3. /\ held["events"] <= Len(sessionLog') /\ held["messages"] <= Len(messages')
          /\ held["tools"] <= Len(invocations') /\ askedAt \in 0 .. Len(sessionLog')
      BY <1>1, <1>9, <1>10, <1>11, <1>12, <2>2, SMTT(30) DEF QueriesOk
    <2> QED BY <1>1, <2>1, <2>3 DEF QueriesOk
  <1>14. LiveOk'
    <2>1. UNCHANGED <<delivered, selectedNow, liveFrom, live, selections>>
      BY <1>4
    <2>2. delivered \in Nat /\ liveFrom \in Nat /\ delivered <= Len(sessionLog) /\ delivered \in 0 .. Len(sessionLog')
      BY <1>1, <1>11, <1>12 DEF LiveOk
    <2>3. selectedNow => Saw(sessionLog', live, liveFrom, delivered)
      <3> SUFFICES ASSUME selectedNow PROVE Saw(sessionLog', live, liveFrom, delivered)
        OBVIOUS
      <3>1. Saw(sessionLog, live, liveFrom, delivered)
        BY <1>1 DEF LiveOk
      <3>2. Saw(Append(sessionLog, ev), live, liveFrom, delivered)
        BY <1>1, <2>2, <3>1, SawLonger
      <3> QED BY <1>7, <3>2
    <2> QED BY <1>1, <2>1, <2>2, <2>3 DEF LiveOk
  <1> QED BY <1>8, <1>9, <1>10, <1>13, <1>14 DEF ConversationInv

(* The tab's own steps.                                                    *)
LEMMA TabStep ==
  ASSUME ConversationInv, LiveEvent \/ Select \/ Deselect \/ BackOnline
  PROVE  ConversationInv'
  <1>1. LogOk(sessionLog) /\ Len(sessionLog) \in Nat
    BY LogOkLen DEF ConversationInv
  <1>2. QueriesOk /\ LiveOk /\ UNCHANGED hqLists
    BY DEF ConversationInv, LiveEvent, Select, Deselect, BackOnline
  <1>3. sessionLog' = sessionLog /\ messages' = messages /\ invocations' = invocations
    BY <1>2 DEF hqLists
  <1>4. /\ LogOk(sessionLog') /\ MessagesOk(sessionLog', messages') /\ InvocationsOk(sessionLog', invocations')
    BY <1>3 DEF ConversationInv
  <1>5. /\ delivered \in 0 .. Len(sessionLog) /\ delivered \in Nat /\ liveFrom \in 0 .. delivered /\ liveFrom \in Nat
        /\ liveFrom <= delivered /\ selectedNow \in BOOLEAN /\ selections \in 0 .. MaxSelections /\ live \in Processor
        /\ IF selectedNow THEN Saw(sessionLog, live, liveFrom, delivered) ELSE liveFrom = delivered
    BY <1>1, <1>2 DEF LiveOk
  <1>6. /\ fetch \in {"idle", "requested"} /\ askedAt \in 0 .. Len(sessionLog) /\ answered \in BOOLEAN
        /\ held \in [Queries -> Nat]
        /\ held["events"] <= Len(sessionLog) /\ held["messages"] <= Len(messages) /\ held["tools"] <= Len(invocations)
        /\ pageFrom \in 0 .. held["events"]
    BY <1>2 DEF QueriesOk
  <1>7. UNCHANGED queries => QueriesOk'
    BY <1>3, <1>6 DEF queries, QueriesOk
  <1>8. Len(sessionLog) \in 0 .. Len(sessionLog)
    BY <1>1
  <1>9. CASE LiveEvent
    <2>1. delivered < Len(sessionLog) /\ delivered' = delivered + 1 /\ UNCHANGED <<queries, selectedNow, selections>>
      BY <1>9 DEF LiveEvent
    <2>2. delivered + 1 <= Len(sessionLog) /\ delivered + 1 \in 0 .. Len(sessionLog) /\ delivered + 1 \in Nat
      BY <1>1, <1>5, <2>1
    <2>3. LiveOk'
      <3>1. CASE selectedNow
        <4>1. live' = ProcessSessionEvent(live, sessionLog[delivered + 1]) /\ liveFrom' = liveFrom
          BY <1>9, <3>1 DEF LiveEvent
        <4>2. Saw(sessionLog, live', liveFrom, delivered + 1)
          <5>1. Saw(sessionLog, live, liveFrom, delivered)
            BY <1>5, <3>1
          <5> QED BY <1>1, <1>5, <2>2, <4>1, <5>1, ProcessSaw
        <4>3. live' \in Processor
          BY <4>2 DEF Saw
        <4>4. liveFrom \in 0 .. delivered + 1
          BY <1>5
        <4>5. delivered' \in 0 .. Len(sessionLog') /\ liveFrom' \in 0 .. delivered'
          BY <1>3, <2>1, <2>2, <4>1, <4>4
        <4>6. selectedNow' = selectedNow /\ selections' = selections /\ Saw(sessionLog', live', liveFrom', delivered')
          BY <1>3, <2>1, <4>1, <4>2
        <4> QED BY <1>5, <3>1, <4>3, <4>5, <4>6 DEF LiveOk
      <3>2. CASE ~selectedNow
        <4>1. liveFrom' = delivered + 1 /\ live' = live
          BY <1>9, <3>2 DEF LiveEvent
        <4>2. delivered' \in 0 .. Len(sessionLog') /\ liveFrom' \in 0 .. delivered' /\ liveFrom' = delivered'
          BY <1>3, <2>1, <2>2, <4>1
        <4>3. selectedNow' = selectedNow /\ selections' = selections
          BY <2>1
        <4> QED BY <1>5, <3>2, <4>1, <4>2, <4>3 DEF LiveOk
      <3> QED BY <3>1, <3>2
    <2> QED BY <1>4, <1>7, <2>1, <2>3 DEF ConversationInv
  <1>10. CASE Select
    <2>1. /\ ~selectedNow /\ selections < MaxSelections /\ selections' = selections + 1 /\ selectedNow' = TRUE
          /\ live' = NothingProcessed /\ delivered' = delivered /\ liveFrom' = liveFrom
      BY <1>10 DEF Select
    <2>2. QueriesOk'
      <3>1. PICK gone \in {{}, IF fetch = "idle" THEN Queries ELSE Queries \ {"events"}} :
              /\ held' = [q \in Queries |-> IF q \in gone THEN 0 ELSE held[q]]
              /\ pageFrom' = IF "events" \in gone THEN 0 ELSE pageFrom
              /\ answered' = (answered /\ "events" \notin gone)
        BY <1>10 DEF Select
      <3>2. fetch' \in {"idle", "requested"} /\ askedAt' \in 0 .. Len(sessionLog)
        BY <1>6, <1>8, <1>10 DEF Select
      <3>3. answered' \in BOOLEAN
        BY <3>1
      <3>4. "events" \in Queries /\ "messages" \in Queries /\ "tools" \in Queries
        BY DEF Queries
      <3>5. held["events"] \in Nat /\ held["messages"] \in Nat /\ held["tools"] \in Nat
        BY <1>6, <3>4
      <3>6. /\ held' \in [Queries -> Nat]
            /\ \A q \in Queries : held'[q] = IF q \in gone THEN 0 ELSE held[q]
        BY <1>6, <3>1
      <3>7. Len(messages) \in Nat /\ Len(invocations) \in Nat
        BY DEF ConversationInv, MessagesOk, InvocationsOk
      <3>8. /\ held'["events"] = IF "events" \in gone THEN 0 ELSE held["events"]
            /\ held'["messages"] = IF "messages" \in gone THEN 0 ELSE held["messages"]
            /\ held'["tools"] = IF "tools" \in gone THEN 0 ELSE held["tools"]
        BY <3>4, <3>6
      <3>9. held'["events"] <= Len(sessionLog) /\ held'["messages"] <= Len(messages) /\ held'["tools"] <= Len(invocations)
        BY <1>1, <1>6, <3>5, <3>7, <3>8
      <3>10. pageFrom' \in 0 .. held'["events"]
        BY <1>6, <3>1, <3>5, <3>8
      <3> QED BY <1>3, <3>2, <3>3, <3>6, <3>9, <3>10 DEF QueriesOk
    <2>3. LiveOk'
      <3>1. liveFrom = delivered
        BY <1>5, <2>1
      <3>2. Saw(sessionLog, NothingProcessed, delivered, delivered)
        BY <1>5, NothingSaw
      <3>3. live' \in Processor /\ Saw(sessionLog', live', liveFrom', delivered')
        BY <1>3, <2>1, <3>1, <3>2 DEF Saw
      <3>4. selections' \in 0 .. MaxSelections
        BY <1>5, <2>1, ConversationAssumption
      <3>5. delivered' \in 0 .. Len(sessionLog') /\ liveFrom' \in 0 .. delivered'
        BY <1>3, <1>5, <2>1
      <3> QED BY <2>1, <3>3, <3>4, <3>5 DEF LiveOk
    <2> QED BY <1>4, <2>2, <2>3 DEF ConversationInv
  <1>11. CASE Deselect
    <2>1. /\ selectedNow' = FALSE /\ liveFrom' = delivered /\ live' = NothingProcessed
          /\ UNCHANGED <<queries, delivered, selections>>
      BY <1>11 DEF Deselect
    <2>2. live' \in Processor
      BY <1>5, <2>1, NothingSaw DEF Saw
    <2>3. liveFrom' \in 0 .. delivered' /\ liveFrom' = delivered' /\ delivered' \in 0 .. Len(sessionLog')
      BY <1>3, <1>5, <2>1
    <2>4. LiveOk'
      BY <1>5, <2>1, <2>2, <2>3 DEF LiveOk
    <2> QED BY <1>4, <1>7, <2>1, <2>4 DEF ConversationInv
  <1>12. CASE BackOnline
    <2>1. /\ fetch' = "requested" /\ askedAt' = Len(sessionLog)
          /\ UNCHANGED <<held, pageFrom, answered, delivered, selectedNow, liveFrom, live, selections>>
      BY <1>12 DEF BackOnline
    <2>2. QueriesOk'
      BY <1>3, <1>6, <1>8, <2>1 DEF QueriesOk
    <2>3. LiveOk'
      BY <1>3, <1>5, <2>1 DEF LiveOk
    <2> QED BY <1>4, <2>2, <2>3 DEF ConversationInv
  <1> QED BY <1>9, <1>10, <1>11, <1>12

(* A page of history is of the log.                                        *)
LEMMA HistoryStep ==
  ASSUME ConversationInv, NEW lo \in Nat, NEW hi \in Nat, lo <= hi, hi <= Len(sessionLog), HistoryIs(lo, hi)
  PROVE  ConversationInv'
  <1>1. LogOk(sessionLog) /\ Len(sessionLog) \in Nat /\ QueriesOk /\ LiveOk
    BY LogOkLen DEF ConversationInv
  <1>2. /\ fetch' = "idle" /\ askedAt' = 0 /\ held' = [held EXCEPT !["events"] = hi] /\ pageFrom' = lo /\ answered' = TRUE
        /\ live' = IF selectedNow /\ <<lo, hi>> # <<pageFrom, held["events"]>> THEN Seeded(live, lo, hi) ELSE live
        /\ UNCHANGED <<hqLists, delivered, selectedNow, liveFrom, selections>>
    BY DEF HistoryIs
  <1>3. sessionLog' = sessionLog /\ messages' = messages /\ invocations' = invocations
    BY <1>2 DEF hqLists
  <1>4. /\ LogOk(sessionLog') /\ MessagesOk(sessionLog', messages') /\ InvocationsOk(sessionLog', invocations')
    BY <1>3 DEF ConversationInv
  <1>5. QueriesOk'
    <2>1. /\ held' \in [Queries -> Nat] /\ held'["events"] = hi /\ held'["messages"] = held["messages"]
          /\ held'["tools"] = held["tools"]
      BY <1>1, <1>2 DEF QueriesOk, Queries
    <2>2. lo \in 0 .. hi /\ 0 \in 0 .. Len(sessionLog) /\ askedAt' = 0 /\ fetch' \in {"idle", "requested"}
          /\ answered' \in BOOLEAN
      BY <1>1, <1>2
    <2> QED BY <1>1, <1>2, <1>3, <2>1, <2>2 DEF QueriesOk
  <1>6. LiveOk'
    <2>1. CASE live' = live
      BY <1>1, <1>2, <1>3, <2>1 DEF LiveOk
    <2>2. CASE selectedNow /\ live' = Seeded(live, lo, hi)
      <3>1. Saw(sessionLog, live, liveFrom, delivered)
        BY <1>1, <2>2 DEF LiveOk
      <3>2. Saw(sessionLog, Seeded(live, lo, hi), liveFrom, delivered)
        BY <1>1, <3>1, SeededSaw
      <3>3. live' \in Processor /\ Saw(sessionLog', live', liveFrom', delivered')
        BY <1>2, <1>3, <2>2, <3>2 DEF Saw
      <3> QED BY <1>1, <1>2, <1>3, <2>2, <3>3 DEF LiveOk
    <2> QED BY <1>2, <2>1, <2>2
  <1> QED BY <1>4, <1>5, <1>6 DEF ConversationInv

(* An answer never shortens what the tab has of HQ's lists.                *)
LEMMA ListStep ==
  ASSUME ConversationInv, NEW q \in {"messages", "tools"}, ListArrives(q)
  PROVE  ConversationInv'
  <1>1. QueriesOk /\ LiveOk
    BY DEF ConversationInv
  <1>2. PICK n \in held[q] .. Len(HqList(q)) : held' = [held EXCEPT ![q] = n]
    BY DEF ListArrives
  <1>3. UNCHANGED <<hqLists, fetch, askedAt, pageFrom, answered, delivered, selectedNow, liveFrom, live, selections>>
    BY DEF ListArrives
  <1>4. sessionLog' = sessionLog /\ messages' = messages /\ invocations' = invocations
    BY <1>3 DEF hqLists
  <1>5. HqList("messages") = messages /\ HqList("tools") = invocations
    BY DEF HqList
  <1>6. QueriesOk'
    <2>1. held \in [Queries -> Nat] /\ "events" \in Queries /\ "messages" \in Queries /\ "tools" \in Queries
      BY <1>1 DEF QueriesOk, Queries
    <2>2. Len(messages) \in Nat /\ Len(invocations) \in Nat
      BY DEF ConversationInv, MessagesOk, InvocationsOk
    <2>3. n \in Nat /\ n <= Len(HqList(q))
      BY <1>2, <1>5, <2>1, <2>2
    <2>4. held' \in [Queries -> Nat] /\ held'["events"] = held["events"]
      BY <1>2, <2>1, <2>3
    <2>5. held'["messages"] <= Len(messages) /\ held'["tools"] <= Len(invocations)
      <3>1. CASE q = "messages"
        BY <1>1, <1>2, <1>5, <2>1, <2>3, <3>1 DEF QueriesOk
      <3>2. CASE q = "tools"
        BY <1>1, <1>2, <1>5, <2>1, <2>3, <3>2 DEF QueriesOk
      <3> QED BY <3>1, <3>2
    <2> QED BY <1>1, <1>3, <1>4, <2>4, <2>5 DEF QueriesOk
  <1>7. LiveOk'
    BY <1>1, <1>3, <1>4 DEF LiveOk
  <1> QED BY <1>4, <1>6, <1>7 DEF ConversationInv

(* and every step keeps it.                                                *)
LEMMA ConversationStep == ConversationInv /\ [CvNext]_cvVars => ConversationInv'
  <1> SUFFICES ASSUME ConversationInv, [CvNext]_cvVars PROVE ConversationInv'
    OBVIOUS
  <1>1. LogOk(sessionLog) /\ Len(sessionLog) \in Nat /\ QueriesOk /\ LiveOk
    BY LogOkLen DEF ConversationInv
  <1>2. CASE SessionEvent
    BY <1>2, EventStep
  <1>3. CASE SendRoute
    <2>1. PICK ts \in 1 .. MaxTime : messages' = Append(messages, Record("msg-user", Len(messages) + 1, ts, 0))
      BY <1>3 DEF SendRoute
    <2>2. UNCHANGED <<sessionLog, invocations, queries, delivered, selectedNow, liveFrom, live, selections>>
      BY <1>3 DEF SendRoute
    <2>3. ts \in Nat
      BY ConversationAssumption
    <2>4. MessagesOk(sessionLog, messages') /\ Len(messages) \in Nat /\ Len(messages') = Len(messages) + 1
      <3>1. MessagesOk(sessionLog, messages)
        BY DEF ConversationInv
      <3> QED BY <2>1, <2>3, <3>1, PromptKept
    <2>5. /\ LogOk(sessionLog') /\ MessagesOk(sessionLog', messages') /\ InvocationsOk(sessionLog', invocations')
      BY <2>2, <2>4 DEF ConversationInv
    <2>6. QueriesOk'
      <3>1. held \in [Queries -> Nat] /\ held["messages"] \in Nat
        BY <1>1 DEF QueriesOk, Queries
      <3>2. held["messages"] <= Len(messages')
        BY <1>1, <2>4, <3>1 DEF QueriesOk
      <3> QED BY <1>1, <2>2, <3>2 DEF QueriesOk, queries
    <2>7. LiveOk'
      BY <1>1, <2>2 DEF LiveOk
    <2> QED BY <2>5, <2>6, <2>7 DEF ConversationInv
  <1>4. CASE LiveEvent \/ Select \/ Deselect \/ BackOnline
    BY <1>4, TabStep
  <1>5. CASE HistoryArrives
    <2>1. PICK n \in askedAt .. Len(sessionLog) : HistoryIs(IF n > PageSize THEN n - PageSize ELSE 0, n)
      BY <1>5 DEF HistoryArrives
    <2>2. askedAt \in Nat
      BY <1>1 DEF QueriesOk
    <2> DEFINE lo == IF n > PageSize THEN n - PageSize ELSE 0
    <2>3. n \in Nat /\ n <= Len(sessionLog) /\ lo \in Nat /\ lo <= n
      BY <1>1, <2>2, ConversationAssumption
    <2>4. HistoryIs(lo, n)
      BY <2>1
    <2> HIDE DEF lo
    <2> QED BY <2>3, <2>4, HistoryStep
  <1>6. CASE HistoryFails
    BY <1>1, <1>6, HistoryStep DEF HistoryFails
  <1>7. CASE \E q \in {"messages", "tools"} : ListArrives(q)
    BY <1>7, ListStep
  <1>8. CASE UNCHANGED cvVars
    <2>1. UNCHANGED <<sessionLog, messages, invocations, fetch, askedAt, held, pageFrom, answered>>
          /\ UNCHANGED <<delivered, selectedNow, liveFrom, live, selections>>
      BY <1>8 DEF cvVars, hqLists, queries
    <2>2. QueriesOk'
      BY <1>1, <2>1 DEF QueriesOk
    <2>3. LiveOk'
      BY <1>1, <2>1 DEF LiveOk
    <2> QED BY <2>1, <2>2, <2>3 DEF ConversationInv
  <1> QED BY <1>2, <1>3, <1>4, <1>5, <1>6, <1>7, <1>8 DEF CvNext

(* The conversation view, the inductive invariant: HQ's lists are of its   *)
(* log, what the tab fetched is of HQ's lists, and the processor has what  *)
(* it saw of the log, once and in its place, with what it still owes for a *)
(* message that streams in.                                                *)
THEOREM ConversationInvariant == CvSpec => []ConversationInv
  BY ConversationStart, ConversationStep, PTL DEF CvSpec

(* What it says of types is all that CvTypeOK says.                        *)
LEMMA ConversationTyped == ConversationInv => CvTypeOK
  <1> SUFFICES ASSUME ConversationInv PROVE CvTypeOK
    OBVIOUS
  <1>1. LogOk(sessionLog) /\ Len(sessionLog) \in Nat /\ QueriesOk /\ LiveOk
    BY LogOkLen DEF ConversationInv
  <1>2. \A i \in DOMAIN sessionLog :
          sessionLog[i].pos = i /\ sessionLog[i].ts \in 1 .. MaxTime /\ sessionLog[i].call \in Nat
    <2>1. sessionLog \in Seq(LogRecord)
      BY <1>1, LogOkLen
    <2>2. \A i \in 1 .. Len(sessionLog) : sessionLog[i] \in LogRecord /\ sessionLog[i].pos = i /\ sessionLog[i].call \in Nat
      BY <1>1, LogOkLen
    <2>3. \A rec \in LogRecord : rec.ts \in 1 .. MaxTime
      BY DEF LogRecord
    <2> QED BY <2>1, <2>2, <2>3
  <1>3. /\ \A m \in DOMAIN messages : messages[m].type \in {"msg-user", "msg-assistant"}
        /\ \A t \in DOMAIN invocations : invocations[t].type = "tool-invocation"
        /\ Len(messages) \in Nat /\ Len(invocations) \in Nat
    BY DEF ConversationInv, MessagesOk, InvocationsOk
  <1>4. live.entries \in Seq(Item) /\ live.stack \in Seq(Stamps) /\ live.starts \in SUBSET Stamps
        /\ live.streaming \in BOOLEAN /\ live.thinking \in BOOLEAN
    BY <1>1 DEF LiveOk, Processor
  <1>5. \A i \in DOMAIN live.entries :
          live.entries[i].kind \in ProcessedKinds /\ live.entries[i].status \in {"", "running", "completed"}
    <2>1. \A i \in DOMAIN live.entries : live.entries[i] \in Item
      BY <1>4
    <2>2. \A x \in Item : x.kind \in ProcessedKinds /\ x.status \in {"", "running", "completed"}
      BY DEF Item, ItemWith, Statuses
    <2> QED BY <2>1, <2>2
  <1>6. Len(sessionLog) <= MaxLogged
    BY <1>1 DEF LogOk
  <1>7. /\ delivered \in 0 .. Len(sessionLog) /\ fetch \in {"idle", "requested"} /\ selections \in 0 .. MaxSelections
        /\ selectedNow \in BOOLEAN /\ answered \in BOOLEAN
    BY <1>1 DEF QueriesOk, LiveOk
  <1>8. /\ held \in [Queries -> Nat] /\ held["events"] <= Len(sessionLog) /\ held["messages"] <= Len(messages)
        /\ held["tools"] <= Len(invocations)
    BY <1>1 DEF QueriesOk
  <1>9. \A q \in Queries : held[q] \in 0 .. Len(HqList(q))
    <2>1. held["events"] \in Nat /\ held["messages"] \in Nat /\ held["tools"] \in Nat
      BY <1>8 DEF Queries
    <2>2. HqList("events") = sessionLog /\ HqList("messages") = messages /\ HqList("tools") = invocations
      BY DEF HqList
    <2>3. /\ held["events"] \in 0 .. Len(sessionLog) /\ held["messages"] \in 0 .. Len(messages)
          /\ held["tools"] \in 0 .. Len(invocations)
      BY <1>1, <1>3, <1>8, <2>1
    <2> QED BY <2>2, <2>3, Zenon DEF Queries
  <1>10. {askedAt, pageFrom, liveFrom} \subseteq 0 .. Len(sessionLog)
    <2>1. held["events"] \in Nat
      BY <1>8 DEF Queries
    <2>2. askedAt \in 0 .. Len(sessionLog)
      BY <1>1 DEF QueriesOk
    <2>3. pageFrom \in 0 .. Len(sessionLog)
      BY <1>1, <2>1 DEF QueriesOk
    <2>4. liveFrom \in 0 .. Len(sessionLog)
      BY <1>1 DEF LiveOk
    <2> QED BY <2>2, <2>3, <2>4
  <1>11. {live.streaming, live.thinking} \subseteq BOOLEAN
    BY <1>4, Zenon
  <1>12. {answered, selectedNow} \subseteq BOOLEAN
    BY <1>7, Zenon
  <1> QED BY <1>2, <1>3, <1>4, <1>5, <1>6, <1>7, <1>9, <1>10, <1>11, <1>12, Zenon DEF CvTypeOK, Stamps

(* HQ's lists, what is fetched and shown of them and the processor have    *)
(* their types (CvTypeOK).                                                 *)
THEOREM ConversationTypesHold == CvSpec => []CvTypeOK
  BY ConversationTyped, ConversationInvariant, PTL

-----------------------------------------------------------------------------
(* What is shown.                                                          *)

(* Of a selected session the two lists have what they have seen.           *)
LEMMA SourcesAre ==
  ASSUME ConversationInv, selectedNow
  PROVE  /\ LogOk(sessionLog) /\ Len(sessionLog) \in Nat
         /\ pageFrom \in Nat /\ held["events"] \in Nat /\ pageFrom <= held["events"] /\ held["events"] <= Len(sessionLog)
         /\ messages \in Seq(Copy) /\ held["messages"] \in Nat /\ held["messages"] <= Len(messages)
         /\ invocations \in Seq(Copy) /\ held["tools"] \in Nat /\ held["tools"] <= Len(invocations)
         /\ liveFrom \in Nat /\ delivered \in Nat /\ delivered <= Len(sessionLog)
         /\ Saw(sessionLog, ProcessEventBatch(pageFrom, held["events"]), pageFrom, held["events"])
         /\ Saw(sessionLog, live, liveFrom, delivered)
  <1>1. LogOk(sessionLog) /\ Len(sessionLog) \in Nat /\ QueriesOk /\ LiveOk
    BY LogOkLen DEF ConversationInv
  <1>2. messages \in Seq(Copy) /\ invocations \in Seq(Copy)
    BY DEF ConversationInv, MessagesOk, InvocationsOk
  <1>3. held["events"] \in Nat /\ held["messages"] \in Nat /\ held["tools"] \in Nat
    BY <1>1 DEF QueriesOk, Queries
  <1>4. /\ pageFrom \in Nat /\ pageFrom <= held["events"] /\ held["events"] <= Len(sessionLog)
        /\ held["messages"] <= Len(messages) /\ held["tools"] <= Len(invocations)
    BY <1>1, <1>3 DEF QueriesOk
  <1>5. liveFrom \in Nat /\ delivered \in Nat /\ delivered <= Len(sessionLog)
    BY <1>1 DEF LiveOk
  <1>6. Saw(sessionLog, ProcessEventBatch(pageFrom, held["events"]), pageFrom, held["events"])
    BY <1>1, <1>3, <1>4, BatchSaw
  <1>7. Saw(sessionLog, live, liveFrom, delivered)
    BY <1>1 DEF LiveOk
  <1> QED BY <1>1, <1>2, <1>3, <1>4, <1>5, <1>6, <1>7

(* Entries that each stand for an event of their own, after lo up to hi.   *)
Stands(list, lo, hi) ==
  /\ list \in Seq(ViewEntry)
  /\ \A k \in 1 .. Len(list) :
       /\ list[k].kind \in ProcessedKinds
       /\ list[k].pos \in 1 .. Len(sessionLog) /\ lo < list[k].pos /\ list[k].pos <= hi
       /\ list[k].ts = sessionLog[list[k].pos].ts
       /\ sessionLog[list[k].pos].type \in TypesOf(list[k].kind)
  /\ \A j, k \in 1 .. Len(list) : list[j].pos = list[k].pos => j = k

(* What was seen does.                                                     *)
LEMMA SawStands ==
  ASSUME NEW s, NEW lo \in Nat, NEW hi \in Nat, hi <= Len(sessionLog), Len(sessionLog) \in Nat, Saw(sessionLog, s, lo, hi)
  PROVE  Stands(s.entries, lo, hi)
  <1> DEFINE list == s.entries
             n == Len(list)
  <1>1. list \in Seq(Item) /\ n \in Nat /\ EntriesOk(sessionLog, list, lo, hi)
    BY DEF Saw, Processor
  <1> HIDE DEF list
  <1>2. list \in Seq(ViewEntry)
    BY <1>1, ItemsShown
  <1>3. \A k \in 1 .. n : list[k].kind \in ProcessedKinds
    <2>1. \A k \in 1 .. n : list[k] \in Item
      BY <1>1
    <2>2. \A x \in Item : x.kind \in ProcessedKinds
      BY DEF Item, ItemWith
    <2> QED BY <2>1, <2>2
  <1>4. /\ \A k \in 1 .. n :
             /\ list[k].pos \in lo + 1 .. hi /\ list[k].ts = sessionLog[list[k].pos].ts
             /\ sessionLog[list[k].pos].type \in TypesOf(list[k].kind)
        /\ \A j, k \in 1 .. n : j < k => list[j].pos < list[k].pos
    BY <1>1 DEF EntriesOk
  <1>5. \A p \in lo + 1 .. hi : p \in 1 .. Len(sessionLog) /\ lo < p /\ p <= hi /\ p \in Nat
    OBVIOUS
  <1> HIDE DEF n
  <1>6. ASSUME NEW j \in 1 .. n, NEW k \in 1 .. n, list[j].pos = list[k].pos PROVE j = k
    <2>1. list[j].pos \in Nat /\ list[k].pos \in Nat
      BY <1>4, <1>5
    <2>2. ~ (j < k) /\ ~ (k < j)
      BY <1>4, <1>6, <2>1
    <2> QED BY <1>1, <2>2
  <1>7. Stands(list, lo, hi)
    BY <1>2, <1>3, <1>4, <1>5, <1>6 DEF Stands, n
  <1> QED BY <1>7 DEF list

(* Both lists, and what they show of an event.                             *)
LEMMA ListsAre ==
  ASSUME ConversationInv, selectedNow
  PROVE  /\ Stands(HistoricalEntries, pageFrom, held["events"]) /\ Stands(live.entries, liveFrom, delivered)
         /\ \A i \in 1 .. Len(sessionLog) :
              /\ InHistory(i) => ShownAt(sessionLog, HistoricalEntries, pageFrom, i)
              /\ liveFrom < i /\ i <= delivered => ShownAt(sessionLog, live.entries, liveFrom, i)
  <1> DEFINE batch == ProcessEventBatch(pageFrom, held["events"])
  <1>1. /\ LogOk(sessionLog) /\ Len(sessionLog) \in Nat
        /\ pageFrom \in Nat /\ held["events"] \in Nat /\ held["events"] <= Len(sessionLog)
        /\ liveFrom \in Nat /\ delivered \in Nat /\ delivered <= Len(sessionLog)
        /\ Saw(sessionLog, batch, pageFrom, held["events"]) /\ Saw(sessionLog, live, liveFrom, delivered)
    BY SourcesAre
  <1>2. HistoricalEntries = batch.entries
    BY DEF HistoricalEntries
  <1> HIDE DEF batch
  <1>3. Stands(batch.entries, pageFrom, held["events"]) /\ Stands(live.entries, liveFrom, delivered)
    BY <1>1, SawStands
  <1>4. ASSUME NEW i \in 1 .. Len(sessionLog), InHistory(i) PROVE ShownAt(sessionLog, batch.entries, pageFrom, i)
    <2>1. i \in pageFrom + 1 .. held["events"]
      BY <1>1, <1>4 DEF InHistory
    <2> QED BY <1>1, <2>1 DEF Saw, EventsShown
  <1>5. ASSUME NEW i \in 1 .. Len(sessionLog), liveFrom < i, i <= delivered
        PROVE  ShownAt(sessionLog, live.entries, liveFrom, i)
    <2>1. i \in liveFrom + 1 .. delivered
      BY <1>1, <1>5
    <2> QED BY <1>1, <2>1 DEF Saw, EventsShown
  <1> QED BY <1>2, <1>3, <1>4, <1>5

(* The only entry for an event, or none.                                   *)
LEMMA StandsSole ==
  ASSUME NEW list, NEW lo, NEW hi, Stands(list, lo, hi), NEW K, NEW i
  PROVE  /\ \A kind \in K : Holds(list, kind, i) => Sole(list, K, i)
         /\ ~ (lo < i /\ i <= hi) => NoneOf(list, K, i)
         /\ K \cap ProcessedKinds = {} => NoneOf(list, K, i)
  <1>1. \A k \in 1 .. Len(list) : list[k].kind \in ProcessedKinds /\ lo < list[k].pos /\ list[k].pos <= hi
    BY DEF Stands
  <1>2. \A j, k \in 1 .. Len(list) : list[j].pos = list[k].pos => j = k
    BY DEF Stands
  <1>3. ASSUME NEW kind \in K, Holds(list, kind, i) PROVE Sole(list, K, i)
    BY <1>2, <1>3 DEF Holds, Sole, EntryOf
  <1>4. ~ (lo < i /\ i <= hi) => NoneOf(list, K, i)
    BY <1>1 DEF NoneOf, EntryOf
  <1>5. K \cap ProcessedKinds = {} => NoneOf(list, K, i)
    BY <1>1 DEF NoneOf, EntryOf
  <1> QED BY <1>3, <1>4, <1>5

(* HQ's copies: of a prompt, of an assistant message, of an invocation.    *)
LEMMA CopiesAre ==
  ASSUME ConversationInv, selectedNow
  PROVE  /\ \A m \in 1 .. held["messages"] :
              /\ m \in 1 .. Len(messages) /\ m \in DOMAIN messages
              /\ \/ messages[m].type = "msg-user" /\ messages[m].pos = m
                 \/ /\ messages[m].type = "msg-assistant"
                    /\ messages[m].pos \in 1 .. Len(sessionLog) /\ At(sessionLog, messages[m].pos, "assistant.message")
                    /\ messages[m].ts = sessionLog[messages[m].pos].ts
         /\ \A m, k \in 1 .. held["messages"] :
              messages[m].type = messages[k].type /\ messages[m].pos = messages[k].pos => m = k
         /\ \A m \in 1 .. held["tools"] :
              /\ invocations[m].type = "tool-invocation"
              /\ invocations[m].pos \in 1 .. Len(sessionLog) /\ At(sessionLog, invocations[m].pos, "copilot:tool-invocation")
              /\ invocations[m].ts = sessionLog[invocations[m].pos].ts
         /\ \A m, k \in 1 .. held["tools"] : invocations[m].pos = invocations[k].pos => m = k
  <1>1. /\ messages \in Seq(Copy) /\ held["messages"] \in Nat /\ held["messages"] <= Len(messages)
        /\ invocations \in Seq(Copy) /\ held["tools"] \in Nat /\ held["tools"] <= Len(invocations)
    BY SourcesAre
  <1>2. \A m \in 1 .. held["messages"] : m \in 1 .. Len(messages) /\ m \in DOMAIN messages
    BY <1>1
  <1>3. \A m \in 1 .. held["tools"] : m \in 1 .. Len(invocations)
    BY <1>1
  <1>4. MessagesOk(sessionLog, messages) /\ InvocationsOk(sessionLog, invocations)
    BY DEF ConversationInv
  <1>5. /\ \A m \in 1 .. Len(messages) : messages[m].type \in {"msg-user", "msg-assistant"}
        /\ \A m \in 1 .. Len(messages) : messages[m].type = "msg-user" => messages[m].pos = m
        /\ \A m \in 1 .. Len(messages) : messages[m].type = "msg-assistant" =>
             /\ messages[m].pos \in 1 .. Len(sessionLog) /\ At(sessionLog, messages[m].pos, "assistant.message")
             /\ messages[m].ts = sessionLog[messages[m].pos].ts
        /\ \A m, k \in 1 .. Len(messages) :
             messages[m].type = "msg-assistant" /\ messages[k].type = "msg-assistant" /\ messages[m].pos = messages[k].pos
               => m = k
    BY <1>4 DEF MessagesOk, CopiesOk
  <1>6. /\ \A m \in 1 .. Len(invocations) : invocations[m].type = "tool-invocation"
        /\ \A m \in 1 .. Len(invocations) : invocations[m].type = "tool-invocation" =>
             /\ invocations[m].pos \in 1 .. Len(sessionLog)
             /\ At(sessionLog, invocations[m].pos, "copilot:tool-invocation")
             /\ invocations[m].ts = sessionLog[invocations[m].pos].ts
        /\ \A m, k \in 1 .. Len(invocations) :
             invocations[m].type = "tool-invocation" /\ invocations[k].type = "tool-invocation"
               /\ invocations[m].pos = invocations[k].pos => m = k
    BY <1>4 DEF InvocationsOk, CopiesOk
  <1>7. \A m, k \in 1 .. held["messages"] :
          messages[m].type = messages[k].type /\ messages[m].pos = messages[k].pos => m = k
    BY <1>2, <1>5
  <1> QED BY <1>2, <1>3, <1>5, <1>6, <1>7

(* The fetched entries: of history, else copies it does not cover.         *)
LEMMA FetchedAre ==
  ASSUME ConversationInv, selectedNow
  PROVE  LET h == HistoricalEntries
             r1 == RestEntries(messages, held["messages"], h)
             r2 == RestEntries(invocations, held["tools"], h)
         IN /\ FetchedEntries \in Seq(ViewEntry)
            /\ \A k \in 1 .. Len(FetchedEntries) :
                 \/ Contains(h, FetchedEntries[k])
                 \/ CopyOf(messages, held["messages"], h, FetchedEntries[k])
                 \/ CopyOf(invocations, held["tools"], h, FetchedEntries[k])
            /\ \A e : Contains(h, e) => Contains(FetchedEntries, e)
            /\ \A K, i :
                 /\ NoneOf(h, K, i) /\ NoneOf(r1, K, i) /\ NoneOf(r2, K, i) => NoneOf(FetchedEntries, K, i)
                 /\ Sole(h, K, i) /\ NoneOf(r1, K, i) /\ NoneOf(r2, K, i) => Sole(FetchedEntries, K, i)
                 /\ NoneOf(h, K, i) /\ Sole(r1, K, i) /\ NoneOf(r2, K, i) => Sole(FetchedEntries, K, i)
                 /\ NoneOf(h, K, i) /\ NoneOf(r1, K, i) /\ Sole(r2, K, i) => Sole(FetchedEntries, K, i)
  <1> DEFINE h == HistoricalEntries
             r1 == RestEntries(messages, held["messages"], h)
             r2 == RestEntries(invocations, held["tools"], h)
             f == (h \o r1) \o r2
  <1>1. FetchedEntries = f
    BY DEF FetchedEntries
  <1>2. h \in Seq(ViewEntry)
    BY ListsAre DEF Stands
  <1>3. /\ messages \in Seq(Copy) /\ held["messages"] \in Nat /\ held["messages"] <= Len(messages)
        /\ invocations \in Seq(Copy) /\ held["tools"] \in Nat /\ held["tools"] <= Len(invocations)
    BY SourcesAre
  <1>4. r1 \in Seq(ViewEntry) /\ \A k \in 1 .. Len(r1) : CopyOf(messages, held["messages"], h, r1[k])
    <2> HIDE DEF h
    <2> QED BY <1>3, RestIs
  <1>5. r2 \in Seq(ViewEntry) /\ \A k \in 1 .. Len(r2) : CopyOf(invocations, held["tools"], h, r2[k])
    <2> HIDE DEF h
    <2> QED BY <1>3, RestIs
  <1> HIDE DEF h, r1, r2
  <1>6. h \o r1 \in Seq(ViewEntry)
    BY <1>2, <1>4, ConcatAt
  <1>7. f \in Seq(ViewEntry)
    BY <1>5, <1>6, ConcatAt
  <1>8. \A e : Contains(f, e) <=> Contains(h, e) \/ Contains(r1, e) \/ Contains(r2, e)
    <2>1. \A e : Contains(h \o r1, e) <=> Contains(h, e) \/ Contains(r1, e)
      BY <1>2, <1>4, ConcatContains
    <2>2. \A e : Contains(f, e) <=> Contains(h \o r1, e) \/ Contains(r2, e)
      BY <1>5, <1>6, ConcatContains
    <2> QED BY <2>1, <2>2
  <1>9. \A K, i :
          /\ NoneOf(h, K, i) /\ NoneOf(r1, K, i) => NoneOf(h \o r1, K, i)
          /\ Sole(h, K, i) /\ NoneOf(r1, K, i) => Sole(h \o r1, K, i)
          /\ NoneOf(h, K, i) /\ Sole(r1, K, i) => Sole(h \o r1, K, i)
    BY <1>2, <1>4, NoneConcat, SoleConcat
  <1>10. \A K, i :
           /\ NoneOf(h \o r1, K, i) /\ NoneOf(r2, K, i) => NoneOf(f, K, i)
           /\ Sole(h \o r1, K, i) /\ NoneOf(r2, K, i) => Sole(f, K, i)
           /\ NoneOf(h \o r1, K, i) /\ Sole(r2, K, i) => Sole(f, K, i)
    BY <1>5, <1>6, NoneConcat, SoleConcat
  <1> HIDE DEF f
  <1>11. \A k \in 1 .. Len(f) :
           \/ Contains(h, f[k])
           \/ CopyOf(messages, held["messages"], h, f[k])
           \/ CopyOf(invocations, held["tools"], h, f[k])
    <2> SUFFICES ASSUME NEW k \in 1 .. Len(f)
                 PROVE  \/ Contains(h, f[k])
                        \/ CopyOf(messages, held["messages"], h, f[k])
                        \/ CopyOf(invocations, held["tools"], h, f[k])
      OBVIOUS
    <2>1. Contains(f, f[k])
      BY DEF Contains
    <2>2. CASE Contains(r1, f[k])
      <3>1. PICK j \in 1 .. Len(r1) : r1[j] = f[k]
        BY <2>2 DEF Contains
      <3> QED BY <1>4, <3>1
    <2>3. CASE Contains(r2, f[k])
      <3>1. PICK j \in 1 .. Len(r2) : r2[j] = f[k]
        BY <2>3 DEF Contains
      <3> QED BY <1>5, <3>1
    <2> QED BY <1>8, <2>1, <2>2, <2>3
  <1> QED BY <1>1, <1>7, <1>8, <1>9, <1>10, <1>11 DEF h, r1, r2

(* How often an entry shows, from where it is.                             *)
LEMMA ShownCount ==
  ASSUME ConversationInv, selectedNow, NEW K, NEW i, K \cap MessageKinds = {} \/ NoTask(sessionLog)
  PROVE  LET f == FetchedEntries
             l == live.entries
         IN /\ Sole(f, K, i) /\ (\A k \in 1 .. Len(l) : EntryOf(l[k], K, i) => \E j \in 1 .. Len(f) : Repeats(f[j], l[k]))
                 => TimesShown(ShownEntries, K, i) = 1
            /\ NoneOf(f, K, i) /\ Sole(l, K, i) /\ (\A k \in 1 .. Len(l) : EntryOf(l[k], K, i) => Novel(f, l, k))
                 => TimesShown(ShownEntries, K, i) = 1
            /\ NoneOf(f, K, i) /\ NoneOf(l, K, i) => TimesShown(ShownEntries, K, i) = 0
  <1> DEFINE f == FetchedEntries
             l == live.entries
  <1>1. f \in Seq(ViewEntry)
    BY FetchedAre
  <1>2. /\ l \in Seq(ViewEntry)
        /\ \A k \in 1 .. Len(l) :
             l[k].pos \in 1 .. Len(sessionLog) /\ sessionLog[l[k].pos].type \in TypesOf(l[k].kind)
    BY ListsAre DEF Stands
  <1>3. NoTask(sessionLog) => \A k \in 1 .. Len(l) : l[k].kind # "agent"
    BY <1>2 DEF NoTask, At, TypesOf
  <1>4. ShownEntries = WithoutHeld(f, l)
    BY DEF ShownEntries
  <1> HIDE DEF f, l
  <1>5. K \cap MessageKinds = {} \/ \A k \in 1 .. Len(l) : l[k].kind # "agent"
    BY <1>3
  <1>6. /\ WithoutHeld(f, l) \in Seq(ViewEntry)
        /\ Sole(Merged(f, l), K, i) => Sole(WithoutHeld(f, l), K, i)
        /\ NoneOf(Merged(f, l), K, i) => NoneOf(WithoutHeld(f, l), K, i)
    BY <1>1, <1>2, <1>5, HidesMessages
  <1>7. /\ Sole(WithoutHeld(f, l), K, i) => TimesShown(WithoutHeld(f, l), K, i) = 1
        /\ NoneOf(WithoutHeld(f, l), K, i) => TimesShown(WithoutHeld(f, l), K, i) = 0
    BY <1>6, SoleShows
  <1>8. /\ Sole(f, K, i) /\ (\A k \in 1 .. Len(l) : EntryOf(l[k], K, i) => \E j \in 1 .. Len(f) : Repeats(f[j], l[k])) =>
             Sole(Merged(f, l), K, i)
        /\ NoneOf(f, K, i) /\ Sole(l, K, i) /\ (\A k \in 1 .. Len(l) : EntryOf(l[k], K, i) => Novel(f, l, k)) =>
             Sole(Merged(f, l), K, i)
        /\ NoneOf(f, K, i) /\ NoneOf(l, K, i) => NoneOf(Merged(f, l), K, i)
    BY <1>1, <1>2, MergedHas
  <1> QED BY <1>4, <1>6, <1>7, <1>8 DEF f, l

(* Entries of one event alone in its millisecond, or of one call, are not  *)
(* repeated by others.                                                     *)
LEMMA OthersDiffer ==
  ASSUME ConversationInv, selectedNow, NEW list, NEW lo, NEW hi, Stands(list, lo, hi), NEW j \in 1 .. Len(list),
         NEW e, e.pos \in 1 .. Len(sessionLog), e.ts = sessionLog[e.pos].ts, Alone(e.pos) \/ e.kind = "tool",
         Repeats(list[j], e)
  PROVE  list[j].pos = e.pos
  <1>1. list[j].pos \in 1 .. Len(sessionLog) /\ list[j].ts = sessionLog[list[j].pos].ts
    BY DEF Stands
  <1>2. DOMAIN sessionLog = 1 .. Len(sessionLog)
    BY SourcesAre DEF LogOk
  <1>3. list[j].ts = e.ts /\ Alone(e.pos) => list[j].pos = e.pos
    BY <1>1, <1>2 DEF Alone
  <1>4. CASE Id(list[j]) = Id(e)
    <2>1. /\ list[j].kind = e.kind
          /\ IF e.kind \in {"user", "tool", "agent"} THEN list[j].pos = e.pos ELSE list[j].ts = e.ts
      BY <1>4 DEF Id
    <2> QED BY <1>3, <2>1
  <1>5. CASE e.kind \in {"user", "assistant"} /\ list[j].ts = e.ts
    BY <1>3, <1>5
  <1> QED BY <1>4, <1>5 DEF Repeats

(* A live entry is new when history does not have its event, and no copy   *)
(* of a message stands for it.                                             *)
LEMMA LiveIsNovel ==
  ASSUME ConversationInv, selectedNow, NEW k \in 1 .. Len(live.entries),
         ~InHistory(live.entries[k].pos), Alone(live.entries[k].pos) \/ live.entries[k].kind = "tool",
         live.entries[k].kind = "assistant" =>
           RestNone(messages, held["messages"], HistoricalEntries, {"msg-assistant"}, live.entries[k].pos)
  PROVE  Novel(FetchedEntries, live.entries, k)
  <1> DEFINE f == FetchedEntries
             l == live.entries
             h == HistoricalEntries
             e == l[k]
             i == e.pos
  <1>1. /\ Stands(h, pageFrom, held["events"]) /\ Stands(l, liveFrom, delivered)
        /\ i \in 1 .. Len(sessionLog) /\ e.ts = sessionLog[i].ts /\ e.kind \in ProcessedKinds
        /\ sessionLog[i].type \in TypesOf(e.kind)
    BY ListsAre DEF Stands
  <1>2. DOMAIN sessionLog = 1 .. Len(sessionLog)
    BY SourcesAre DEF LogOk
  <1>3. /\ ~InHistory(i) /\ (Alone(i) \/ e.kind = "tool")
        /\ e.kind = "assistant" => RestNone(messages, held["messages"], h, {"msg-assistant"}, i)
    OBVIOUS
  <1>4. \A j \in 1 .. Len(f) :
          Contains(h, f[j]) \/ CopyOf(messages, held["messages"], h, f[j]) \/ CopyOf(invocations, held["tools"], h, f[j])
    BY FetchedAre
  <1> HIDE DEF f, l, h, e, i
  <1>5. ASSUME NEW x, Contains(h, x), Repeats(x, e) PROVE FALSE
    <2>1. PICK j \in 1 .. Len(h) : h[j] = x
      BY <1>5 DEF Contains
    <2>2. h[j].pos = i
      BY <1>1, <1>3, <1>5, <2>1, OthersDiffer DEF i
    <2>3. pageFrom < h[j].pos /\ h[j].pos <= held["events"]
      BY <1>1 DEF Stands
    <2> QED BY <1>3, <2>2, <2>3 DEF InHistory
  <1>6. ASSUME NEW x, x.kind \in RestKinds, Repeats(x, e)
        PROVE  e.kind \in {"user", "assistant"} /\ x.ts = e.ts /\ Alone(i)
    <2>1. Id(x) # Id(e)
      <3>1. RestKinds \cap ProcessedKinds = {}
        BY DEF RestKinds, ProcessedKinds
      <3> QED BY <1>1, <1>6, <3>1, IdIs
    <2>2. e.kind \in {"user", "assistant"} /\ x.ts = e.ts
      BY <1>6, <2>1 DEF Repeats
    <2> QED BY <1>3, <2>2
  <1>7. ASSUME NEW x, CopyOf(messages, held["messages"], h, x), Repeats(x, e) PROVE FALSE
    <2>1. PICK m \in 1 .. held["messages"] :
            x.kind = messages[m].type /\ x.pos = messages[m].pos /\ x.ts = messages[m].ts /\ ~Covers(h, messages[m].ts)
      BY <1>7 DEF CopyOf
    <2>2. /\ m \in DOMAIN messages
          /\ \/ messages[m].type = "msg-user" /\ messages[m].pos = m
             \/ /\ messages[m].type = "msg-assistant"
                /\ messages[m].pos \in 1 .. Len(sessionLog) /\ At(sessionLog, messages[m].pos, "assistant.message")
                /\ messages[m].ts = sessionLog[messages[m].pos].ts
      BY CopiesAre
    <2>3. x.kind \in RestKinds
      BY <2>1, <2>2 DEF RestKinds
    <2>4. e.kind \in {"user", "assistant"} /\ messages[m].ts = e.ts /\ Alone(i)
      BY <1>6, <1>7, <2>1, <2>3
    <2>5. CASE messages[m].type = "msg-user"
      <3>1. m \in Prompts
        BY <2>2, <2>5 DEF Prompts
      <3> QED BY <1>1, <2>4, <3>1 DEF Alone
    <2>6. CASE messages[m].type = "msg-assistant"
      <3>1. messages[m].pos \in 1 .. Len(sessionLog) /\ At(sessionLog, messages[m].pos, "assistant.message")
            /\ messages[m].ts = sessionLog[messages[m].pos].ts
        BY <2>2, <2>6
      <3>2. messages[m].pos = i
        BY <1>1, <1>2, <2>4, <3>1 DEF Alone
      <3>3. e.kind = "assistant"
        BY <1>1, <2>4, <3>1, <3>2 DEF At, TypesOf
      <3>4. Covers(h, messages[m].ts)
        BY <1>3, <2>6, <3>2, <3>3 DEF RestNone
      <3> QED BY <2>1, <3>4
    <2> QED BY <2>2, <2>5, <2>6
  <1>8. ASSUME NEW x, CopyOf(invocations, held["tools"], h, x), Repeats(x, e) PROVE FALSE
    <2>1. PICK m \in 1 .. held["tools"] : x.kind = invocations[m].type /\ x.ts = invocations[m].ts
      BY <1>8 DEF CopyOf
    <2>2. /\ invocations[m].type = "tool-invocation"
          /\ invocations[m].pos \in 1 .. Len(sessionLog) /\ At(sessionLog, invocations[m].pos, "copilot:tool-invocation")
          /\ invocations[m].ts = sessionLog[invocations[m].pos].ts
      BY CopiesAre
    <2>3. x.kind \in RestKinds
      BY <2>1, <2>2 DEF RestKinds
    <2>4. e.kind \in {"user", "assistant"} /\ invocations[m].ts = e.ts /\ Alone(i)
      BY <1>6, <1>8, <2>1, <2>3
    <2>5. invocations[m].pos = i
      BY <1>1, <1>2, <2>2, <2>4 DEF Alone
    <2>6. sessionLog[i].type = "copilot:tool-invocation"
      BY <2>2, <2>5 DEF At
    <2> QED BY <1>1, <2>4, <2>6 DEF TypesOf
  <1>9. \A j \in 1 .. Len(f) : ~Repeats(f[j], e)
    BY <1>4, <1>5, <1>7, <1>8
  <1>10. ASSUME NEW j \in 1 .. Len(l), Id(l[j]) = Id(e) PROVE j = k
    <2>1. Repeats(l[j], e)
      BY <1>10 DEF Repeats
    <2>2. l[j].pos = i
      BY <1>1, <1>3, <2>1, OthersDiffer DEF i
    <2>3. \A p, q \in 1 .. Len(l) : l[p].pos = l[q].pos => p = q
      BY <1>1 DEF Stands
    <2>4. k \in 1 .. Len(l) /\ l[k].pos = i
      BY DEF l, i, e
    <2> QED BY <2>2, <2>3, <2>4
  <1>11. Novel(f, l, k)
    BY <1>9, <1>10 DEF Novel, e
  <1> QED BY <1>11 DEF f, l

(* HQ's copies are of no kind the processor makes.                         *)
LEMMA CopiesNone ==
  ASSUME ConversationInv, selectedNow, NEW K, NEW i
  PROVE  LET h == HistoricalEntries
             r1 == RestEntries(messages, held["messages"], h)
             r2 == RestEntries(invocations, held["tools"], h)
         IN /\ RestNone(messages, held["messages"], h, K, i) => NoneOf(r1, K, i)
            /\ RestSole(messages, held["messages"], h, K, i) => Sole(r1, K, i)
            /\ RestNone(invocations, held["tools"], h, K, i) => NoneOf(r2, K, i)
            /\ RestSole(invocations, held["tools"], h, K, i) => Sole(r2, K, i)
            /\ K \cap {"msg-user", "msg-assistant"} = {} => NoneOf(r1, K, i)
            /\ "tool-invocation" \notin K => NoneOf(r2, K, i)
  <1> DEFINE h == HistoricalEntries
             r1 == RestEntries(messages, held["messages"], h)
             r2 == RestEntries(invocations, held["tools"], h)
  <1> HIDE DEF h
  <1>1. /\ messages \in Seq(Copy) /\ held["messages"] \in Nat /\ held["messages"] <= Len(messages)
        /\ invocations \in Seq(Copy) /\ held["tools"] \in Nat /\ held["tools"] <= Len(invocations)
    BY SourcesAre
  <1>2. /\ RestNone(messages, held["messages"], h, K, i) => NoneOf(r1, K, i)
        /\ RestSole(messages, held["messages"], h, K, i) => Sole(r1, K, i)
    BY <1>1, RestIs
  <1>3. /\ RestNone(invocations, held["tools"], h, K, i) => NoneOf(r2, K, i)
        /\ RestSole(invocations, held["tools"], h, K, i) => Sole(r2, K, i)
    BY <1>1, RestIs
  <1>4. K \cap {"msg-user", "msg-assistant"} = {} => RestNone(messages, held["messages"], h, K, i)
    <2>1. \A m \in 1 .. held["messages"] : messages[m].type \in {"msg-user", "msg-assistant"}
      BY CopiesAre
    <2> QED BY <2>1 DEF RestNone
  <1>5. "tool-invocation" \notin K => RestNone(invocations, held["tools"], h, K, i)
    <2>1. \A m \in 1 .. held["tools"] : invocations[m].type = "tool-invocation"
      BY CopiesAre
    <2> QED BY <2>1 DEF RestNone
  <1> HIDE DEF r1, r2
  <1> QED BY <1>2, <1>3, <1>4, <1>5 DEF h, r1, r2

(* Every event the tab has, alone in its millisecond, is shown once.       *)
LEMMA EventIsShown ==
  ASSUME ConversationInv, selectedNow, NEW kind \in {"user", "error", "reasoning", "hqtool"},
         NEW i \in 1 .. Len(sessionLog), Has(i), Alone(i),
         \A list, lo : ShownAt(sessionLog, list, lo, i) => Holds(list, kind, i)
  PROVE  TimesShown(ShownEntries, {kind}, i) = 1
  <1> DEFINE f == FetchedEntries
             l == live.entries
             h == HistoricalEntries
             K == {kind}
             r1 == RestEntries(messages, held["messages"], h)
             r2 == RestEntries(invocations, held["tools"], h)
  <1>1. /\ Stands(h, pageFrom, held["events"]) /\ Stands(l, liveFrom, delivered)
        /\ InHistory(i) => ShownAt(sessionLog, h, pageFrom, i)
        /\ liveFrom < i /\ i <= delivered => ShownAt(sessionLog, l, liveFrom, i)
    BY ListsAre
  <1>2. NoneOf(r1, K, i) /\ NoneOf(r2, K, i)
    BY CopiesNone
  <1>3. /\ \A e : Contains(h, e) => Contains(f, e)
        /\ NoneOf(h, K, i) /\ NoneOf(r1, K, i) /\ NoneOf(r2, K, i) => NoneOf(f, K, i)
        /\ Sole(h, K, i) /\ NoneOf(r1, K, i) /\ NoneOf(r2, K, i) => Sole(f, K, i)
    BY FetchedAre
  <1>4. K \cap MessageKinds = {}
    BY DEF MessageKinds
  <1>5. /\ Sole(f, K, i) /\ (\A k \in 1 .. Len(l) : EntryOf(l[k], K, i) => \E j \in 1 .. Len(f) : Repeats(f[j], l[k]))
             => TimesShown(ShownEntries, K, i) = 1
        /\ NoneOf(f, K, i) /\ Sole(l, K, i) /\ (\A k \in 1 .. Len(l) : EntryOf(l[k], K, i) => Novel(f, l, k))
             => TimesShown(ShownEntries, K, i) = 1
    BY <1>4, ShownCount
  <1>6. \A k \in 1 .. Len(l) : EntryOf(l[k], K, i) /\ ~InHistory(i) => Novel(f, l, k)
    <2> SUFFICES ASSUME NEW k \in 1 .. Len(l), EntryOf(l[k], K, i), ~InHistory(i) PROVE Novel(f, l, k)
      OBVIOUS
    <2>1. l[k].pos = i /\ l[k].kind # "assistant"
      BY DEF EntryOf
    <2> QED BY <2>1, LiveIsNovel
  <1> HIDE DEF f, l, h, r1, r2
  <1>7. CASE InHistory(i)
    <2>1. Holds(h, kind, i)
      BY <1>1, <1>7
    <2>2. Sole(h, K, i)
      BY <1>1, <2>1, StandsSole
    <2>3. Sole(f, K, i)
      BY <1>2, <1>3, <2>2
    <2>4. PICK p \in 1 .. Len(h) : h[p].kind = kind /\ h[p].pos = i
      BY <2>1 DEF Holds
    <2>5. PICK q \in 1 .. Len(f) : f[q] = h[p]
      BY <1>3 DEF Contains
    <2>6. ASSUME NEW k \in 1 .. Len(l), EntryOf(l[k], K, i) PROVE Repeats(f[q], l[k])
      <3>1. l[k].kind = kind /\ l[k].pos = i
        BY <2>6 DEF EntryOf
      <3>2. l[k].ts = sessionLog[i].ts /\ h[p].ts = sessionLog[i].ts
        BY <1>1, <2>4, <3>1 DEF Stands
      <3>3. Id(h[p]) = Id(l[k])
        BY <2>4, <3>1, <3>2, IdIs
      <3> QED BY <2>5, <3>3 DEF Repeats
    <2> QED BY <1>5, <2>3, <2>6
  <1>8. CASE ~InHistory(i)
    <2>1. liveFrom < i /\ i <= delivered
      BY <1>8 DEF Has
    <2>2. Holds(l, kind, i)
      BY <1>1, <2>1
    <2>3. Sole(l, K, i)
      BY <1>1, <2>2, StandsSole
    <2>4. NoneOf(h, K, i)
      BY <1>1, <1>8, StandsSole DEF InHistory
    <2> QED BY <1>2, <1>3, <1>5, <1>6, <1>8, <2>3, <2>4
  <1> QED BY <1>7, <1>8

(* An assistant message shows once, whichever way it came.                 *)
LEMMA MessageIsShown ==
  ASSUME ConversationInv, selectedNow, NoTask(sessionLog), NEW i \in 1 .. Len(sessionLog),
         At(sessionLog, i, "assistant.message"), Alone(i),
         Has(i) \/ (HasCopy(messages, "messages", i) /\ ~Covered(sessionLog[i].ts))
  PROVE  TimesShown(ShownEntries, MessageKinds, i) = 1
  <1> DEFINE f == FetchedEntries
             l == live.entries
             h == HistoricalEntries
             r1 == RestEntries(messages, held["messages"], h)
             r2 == RestEntries(invocations, held["tools"], h)
             n == held["messages"]
             t == sessionLog[i].ts
  <1>1. /\ Stands(h, pageFrom, held["events"]) /\ Stands(l, liveFrom, delivered)
        /\ InHistory(i) => ShownAt(sessionLog, h, pageFrom, i)
        /\ liveFrom < i /\ i <= delivered => ShownAt(sessionLog, l, liveFrom, i)
    BY ListsAre
  <1>2. NoneOf(r2, MessageKinds, i)
    BY CopiesNone DEF MessageKinds
  <1>3. /\ RestNone(messages, n, h, MessageKinds, i) => NoneOf(r1, MessageKinds, i)
        /\ RestSole(messages, n, h, MessageKinds, i) => Sole(r1, MessageKinds, i)
    BY CopiesNone
  <1>4. /\ NoneOf(h, MessageKinds, i) /\ NoneOf(r1, MessageKinds, i) /\ NoneOf(r2, MessageKinds, i) => NoneOf(f, MessageKinds, i)
        /\ Sole(h, MessageKinds, i) /\ NoneOf(r1, MessageKinds, i) /\ NoneOf(r2, MessageKinds, i) => Sole(f, MessageKinds, i)
        /\ NoneOf(h, MessageKinds, i) /\ Sole(r1, MessageKinds, i) /\ NoneOf(r2, MessageKinds, i) => Sole(f, MessageKinds, i)
    BY FetchedAre
  <1>5. /\ Sole(f, MessageKinds, i)
             /\ (\A k \in 1 .. Len(l) : EntryOf(l[k], MessageKinds, i) => \E j \in 1 .. Len(f) : Repeats(f[j], l[k]))
             => TimesShown(ShownEntries, MessageKinds, i) = 1
        /\ NoneOf(f, MessageKinds, i) /\ Sole(l, MessageKinds, i)
             /\ (\A k \in 1 .. Len(l) : EntryOf(l[k], MessageKinds, i) => Novel(f, l, k))
             => TimesShown(ShownEntries, MessageKinds, i) = 1
    BY ShownCount
  <1>6. \A k \in 1 .. Len(l) : EntryOf(l[k], MessageKinds, i) =>
          l[k].kind = "assistant" /\ l[k].pos = i /\ l[k].ts = t
    <2>1. "msg-assistant" \notin ProcessedKinds
      BY DEF ProcessedKinds
    <2> HIDE DEF l
    <2> QED BY <1>1, <2>1 DEF Stands, EntryOf, MessageKinds
  <1>7. \A m \in 1 .. n :
          /\ \/ messages[m].type = "msg-user"
             \/ messages[m].type = "msg-assistant" /\ messages[m].ts = sessionLog[messages[m].pos].ts
    BY CopiesAre
  <1>8. \A m, k \in 1 .. n : messages[m].type = messages[k].type /\ messages[m].pos = messages[k].pos => m = k
    BY CopiesAre
  <1>9. \A k \in 1 .. Len(f) : Contains(h, f[k]) \/ CopyOf(messages, n, h, f[k]) \/ CopyOf(invocations, held["tools"], h, f[k])
    BY FetchedAre
  <1>10. ASSUME RestNone(messages, n, h, MessageKinds, i), ~InHistory(i), NEW k \in 1 .. Len(l), EntryOf(l[k], MessageKinds, i)
         PROVE  Novel(f, l, k)
    <2>1. l[k].pos = i
      BY <1>6, <1>10
    <2>2. RestNone(messages, n, h, {"msg-assistant"}, i)
      BY <1>10 DEF RestNone, MessageKinds
    <2> QED BY <1>10, <2>1, <2>2, LiveIsNovel
  <1>11. /\ \A m \in 1 .. held["tools"] : invocations[m].type = "tool-invocation"
    BY CopiesAre
  <1>12. Covered(t) <=> Covers(h, t)
    BY DEF Covered
  <1>13. \A m \in 1 .. n : messages[m].type \in MessageKinds => messages[m].type = "msg-assistant"
    BY <1>7 DEF MessageKinds
  <1> HIDE DEF f, l, h, r1, r2, n, t
  <1>14. ASSUME Sole(f, MessageKinds, i) PROVE TimesShown(ShownEntries, MessageKinds, i) = 1
    <2>1. PICK q \in 1 .. Len(f) : EntryOf(f[q], MessageKinds, i)
      BY <1>14 DEF Sole
    <2>2. f[q].kind \in MessageKinds /\ f[q].pos = i
      BY <2>1 DEF EntryOf
    <2>3. f[q].ts = t
      <3>1. CASE Contains(h, f[q])
        <4>1. PICK p \in 1 .. Len(h) : h[p] = f[q]
          BY <3>1 DEF Contains
        <4>2. h[p].ts = sessionLog[h[p].pos].ts
          BY <1>1 DEF Stands
        <4> QED BY <2>2, <4>1, <4>2 DEF t
      <3>2. CASE CopyOf(messages, n, h, f[q])
        <4>1. PICK m \in 1 .. n : f[q].kind = messages[m].type /\ f[q].pos = messages[m].pos /\ f[q].ts = messages[m].ts
          BY <3>2 DEF CopyOf
        <4>2. messages[m].ts = sessionLog[messages[m].pos].ts
          BY <1>7, <1>13, <2>2, <4>1
        <4> QED BY <2>2, <4>1, <4>2 DEF t
      <3>3. CASE CopyOf(invocations, held["tools"], h, f[q])
        <4>1. PICK m \in 1 .. held["tools"] : f[q].kind = invocations[m].type
          BY <3>3 DEF CopyOf
        <4>2. f[q].kind = "tool-invocation"
          BY <1>11, <4>1
        <4> QED BY <2>2, <4>2 DEF MessageKinds
      <3> QED BY <1>9, <3>1, <3>2, <3>3
    <2>4. ASSUME NEW k \in 1 .. Len(l), EntryOf(l[k], MessageKinds, i) PROVE Repeats(f[q], l[k])
      BY <1>6, <2>3, <2>4 DEF Repeats
    <2> QED BY <1>5, <1>14, <2>4
  <1>15. CASE InHistory(i)
    <2>1. Holds(h, "assistant", i)
      BY <1>1, <1>15 DEF ShownAt
    <2>2. Sole(h, MessageKinds, i)
      BY <1>1, <2>1, StandsSole DEF MessageKinds
    <2>3. PICK p \in 1 .. Len(h) : h[p].pos = i /\ h[p].ts = t
      <3>1. PICK p \in 1 .. Len(h) : h[p].pos = i
        BY <2>1 DEF Holds
      <3>2. h[p].ts = sessionLog[h[p].pos].ts
        BY <1>1 DEF Stands
      <3> QED BY <3>1, <3>2 DEF t
    <2>4. Covers(h, t)
      <3>1. DOMAIN h = 1 .. Len(h)
        BY <1>1 DEF Stands
      <3>2. t \in Nat
        BY SourcesAre, LogOkLen DEF t
      <3>3. h[p].ts <= t
        BY <2>3, <3>2
      <3> QED BY <3>1, <3>3 DEF Covers
    <2>5. RestNone(messages, n, h, MessageKinds, i)
      <3> SUFFICES ASSUME NEW m \in 1 .. n, messages[m].type \in MessageKinds, messages[m].pos = i
                   PROVE  Covers(h, messages[m].ts)
        BY DEF RestNone
      <3>1. messages[m].ts = sessionLog[messages[m].pos].ts
        BY <1>7, <1>13
      <3>2. messages[m].ts = t
        BY <3>1 DEF t
      <3> QED BY <2>4, <3>2
    <2> QED BY <1>2, <1>3, <1>4, <1>14, <2>2, <2>5
  <1>16. CASE ~InHistory(i)
    <2>1. NoneOf(h, MessageKinds, i)
      BY <1>1, <1>16, StandsSole DEF InHistory
    <2>2. CASE HasCopy(messages, "messages", i) /\ ~Covered(t)
      <3>1. PICK m \in 1 .. n : messages[m].pos = i /\ messages[m].type # "msg-user"
        BY <2>2 DEF HasCopy, n
      <3>2. messages[m].type = "msg-assistant" /\ messages[m].ts = sessionLog[messages[m].pos].ts
        BY <1>7, <3>1
      <3>3. messages[m].ts = t
        BY <3>1, <3>2 DEF t
      <3>4. RestSole(messages, n, h, MessageKinds, i)
        <4>1. \A j \in 1 .. n : messages[j].type \in MessageKinds /\ messages[j].pos = i => j = m
          BY <1>8, <1>13, <3>1, <3>2
        <4>2. messages[m].type \in MessageKinds
          BY <3>2 DEF MessageKinds
        <4>3. ~Covers(h, messages[m].ts)
          BY <1>12, <2>2, <3>3
        <4> QED BY <3>1, <4>1, <4>2, <4>3 DEF RestSole
      <3> QED BY <1>2, <1>3, <1>4, <1>14, <2>1, <3>4
    <2>3. CASE Has(i) /\ ~ (HasCopy(messages, "messages", i) /\ ~Covered(t))
      <3>1. liveFrom < i /\ i <= delivered
        BY <1>16, <2>3 DEF Has
      <3>2. Holds(l, "assistant", i)
        BY <1>1, <3>1 DEF ShownAt
      <3>3. Sole(l, MessageKinds, i)
        BY <1>1, <3>2, StandsSole DEF MessageKinds
      <3>4. RestNone(messages, n, h, MessageKinds, i)
        <4> SUFFICES ASSUME NEW m \in 1 .. n, messages[m].type \in MessageKinds, messages[m].pos = i
                     PROVE  Covers(h, messages[m].ts)
          BY DEF RestNone
        <4>1. messages[m].type = "msg-assistant" /\ messages[m].ts = sessionLog[messages[m].pos].ts
          BY <1>7, <1>13
        <4>2. messages[m].ts = t
          BY <4>1 DEF t
        <4>3. HasCopy(messages, "messages", i)
          BY <4>1 DEF HasCopy, n
        <4> QED BY <1>12, <2>3, <4>2, <4>3
      <3>5. NoneOf(f, MessageKinds, i)
        BY <1>2, <1>3, <1>4, <2>1, <3>4
      <3> QED BY <1>5, <1>10, <1>16, <3>3, <3>4, <3>5
    <2> QED BY <2>2, <2>3 DEF t
  <1> QED BY <1>15, <1>16

(* A copy of a kind of its own shows once when history does not cover it,  *)
(* else never.                                                             *)
LEMMA CopyIsShown ==
  ASSUME ConversationInv, selectedNow, NEW K, NEW i, NEW c, K \cap ProcessedKinds = {}, K \cap MessageKinds = {},
         LET h == HistoricalEntries
             r1 == RestEntries(messages, held["messages"], h)
             r2 == RestEntries(invocations, held["tools"], h)
         IN IF c THEN NoneOf(r1, K, i) /\ NoneOf(r2, K, i)
            ELSE (Sole(r1, K, i) /\ NoneOf(r2, K, i)) \/ (NoneOf(r1, K, i) /\ Sole(r2, K, i))
  PROVE  TimesShown(ShownEntries, K, i) = IF c THEN 0 ELSE 1
  <1> DEFINE f == FetchedEntries
             l == live.entries
             h == HistoricalEntries
             r1 == RestEntries(messages, held["messages"], h)
             r2 == RestEntries(invocations, held["tools"], h)
  <1>1. Stands(h, pageFrom, held["events"]) /\ Stands(l, liveFrom, delivered)
    BY ListsAre
  <1>2. NoneOf(h, K, i) /\ NoneOf(l, K, i)
    <2> HIDE DEF h, l
    <2> QED BY <1>1, StandsSole
  <1>3. /\ NoneOf(h, K, i) /\ NoneOf(r1, K, i) /\ NoneOf(r2, K, i) => NoneOf(f, K, i)
        /\ NoneOf(h, K, i) /\ Sole(r1, K, i) /\ NoneOf(r2, K, i) => Sole(f, K, i)
        /\ NoneOf(h, K, i) /\ NoneOf(r1, K, i) /\ Sole(r2, K, i) => Sole(f, K, i)
    BY FetchedAre
  <1>4. /\ Sole(f, K, i) /\ (\A k \in 1 .. Len(l) : EntryOf(l[k], K, i) => \E j \in 1 .. Len(f) : Repeats(f[j], l[k]))
             => TimesShown(ShownEntries, K, i) = 1
        /\ NoneOf(f, K, i) /\ NoneOf(l, K, i) => TimesShown(ShownEntries, K, i) = 0
    BY ShownCount
  <1>5. IF c THEN NoneOf(r1, K, i) /\ NoneOf(r2, K, i)
        ELSE (Sole(r1, K, i) /\ NoneOf(r2, K, i)) \/ (NoneOf(r1, K, i) /\ Sole(r2, K, i))
    OBVIOUS
  <1> HIDE DEF f, l, h, r1, r2
  <1>6. \A k \in 1 .. Len(l) : ~EntryOf(l[k], K, i)
    BY <1>2 DEF NoneOf
  <1> QED BY <1>2, <1>3, <1>4, <1>5, <1>6

(* A piece owed by the processor is in the log, without its whole.         *)
LEMMA OwedIs ==
  ASSUME ConversationInv, selectedNow, NEW pieces, NEW whole, Owed(sessionLog, pieces, whole, liveFrom, delivered)
  PROVE  PiecesOf(pieces, whole)
  <1>1. /\ LogOk(sessionLog) /\ Len(sessionLog) \in Nat /\ liveFrom \in Nat /\ delivered \in Nat
        /\ delivered <= Len(sessionLog)
    BY SourcesAre
  <1>2. PICK i \in liveFrom + 1 .. delivered :
          At(sessionLog, i, pieces) /\ \A k \in i + 1 .. delivered : ~At(sessionLog, k, whole)
    BY DEF Owed
  <1>3. i \in Logged(pieces)
    <2>1. i \in 1 .. Len(sessionLog)
      BY <1>1
    <2> QED BY <1>1, <1>2, <2>1, LoggedIs
  <1>4. ASSUME NEW k \in Logged(whole), i < k PROVE delivered < k
    <2>1. k \in 1 .. Len(sessionLog) /\ At(sessionLog, k, whole)
      BY <1>1, LoggedIs
    <2>2. k \notin i + 1 .. delivered
      BY <1>2, <2>1
    <2> QED BY <1>1, <1>4, <2>1, <2>2
  <1>5. liveFrom < i /\ i <= delivered
    BY <1>1
  <1> QED BY <1>3, <1>4, <1>5 DEF PiecesOf

(* A call that started and ended on one side shows its end.                *)
LEMMA CallSettles ==
  ASSUME ConversationInv, selectedNow, NoTask(sessionLog), NEW j \in 1 .. Len(sessionLog),
         At(sessionLog, j, "tool.execution_complete"), SameSide(sessionLog[j].call, j)
  PROVE  \E k \in DOMAIN ShownEntries :
           /\ ShownEntries[k].kind = "tool" /\ ShownEntries[k].pos = sessionLog[j].call
           /\ ShownEntries[k].status = "completed"
  <1> DEFINE f == FetchedEntries
             l == live.entries
             h == HistoricalEntries
             c == sessionLog[j].call
  <1>1. /\ LogOk(sessionLog) /\ pageFrom \in Nat /\ held["events"] \in Nat /\ liveFrom \in Nat /\ delivered \in Nat
    BY SourcesAre
  <1>2. c \in 1 .. j - 1
    BY <1>1 DEF LogOk
  <1>3. j \in Nat /\ c \in Nat /\ c < j
    <2>1. j \in Nat
      OBVIOUS
    <2> HIDE DEF c
    <2> QED BY <1>2, <2>1
  <1>4. /\ InHistory(j) => ShownAt(sessionLog, h, pageFrom, j)
        /\ liveFrom < j /\ j <= delivered => ShownAt(sessionLog, l, liveFrom, j)
    BY ListsAre
  <1>5. f \in Seq(ViewEntry) /\ l \in Seq(ViewEntry) /\ \A e : Contains(h, e) => Contains(f, e)
    <2>1. l \in Seq(ViewEntry)
      BY ListsAre DEF Stands
    <2> QED BY <2>1, FetchedAre
  <1>6. \A list, lo : ShownAt(sessionLog, list, lo, j) /\ c > lo => HoldsDone(list, "tool", c)
    BY DEF ShownAt
  <1>7. SameSide(c, j)
    OBVIOUS
  <1>8. \A k \in 1 .. Len(l) : l[k].kind = "tool" /\ l[k].pos = c /\ ~InHistory(c) => Novel(f, l, k)
    BY LiveIsNovel
  <1>9. ShownEntries = WithoutHeld(f, l)
    BY DEF ShownEntries
  <1> HIDE DEF f, l, h, c
  <1>10. PICK e : e.kind = "tool" /\ e.pos = c /\ e.status = "completed" /\ Contains(Merged(f, l), e)
    <2>1. CASE InHistory(c) /\ InHistory(j)
      <3>1. c > pageFrom
        BY <1>1, <1>3, <2>1 DEF InHistory
      <3>2. HoldsDone(h, "tool", c)
        BY <1>4, <1>6, <2>1, <3>1
      <3>3. PICK k \in 1 .. Len(h) : h[k].kind = "tool" /\ h[k].pos = c /\ h[k].status = "completed"
        BY <3>2 DEF HoldsDone
      <3>4. Contains(f, h[k])
        BY <1>5 DEF Contains
      <3>5. Contains(Merged(f, l), h[k])
        BY <1>5, <3>4, MergedHas
      <3> QED BY <3>3, <3>5
    <2>2. CASE ~InHistory(c) /\ c > liveFrom /\ j <= delivered
      <3>1. liveFrom < j
        BY <1>1, <1>3, <2>2
      <3>2. HoldsDone(l, "tool", c)
        BY <1>4, <1>6, <2>2, <3>1
      <3>3. PICK k \in 1 .. Len(l) : l[k].kind = "tool" /\ l[k].pos = c /\ l[k].status = "completed"
        BY <3>2 DEF HoldsDone
      <3>4. Novel(f, l, k)
        BY <1>8, <2>2, <3>3
      <3>5. Contains(Merged(f, l), l[k])
        BY <1>5, <3>4, MergedHas
      <3> QED BY <3>3, <3>5
    <2> QED BY <1>7, <2>1, <2>2 DEF SameSide
  <1>11. WithoutHeld(f, l) \in Seq(ViewEntry) /\ Contains(WithoutHeld(f, l), e)
    <2> DEFINE K == {"tool"}
    <2>1. K \cap MessageKinds = {} /\ e.kind \notin MessageKinds
      BY <1>10 DEF MessageKinds
    <2> HIDE DEF K
    <2> QED BY <1>5, <1>10, <2>1, HidesMessages
  <1>12. PICK k \in 1 .. Len(WithoutHeld(f, l)) : WithoutHeld(f, l)[k] = e
    BY <1>11 DEF Contains
  <1>13. k \in DOMAIN WithoutHeld(f, l)
    BY <1>11
  <1> QED BY <1>9, <1>10, <1>12, <1>13 DEF c

(* The events of one type, each shown as one kind of entry.                *)
LEMMA EventsAreShown ==
  ASSUME ConversationInv, selectedNow, NEW type, NEW kind \in {"user", "error", "reasoning", "hqtool"},
         \A i, list, lo : At(sessionLog, i, type) /\ ShownAt(sessionLog, list, lo, i) => Holds(list, kind, i)
  PROVE  EventsOnce(ShownEntries, type, {kind})
  <1> SUFFICES ASSUME NEW i \in Logged(type), Has(i), Alone(i) PROVE TimesShown(ShownEntries, {kind}, i) = 1
    BY DEF EventsOnce
  <1>1. i \in 1 .. Len(sessionLog) /\ At(sessionLog, i, type)
    BY SourcesAre, LoggedIs
  <1>2. \A list, lo : ShownAt(sessionLog, list, lo, i) => Holds(list, kind, i)
    BY <1>1
  <1> QED BY <1>1, <1>2, EventIsShown

(* HQ's copies of prompts,                                                 *)
LEMMA PromptsAreFilled ==
  ASSUME ConversationInv, selectedNow
  PROVE  PromptsFillIn(ShownEntries)
  <1> DEFINE h == HistoricalEntries
             n == held["messages"]
             K == {"msg-user"}
  <1> SUFFICES ASSUME NEW m \in Prompts, m <= n
               PROVE  TimesShown(ShownEntries, K, m) = IF Covered(messages[m].ts) THEN 0 ELSE 1
    BY DEF PromptsFillIn
  <1>1. n \in Nat /\ messages \in Seq(Copy)
    BY SourcesAre
  <1>2. m \in 1 .. n /\ messages[m].type = "msg-user"
    BY <1>1 DEF Prompts
  <1>3. \A k \in 1 .. n : messages[k].type = "msg-user" => messages[k].pos = k
    BY CopiesAre
  <1>4. /\ RestNone(messages, n, h, K, m) => NoneOf(RestEntries(messages, n, h), K, m)
        /\ RestSole(messages, n, h, K, m) => Sole(RestEntries(messages, n, h), K, m)
        /\ NoneOf(RestEntries(invocations, held["tools"], h), K, m)
    BY CopiesNone
  <1>5. Covered(messages[m].ts) <=> Covers(h, messages[m].ts)
    BY DEF Covered
  <1>6. K \cap ProcessedKinds = {} /\ K \cap MessageKinds = {}
    BY DEF ProcessedKinds, MessageKinds
  <1>7. CASE Covered(messages[m].ts)
    <2>1. RestNone(messages, n, h, K, m)
      BY <1>3, <1>5, <1>7 DEF RestNone
    <2> QED BY <1>4, <1>6, <1>7, <2>1, CopyIsShown
  <1>8. CASE ~Covered(messages[m].ts)
    <2>1. RestSole(messages, n, h, K, m)
      BY <1>2, <1>3, <1>5, <1>8 DEF RestSole
    <2> QED BY <1>4, <1>6, <1>8, <2>1, CopyIsShown
  <1> QED BY <1>7, <1>8

(* and of HQ's tool invocations.                                           *)
LEMMA InvocationsAreFilled ==
  ASSUME ConversationInv, selectedNow
  PROVE  InvocationsFillIn(ShownEntries)
  <1> DEFINE h == HistoricalEntries
             n == held["tools"]
             K == {"tool-invocation"}
  <1> SUFFICES ASSUME NEW i \in Logged("copilot:tool-invocation"), HasCopy(invocations, "tools", i)
               PROVE  TimesShown(ShownEntries, K, i) = IF Covered(sessionLog[i].ts) THEN 0 ELSE 1
    BY DEF InvocationsFillIn
  <1>1. PICK m \in 1 .. n : invocations[m].pos = i
    BY DEF HasCopy
  <1>2. \A k \in 1 .. n :
          invocations[k].type = "tool-invocation" /\ invocations[k].ts = sessionLog[invocations[k].pos].ts
    BY CopiesAre
  <1>3. \A k, j \in 1 .. n : invocations[k].pos = invocations[j].pos => k = j
    BY CopiesAre
  <1>4. /\ RestNone(invocations, n, h, K, i) => NoneOf(RestEntries(invocations, n, h), K, i)
        /\ RestSole(invocations, n, h, K, i) => Sole(RestEntries(invocations, n, h), K, i)
        /\ NoneOf(RestEntries(messages, held["messages"], h), K, i)
    BY CopiesNone
  <1>5. Covered(sessionLog[i].ts) <=> Covers(h, sessionLog[i].ts)
    BY DEF Covered
  <1>6. K \cap ProcessedKinds = {} /\ K \cap MessageKinds = {}
    BY DEF ProcessedKinds, MessageKinds
  <1>7. CASE Covered(sessionLog[i].ts)
    <2>1. RestNone(invocations, n, h, K, i)
      BY <1>2, <1>5, <1>7 DEF RestNone
    <2> QED BY <1>4, <1>6, <1>7, <2>1, CopyIsShown
  <1>8. CASE ~Covered(sessionLog[i].ts)
    <2>1. RestSole(invocations, n, h, K, i)
      BY <1>1, <1>2, <1>3, <1>5, <1>8 DEF RestSole
    <2> QED BY <1>4, <1>6, <1>8, <2>1, CopyIsShown
  <1> QED BY <1>7, <1>8

(* All of this makes the timeline faithful.                                *)
LEMMA FaithfulFromInv == ConversationInv => TimelineIsFaithful
  <1> SUFFICES ASSUME ConversationInv, selectedNow
               PROVE  /\ EventsOnce(ShownEntries, "user.message", {"user"})
                      /\ EventsOnce(ShownEntries, "session.error", {"error"})
                      /\ EventsOnce(ShownEntries, "assistant.reasoning", {"reasoning"})
                      /\ EventsOnce(ShownEntries, "copilot:tool-invocation", {"hqtool"})
                      /\ AssistantMessagesOnce(ShownEntries) /\ PromptsFillIn(ShownEntries)
                      /\ InvocationsFillIn(ShownEntries) /\ BubblesAreOwed /\ ToolsSettle(ShownEntries)
    BY DEF TimelineIsFaithful
  <1>1. LogOk(sessionLog)
    BY SourcesAre
  <1>2. EventsOnce(ShownEntries, "user.message", {"user"})
    BY EventsAreShown DEF ShownAt
  <1>3. EventsOnce(ShownEntries, "session.error", {"error"})
    BY EventsAreShown DEF ShownAt
  <1>4. EventsOnce(ShownEntries, "assistant.reasoning", {"reasoning"})
    BY EventsAreShown DEF ShownAt
  <1>5. EventsOnce(ShownEntries, "copilot:tool-invocation", {"hqtool"})
    BY EventsAreShown DEF ShownAt
  <1>6. Logged("task.start") = {} => NoTask(sessionLog)
    BY <1>1, LoggedIs DEF NoTask
  <1>7. AssistantMessagesOnce(ShownEntries)
    <2> SUFFICES ASSUME Logged("task.start") = {}, NEW i \in Logged("assistant.message"), Alone(i),
                        Has(i) \/ (HasCopy(messages, "messages", i) /\ ~Covered(sessionLog[i].ts))
                 PROVE  TimesShown(ShownEntries, MessageKinds, i) = 1
      BY DEF AssistantMessagesOnce, MessageKinds
    <2>1. i \in 1 .. Len(sessionLog) /\ At(sessionLog, i, "assistant.message") /\ NoTask(sessionLog)
      BY <1>1, <1>6, LoggedIs
    <2> QED BY <2>1, MessageIsShown
  <1>8. BubblesAreOwed
    <2>1. /\ live.streaming =>
               Owed(sessionLog, "assistant.message_delta", "assistant.message", liveFrom, delivered)
          /\ live.thinking =>
               Owed(sessionLog, "assistant.reasoning_delta", "assistant.reasoning", liveFrom, delivered)
      BY SourcesAre DEF Saw
    <2> QED BY <2>1, OwedIs DEF BubblesAreOwed, BubbleShown, ThoughtShown
  <1>9. ToolsSettle(ShownEntries)
    <2> SUFFICES ASSUME Logged("task.start") = {}, NEW j \in Logged("tool.execution_complete"),
                        SameSide(sessionLog[j].call, j)
                 PROVE  \E k \in DOMAIN ShownEntries :
                          /\ ShownEntries[k].kind = "tool" /\ ShownEntries[k].pos = sessionLog[j].call
                          /\ ShownEntries[k].status = "completed"
      BY DEF ToolsSettle
    <2>1. j \in 1 .. Len(sessionLog) /\ At(sessionLog, j, "tool.execution_complete") /\ NoTask(sessionLog)
      BY <1>1, <1>6, LoggedIs
    <2> QED BY <2>1, CallSettles
  <1> QED BY <1>2, <1>3, <1>4, <1>5, <1>7, <1>8, <1>9, PromptsAreFilled, InvocationsAreFilled

(* The conversation hook and its event processor: however the answers of   *)
(* the three queries and the live events fall, and however often a session *)
(* is left and selected again, every message, error, thought and HQ tool   *)
(* invocation the tab has, alone in its millisecond, is shown once, HQ's   *)
(* copies fill in only what history does not cover, tools settle, and no   *)
(* bubble stays without a piece that is still owed its whole               *)
(* (TimelineIsFaithful).                                                   *)
THEOREM TimelineIsFaithfulHolds == CvSpec => []TimelineIsFaithful
  BY FaithfulFromInv, ConversationInvariant, PTL

-----------------------------------------------------------------------------
(* All the parts in one instance (MCSessions). *)

SessionsFocus == focus \in {"sessions", "log", "socket", "terminals"} \cup DOMAIN Conversations

(* Each part moves as its own specification says, or not at all.           *)
LEMMA SessionsParts ==
  /\ Init => SessionsFocus /\ CsInit /\ ElInit /\ BlInit /\ TmInit /\ CvInit
  /\ [Next]_<<focus, csVars, elVars, blVars, tmVars, cvVars>> =>
        /\ [CsNext]_csVars /\ [ElNext]_elVars /\ [BlNext]_blVars /\ [TmNext]_tmVars /\ [CvNext]_cvVars
        /\ UNCHANGED focus
  BY DEF Init, Next, SessionsFocus

(* The instance the runs check is the five parts' specifications at once.  *)
THEOREM SessionsRefineTheirParts == Spec => CsSpec /\ ElSpec /\ BlSpec /\ TmSpec /\ CvSpec
  BY SessionsParts, PTL DEF Spec, CsSpec, ElSpec, BlSpec, TmSpec, CvSpec

(* Whichever part is watched, its records, queues and sequences hold only  *)
(* values its code can give them (SessionsTypeOK).                         *)
THEOREM SessionsTypesHold == Spec => []SessionsTypeOK
  <1>1. SessionsFocus /\ UNCHANGED focus => SessionsFocus'
    BY DEF SessionsFocus
  <1>2. SessionsFocus /\ CsTypeOK /\ ElTypeOK /\ BlTypeOK /\ TmTypeOK /\ CvTypeOK => SessionsTypeOK
    BY Zenon DEF SessionsFocus, SessionsTypeOK
  <1>3. Spec => []SessionsFocus
    BY <1>1, SessionsParts, PTL DEF Spec
  <1> QED BY <1>2, <1>3, SessionsRefineTheirParts, SessionTypesHold, LogTypesHold, LinkTypesHold,
             TerminalTypesHold, ConversationTypesHold, PTL

=============================================================================
