------------------------- MODULE ReadScans_proofs --------------------------
(***************************************************************************)
(* Proofs about ReadScans, for any scans, workers, chunks, sessions and    *)
(* bounds: the pool's count is right whatever fails, every chunk of a      *)
(* table is read once, and a consistent query reads one moment.            *)
(*                                                                         *)
(* The handles that hold or connect a session are counted (Counted).  The  *)
(* stage of a scan bounds what it can have done (Staged), and nothing of a *)
(* query is left when it ends (Between).  A session a scan failed on is    *)
(* held by a poisoned handle (Marked).  Every chunk is still to be taken,  *)
(* in one worker's hand, or read (Parted).  Who asks for the moment has    *)
(* the lock (Locked), and what a scan read is of the moment it names,      *)
(* which the snapshot of the query holds (Dated).                          *)
(***************************************************************************)
EXTENDS ReadScans, FiniteSetTheorems, SequenceTheorems, TLAPS

-----------------------------------------------------------------------------
(* The inductive invariant                                                 *)

(* What the pool counts: sessions, and connects it gave leave to.          *)
Accountable == Sessions \cup {"connecting"}

Counted ==
    /\ IsFiniteSet(HandlesWith(Accountable))
    /\ live_sessions = Len(idle) + Cardinality(HandlesWith(Accountable))
    /\ IsInjective(idle)
    /\ \A h, g \in HandlesWith(Sessions) : lease[h[1]][h[2]] = lease[g[1]][g[2]] => h = g
    /\ \A h \in HandlesWith(Sessions) : lease[h[1]][h[2]] \notin ToSet(idle)

(* The stages before a scan has read anything.                             *)
Ahead == {"new", "moment", "ask", "plan", "heap", "open"}

Between ==
    ~running => \A x \in Scans :
        /\ stage[x] = "done" /\ kind[x] = "statement" /\ ~failed
        /\ scn[x] = 0 /\ next_chunk[x] = 0
        /\ poisoned[x] = {}
        /\ moments[x] = {}
        /\ \A r \in Roles : lease[x][r] = "none"

Staged ==
    \A x \in Scans :
        /\ stage[x] \in Ahead => poisoned[x] = {} /\ moments[x] = {} /\ next_chunk[x] = 0
        /\ kind[x] = "statement" => stage[x] \in {"new", "open", "run", "done"}
        /\ \A w \in Workers : chunk[x][w] # 0 => stage[x] = "run" /\ kind[x] = "parallel"
        /\ stage[x] = "run" /\ kind[x] = "parallel" => lease[x]["scan"] = "none"

(* Only who needs a session is about to get one.                           *)
Wanted ==
    \A x \in Scans, r \in Roles : lease[x][r] \in {"connecting", "opening"} => Needs(x, r)

Marked ==
    /\ \A s \in ToSet(idle) : unsound[s] # "scan"
    /\ \A x \in Scans, r \in Roles :
          lease[x][r] \in Sessions /\ unsound[lease[x][r]] = "scan" =>
              r # "text" /\ r \in poisoned[x]

Parted ==
    \A x \in Scans :
        /\ \A w \in Workers : chunk[x][w] <= next_chunk[x]
        /\ \A v, w \in Workers : chunk[x][v] # 0 /\ chunk[x][v] = chunk[x][w] => v = w
        /\ \A w \in Workers : chunk[x][w] # 0 => read[x][chunk[x][w]] = 0
        /\ \A c \in 1..Chunks :
              /\ read[x][c] <= 1
              /\ c > next_chunk[x] => read[x][c] = 0
              /\ c <= next_chunk[x] /\ ~failed =>
                    read[x][c] = 1 \/ \E w \in Workers : chunk[x][w] = c
        /\ kind[x] = "parallel" /\ stage[x] = "done" /\ ~failed => next_chunk[x] = Chunks

Locked ==
    /\ \A x \in Scans : stage[x] = "ask" <=> lock = x
    /\ lock # "none" => snapshot.query = query /\ snapshot.scn = 0

(* What a scan has read is of the change number it names, ...              *)
Named ==
    \A x \in Scans :
        /\ kind[x] \in {"deferred", "parallel"} => scn[x] # 0 /\ moments[x] \subseteq {scn[x]}
        /\ \A m, n \in moments[x] : m = n

(* ... and that is the snapshot's, which was taken during the query.       *)
Dated ==
    /\ began <= now
    /\ snapshot.query <= query
    /\ snapshot.query = query /\ snapshot.scn # 0 => snapshot.scn >= began
    /\ consistent /\ ~pinned => \A x \in Scans :
          /\ stage[x] \in {"plan", "heap", "open", "run"} /\ kind[x] # "statement" =>
                snapshot.query = query /\ snapshot.scn # 0 /\ scn[x] = snapshot.scn
          /\ moments[x] # {} =>
                snapshot.query = query /\ snapshot.scn # 0 /\ moments[x] = {snapshot.scn}

-----------------------------------------------------------------------------
(* Lists and handles                                                       *)

(* The elements of a sequence, by their indices.                           *)
LEMMA SetOfSeq ==
    ASSUME NEW S, NEW q \in Seq(S)
    PROVE  /\ DOMAIN q = 1..Len(q) /\ ToSet(q) = {q[i] : i \in 1..Len(q)}
           /\ Len(q) \in Nat /\ ToSet(q) \subseteq S
BY LenProperties DEF ToSet

(* Acquire takes the last idle session off the list.                       *)
LEMMA TakeLast ==
    ASSUME NEW S, NEW q \in Seq(S), q # <<>>, IsInjective(q)
    PROVE  /\ Front(q) \in Seq(S)
           /\ Len(Front(q)) = Len(q) - 1
           /\ Last(q) \in S
           /\ ToSet(Front(q)) = ToSet(q) \ {Last(q)}
           /\ Last(q) \in ToSet(q)
           /\ IsInjective(Front(q))
<1>1. Len(q) \in Nat /\ Len(q) > 0
  OBVIOUS
<1>2. /\ Front(q) \in Seq(S)
      /\ Len(Front(q)) = Len(q) - 1
      /\ \A i \in 1..Len(q) - 1 : Front(q)[i] = q[i]
  <2>1. \A i \in 1..Len(q) - 1 : q[i] \in S
    OBVIOUS
  <2>2. /\ SubSeq(q, 1, Len(q) - 1) \in Seq(S)
        /\ Len(SubSeq(q, 1, Len(q) - 1)) = IF 1 <= Len(q) - 1 THEN Len(q) - 1 - 1 + 1 ELSE 0
        /\ \A i \in 1..Len(q) - 1 - 1 + 1 : SubSeq(q, 1, Len(q) - 1)[i] = q[1 + i - 1]
    BY <1>1, <2>1, SubSeqProperties
  <2>3. Len(q) - 1 - 1 + 1 = Len(q) - 1 /\ \A i \in Nat : 1 + i - 1 = i
    BY <1>1
  <2> QED
    BY <1>1, <2>2, <2>3 DEF Front
<1>3. \A i, j \in 1..Len(q) : q[i] = q[j] => i = j
  BY SetOfSeq DEF IsInjective
<1>4. ToSet(q) = {q[i] : i \in 1..Len(q)} /\ ToSet(Front(q)) = {q[i] : i \in 1..Len(q) - 1}
  BY <1>2, SetOfSeq
<1>5. Last(q) = q[Len(q)] /\ Len(q) \in 1..Len(q) /\ q[Len(q)] \in S
  BY <1>1 DEF Last
<1>6. IsInjective(Front(q))
  BY <1>1, <1>2, <1>3, SetOfSeq DEF IsInjective
<1>7. ToSet(Front(q)) = ToSet(q) \ {Last(q)}
  <2>1. \A i \in 1..Len(q) : i \in 1..Len(q) - 1 \/ i = Len(q)
    BY <1>1
  <2>2. \A i \in 1..Len(q) - 1 : i \in 1..Len(q) /\ q[i] # Last(q)
    BY <1>1, <1>3, <1>5
  <2> QED
    BY <1>4, <1>5, <2>1, <2>2
<1> QED
  BY <1>2, <1>4, <1>5, <1>6, <1>7

(* Release adds a session to it.                                           *)
LEMMA ReturnLast ==
    ASSUME NEW S, NEW q \in Seq(S), NEW s \in S, s \notin ToSet(q), IsInjective(q)
    PROVE  /\ Append(q, s) \in Seq(S)
           /\ Len(Append(q, s)) = Len(q) + 1
           /\ ToSet(Append(q, s)) = ToSet(q) \cup {s}
           /\ IsInjective(Append(q, s))
<1>1. /\ Append(q, s) \in Seq(S) /\ Len(q) \in Nat
      /\ Len(Append(q, s)) = Len(q) + 1
      /\ \A i \in 1..Len(q) : Append(q, s)[i] = q[i]
      /\ Append(q, s)[Len(q) + 1] = s
  BY AppendProperties
<1>2. /\ ToSet(q) = {q[i] : i \in 1..Len(q)}
      /\ ToSet(Append(q, s)) = {Append(q, s)[i] : i \in 1..Len(q) + 1}
      /\ DOMAIN Append(q, s) = 1..Len(q) + 1
  BY <1>1, SetOfSeq
<1>3. \A i \in 1..Len(q) + 1 : i \in 1..Len(q) \/ i = Len(q) + 1
  BY <1>1
<1>4. ToSet(Append(q, s)) = ToSet(q) \cup {s}
  BY <1>1, <1>2, <1>3
<1>5. \A i, j \in 1..Len(q) : q[i] = q[j] => i = j
  BY SetOfSeq DEF IsInjective
<1>6. \A i, j \in 1..Len(q) + 1 : Append(q, s)[i] = Append(q, s)[j] => i = j
  BY <1>1, <1>2, <1>3, <1>5
<1> QED
  BY <1>1, <1>2, <1>4, <1>6 DEF IsInjective

(* As many sessions are in a list as it is long.                           *)
LEMMA ListIsCounted ==
    ASSUME NEW S, NEW q \in Seq(S), IsInjective(q)
    PROVE  IsFiniteSet(ToSet(q)) /\ Cardinality(ToSet(q)) = Len(q)
<1>1. q \in [1..Len(q) -> ToSet(q)] /\ Len(q) \in Nat /\ ToSet(q) = {q[i] : i \in 1..Len(q)}
  BY SetOfSeq
<1>2. q \in Bijection(1..Len(q), ToSet(q))
  BY <1>1 DEF Bijection, Injection, Surjection
<1>3. ExistsBijection(1..Len(q), ToSet(q))
  BY <1>2 DEF ExistsBijection
<1>4. IsFiniteSet(1..Len(q)) /\ Cardinality(1..Len(q)) = Len(q)
  <2>1. 1 \in Int /\ Len(q) \in Int
    BY <1>1
  <2>2. /\ IsFiniteSet(1..Len(q))
        /\ Cardinality(1..Len(q)) = IF 1 > Len(q) THEN 0 ELSE Len(q) - 1 + 1
    BY <2>1, FS_Interval
  <2> QED
    BY <1>1, <2>2
<1> QED
  BY <1>3, <1>4, FS_Bijection

-----------------------------------------------------------------------------
(* What acquiring, connecting and releasing do to the pool's count         *)

PoolTyped ==
    /\ idle \in Seq(Sessions)
    /\ live_sessions \in 0..MaximumSessions
    /\ lease \in [Scans -> [Roles -> Handles]]

(* The handles after one has changed.                                      *)
LEMMA OneHandle ==
    ASSUME NEW x \in Scans, NEW r \in Roles, NEW v,
           lease \in [Scans -> [Roles -> Handles]],
           lease' = [lease EXCEPT ![x][r] = v]
    PROVE  /\ lease'[x][r] = v
           /\ \A h \in Scans \X Roles : h # <<x, r>> => lease'[h[1]][h[2]] = lease[h[1]][h[2]]
<1>1. lease'[x][r] = v
  OBVIOUS
<1>2. ASSUME NEW h \in Scans \X Roles, h # <<x, r>>
      PROVE  lease'[h[1]][h[2]] = lease[h[1]][h[2]]
  <2>1. PICK y \in Scans, q \in Roles : h = <<y, q>>
    OBVIOUS
  <2>2. y # x \/ q # r
    BY <1>2, <2>1
  <2>3. lease'[y][q] = lease[y][q]
    BY <2>2
  <2> QED
    BY <2>1, <2>3
<1> QED
  BY <1>1, <1>2

LEMMA HandleAdded ==
    ASSUME NEW V, NEW x \in Scans, NEW r \in Roles, NEW v \in V,
           lease \in [Scans -> [Roles -> Handles]],
           lease' = [lease EXCEPT ![x][r] = v]
    PROVE  HandlesWith(V)' = HandlesWith(V) \cup {<<x, r>>}
<1>1. /\ lease'[x][r] = v
      /\ \A h \in Scans \X Roles : h # <<x, r>> => lease'[h[1]][h[2]] = lease[h[1]][h[2]]
  BY OneHandle
<1>2. <<x, r>> \in Scans \X Roles /\ <<x, r>>[1] = x /\ <<x, r>>[2] = r
  OBVIOUS
<1> QED
  BY <1>1, <1>2 DEF HandlesWith

LEMMA HandleRemoved ==
    ASSUME NEW V, NEW x \in Scans, NEW r \in Roles, NEW v, v \notin V,
           lease \in [Scans -> [Roles -> Handles]],
           lease' = [lease EXCEPT ![x][r] = v]
    PROVE  HandlesWith(V)' = HandlesWith(V) \ {<<x, r>>}
<1>1. /\ lease'[x][r] = v
      /\ \A h \in Scans \X Roles : h # <<x, r>> => lease'[h[1]][h[2]] = lease[h[1]][h[2]]
  BY OneHandle
<1>2. <<x, r>> \in Scans \X Roles /\ <<x, r>>[1] = x /\ <<x, r>>[2] = r
  OBVIOUS
<1> QED
  BY <1>1, <1>2 DEF HandlesWith

LEMMA HandleIsWith ==
    ASSUME NEW V, NEW x \in Scans, NEW r \in Roles
    PROVE  <<x, r>> \in HandlesWith(V) <=> lease[x][r] \in V
BY DEF HandlesWith

LEMMA Words ==
    /\ Sessions \cap {"none", "borrowed", "connecting", "opening", "owned"} = {}
    /\ {"none", "borrowed", "connecting", "opening", "owned"} \subseteq Handles
    /\ Sessions \subseteq Handles
    /\ \A s \in Sessions : s \in Held
    /\ {"scan", "text"} \subseteq Roles /\ Workers \subseteq Roles
    /\ MaximumSessions \in Nat
BY ScansAssumption DEF ScansAssumption, Handles, Held, Roles

(* A handle changes that neither holds a session nor connects one for the  *)
(* pool, before or after: the count stays.                                 *)
LEMMA Uncounted ==
    ASSUME PoolTyped, Counted, NEW x \in Scans, NEW r \in Roles,
           NEW v \in Handles \ (Accountable),
           lease[x][r] \notin Accountable,
           lease' = [lease EXCEPT ![x][r] = v],
           UNCHANGED pool
    PROVE  PoolTyped' /\ Counted'
<1>1. HandlesWith(Accountable)' = HandlesWith(Accountable) /\ HandlesWith(Sessions)' = HandlesWith(Sessions)
  <2>1. /\ v \notin Accountable /\ v \notin Sessions
        /\ lease[x][r] \notin Accountable /\ lease[x][r] \notin Sessions
        /\ lease \in [Scans -> [Roles -> Handles]]
    BY DEF PoolTyped, Accountable
  <2>2. /\ HandlesWith(Accountable)' = HandlesWith(Accountable) \ {<<x, r>>}
        /\ HandlesWith(Sessions)' = HandlesWith(Sessions) \ {<<x, r>>}
    BY <2>1, HandleRemoved
  <2>3. <<x, r>> \notin HandlesWith(Accountable) /\ <<x, r>> \notin HandlesWith(Sessions)
    BY <2>1, HandleIsWith
  <2> QED
    BY <2>2, <2>3
<1>2. ASSUME NEW h \in HandlesWith(Sessions) PROVE lease'[h[1]][h[2]] = lease[h[1]][h[2]]
  <2>1. h \in Scans \X Roles /\ h # <<x, r>>
    BY DEF HandlesWith, Accountable
  <2> QED
    BY <2>1, OneHandle DEF PoolTyped
<1>3. idle' = idle /\ live_sessions' = live_sessions
  BY DEF pool
<1>4. PoolTyped'
  BY <1>3 DEF PoolTyped
<1> QED
  BY <1>1, <1>2, <1>3, <1>4 DEF Counted

(* A handle takes up a session, or leave to connect one, that no other     *)
(* handle and no idle entry has.                                           *)
LEMMA Taken ==
    ASSUME PoolTyped, Counted, NEW x \in Scans, NEW r \in Roles,
           NEW v \in Accountable,
           lease' = [lease EXCEPT ![x][r] = v],
           v \in Sessions => /\ \A h \in HandlesWith(Sessions) : lease[h[1]][h[2]] # v
                             /\ v \notin ToSet(idle'),
           idle' \in Seq(Sessions), IsInjective(idle'),
           ToSet(idle') \subseteq ToSet(idle),
           live_sessions' \in 0..MaximumSessions,
           live_sessions' - Len(idle') =
               live_sessions - Len(idle) + (IF lease[x][r] = "connecting" THEN 0 ELSE 1),
           lease[x][r] \notin Sessions
    PROVE  PoolTyped' /\ Counted'
<1>1. /\ HandlesWith(Accountable)' = HandlesWith(Accountable) \cup {<<x, r>>}
      /\ <<x, r>> \in HandlesWith(Accountable) <=> lease[x][r] = "connecting"
  <2>1. v \in Accountable /\ lease \in [Scans -> [Roles -> Handles]]
    BY DEF PoolTyped, Accountable
  <2>2. HandlesWith(Accountable)' = HandlesWith(Accountable) \cup {<<x, r>>}
    BY <2>1, HandleAdded
  <2>3. <<x, r>> \in HandlesWith(Accountable) <=> lease[x][r] \in Accountable
    BY HandleIsWith
  <2>4. lease[x][r] \in Accountable <=> lease[x][r] = "connecting"
    BY DEF Accountable
  <2> QED
    BY <2>2, <2>3, <2>4
<1>2. /\ IsFiniteSet(HandlesWith(Accountable)')
      /\ Cardinality(HandlesWith(Accountable)') =
             Cardinality(HandlesWith(Accountable)) + (IF lease[x][r] = "connecting" THEN 0 ELSE 1)
  <2>1. IsFiniteSet(HandlesWith(Accountable)) /\ Cardinality(HandlesWith(Accountable)) \in Nat
    BY FS_CardinalityType DEF Counted
  <2>2. /\ IsFiniteSet(HandlesWith(Accountable) \cup {<<x, r>>})
        /\ Cardinality(HandlesWith(Accountable) \cup {<<x, r>>}) =
               IF <<x, r>> \in HandlesWith(Accountable) THEN Cardinality(HandlesWith(Accountable))
               ELSE Cardinality(HandlesWith(Accountable)) + 1
    BY <2>1, FS_AddElement
  <2>3. CASE lease[x][r] = "connecting"
    BY <1>1, <2>1, <2>2, <2>3
  <2>4. CASE lease[x][r] # "connecting"
    BY <1>1, <2>1, <2>2, <2>4
  <2> QED
    BY <2>3, <2>4
<1>3. live_sessions' = Len(idle') + Cardinality(HandlesWith(Accountable)')
  <2>1. live_sessions = Len(idle) + Cardinality(HandlesWith(Accountable))
    BY DEF Counted
  <2>2. /\ Cardinality(HandlesWith(Accountable)) \in Nat /\ live_sessions \in Int
        /\ Len(idle) \in Nat /\ Len(idle') \in Nat /\ live_sessions' \in Int
    BY FS_CardinalityType, Words DEF Counted, PoolTyped
  <2> QED
    BY <1>2, <2>1, <2>2
<1>4. \A h \in HandlesWith(Sessions)' :
          \/ h = <<x, r>>
          \/ /\ h \in HandlesWith(Sessions)
             /\ lease'[h[1]][h[2]] = lease[h[1]][h[2]]
  <2>1. \/ HandlesWith(Sessions)' = HandlesWith(Sessions) \cup {<<x, r>>}
        \/ HandlesWith(Sessions)' = HandlesWith(Sessions) \ {<<x, r>>}
    BY HandleAdded, HandleRemoved DEF PoolTyped
  <2>2. HandlesWith(Sessions) \subseteq Scans \X Roles
    BY DEF HandlesWith
  <2>3. \A h \in Scans \X Roles : h # <<x, r>> => lease'[h[1]][h[2]] = lease[h[1]][h[2]]
    BY OneHandle DEF PoolTyped
  <2>4. HandlesWith(Sessions)' \subseteq HandlesWith(Sessions) \cup {<<x, r>>}
    BY <2>1
  <2> QED
    BY <2>2, <2>3, <2>4
<1>5. lease'[<<x, r>>[1]][<<x, r>>[2]] = v
  BY OneHandle DEF PoolTyped
<1>6. <<x, r>> \in HandlesWith(Sessions)' => v \in Sessions
  BY <1>5 DEF HandlesWith
<1>7. \A h, g \in HandlesWith(Sessions)' : lease'[h[1]][h[2]] = lease'[g[1]][g[2]] => h = g
  BY <1>4, <1>5, <1>6 DEF Counted
<1>8. \A h \in HandlesWith(Sessions)' : lease'[h[1]][h[2]] \notin ToSet(idle')
  BY <1>4, <1>5, <1>6 DEF Counted
<1>9. PoolTyped'
  BY Words DEF PoolTyped, Accountable
<1> QED
  BY <1>2, <1>3, <1>7, <1>8, <1>9 DEF Counted

(* A handle gives up what was counted, to the idle list or for good.       *)
LEMMA Given ==
    ASSUME PoolTyped, Counted, NEW x \in Scans, NEW r \in Roles,
           NEW v \in Handles \ (Accountable),
           lease[x][r] \in Accountable,
           lease' = [lease EXCEPT ![x][r] = v],
           \/ live_sessions' = live_sessions - 1 /\ UNCHANGED idle
           \/ /\ lease[x][r] \in Sessions
              /\ idle' = Append(idle, lease[x][r]) /\ UNCHANGED live_sessions
    PROVE  PoolTyped' /\ Counted'
<1>1. HandlesWith(Accountable)' = HandlesWith(Accountable) \ {<<x, r>>} /\ <<x, r>> \in HandlesWith(Accountable)
  <2>1. v \notin Accountable /\ lease[x][r] \in Accountable
    BY DEF Accountable
  <2>2. lease \in [Scans -> [Roles -> Handles]]
    BY DEF PoolTyped
  <2>3. HandlesWith(Accountable)' = HandlesWith(Accountable) \ {<<x, r>>}
    BY <2>1, <2>2, HandleRemoved
  <2> QED
    BY <2>1, <2>3, HandleIsWith
<1>2. /\ IsFiniteSet(HandlesWith(Accountable)')
      /\ Cardinality(HandlesWith(Accountable)') = Cardinality(HandlesWith(Accountable)) - 1
      /\ Cardinality(HandlesWith(Accountable)') \in Nat /\ Cardinality(HandlesWith(Accountable)) \in Nat
  <2>1. IsFiniteSet(HandlesWith(Accountable))
    BY DEF Counted
  <2>2. IsFiniteSet(HandlesWith(Accountable) \ {<<x, r>>})
    BY <2>1, FS_RemoveElement
  <2>3. Cardinality(HandlesWith(Accountable) \ {<<x, r>>}) = Cardinality(HandlesWith(Accountable)) - 1
    BY <1>1, <2>1, FS_RemoveElement
  <2>4. Cardinality(HandlesWith(Accountable)) \in Nat /\ Cardinality(HandlesWith(Accountable) \ {<<x, r>>}) \in Nat
    BY <2>1, <2>2, FS_CardinalityType
  <2> QED
    BY <1>1, <2>2, <2>3, <2>4
<1>3. HandlesWith(Sessions)' = HandlesWith(Sessions) \ {<<x, r>>}
  <2>1. v \notin Sessions /\ lease \in [Scans -> [Roles -> Handles]]
    BY DEF PoolTyped, Accountable
  <2> QED
    BY <2>1, HandleRemoved
<1>4. \A h \in HandlesWith(Sessions)' :
          /\ h \in HandlesWith(Sessions) /\ h # <<x, r>>
          /\ lease'[h[1]][h[2]] = lease[h[1]][h[2]]
  <2>1. HandlesWith(Sessions) \subseteq Scans \X Roles
    BY DEF HandlesWith
  <2> QED
    BY <1>3, <2>1, OneHandle DEF PoolTyped
<1>5. \A h, g \in HandlesWith(Sessions)' : lease'[h[1]][h[2]] = lease'[g[1]][g[2]] => h = g
  BY <1>4 DEF Counted
<1>6. lease' \in [Scans -> [Roles -> Handles]]
  BY DEF PoolTyped
<1>7. live_sessions = Len(idle) + Cardinality(HandlesWith(Accountable)) /\ Len(idle) \in Nat
  BY DEF Counted, PoolTyped
<1>8. live_sessions \in 0..MaximumSessions /\ MaximumSessions \in Nat /\ idle \in Seq(Sessions)
  BY Words DEF PoolTyped
<1>9. CASE live_sessions' = live_sessions - 1 /\ UNCHANGED idle
  <2>1. live_sessions' \in 0..MaximumSessions
    BY <1>2, <1>7, <1>8, <1>9
  <2>2. live_sessions' = Len(idle') + Cardinality(HandlesWith(Accountable)')
    BY <1>2, <1>7, <1>8, <1>9
  <2>3. \A h \in HandlesWith(Sessions)' : lease'[h[1]][h[2]] \notin ToSet(idle')
    BY <1>4, <1>9 DEF Counted
  <2>4. IsInjective(idle')
    BY <1>9 DEF Counted
  <2> QED
    BY <1>2, <1>5, <1>6, <1>8, <1>9, <2>1, <2>2, <2>3, <2>4 DEF PoolTyped, Counted
<1>10. CASE /\ lease[x][r] \in Sessions
            /\ idle' = Append(idle, lease[x][r]) /\ UNCHANGED live_sessions
  <2>1. <<x, r>> \in HandlesWith(Sessions) /\ <<x, r>>[1] = x /\ <<x, r>>[2] = r
    BY <1>10, HandleIsWith
  <2>2. lease[x][r] \notin ToSet(idle) /\ IsInjective(idle)
    BY <2>1 DEF Counted
  <2>3. /\ idle' \in Seq(Sessions) /\ Len(idle') = Len(idle) + 1
        /\ ToSet(idle') = ToSet(idle) \cup {lease[x][r]} /\ IsInjective(idle')
    BY <1>8, <1>10, <2>2, ReturnLast
  <2>4. live_sessions' = Len(idle') + Cardinality(HandlesWith(Accountable)')
    BY <1>2, <1>7, <1>8, <1>10, <2>3
  <2>5. \A h \in HandlesWith(Sessions)' : lease'[h[1]][h[2]] \notin ToSet(idle')
    BY <1>4, <2>1, <2>3 DEF Counted
  <2> QED
    BY <1>2, <1>5, <1>6, <1>8, <1>10, <2>3, <2>4, <2>5 DEF PoolTyped, Counted
<1> QED
  BY <1>9, <1>10

(* No session is in two hands, so those in use are as many as the idle     *)
(* ones and the handles that hold one.                                     *)
LEMMA UseIsCounted ==
    ASSUME PoolTyped, Counted
    PROVE  /\ IsFiniteSet(HandlesWith(Sessions))
           /\ Cardinality(HandlesWith(Sessions)) \in Nat
           /\ InUse \subseteq Sessions
           /\ Cardinality(InUse) = Len(idle) + Cardinality(HandlesWith(Sessions))
<1> DEFINE leased == {lease[x][r] : x \in Scans, r \in Roles} \cap Sessions
<1>1. HandlesWith(Sessions) \subseteq HandlesWith(Accountable)
  BY DEF HandlesWith, Accountable
<1>2. IsFiniteSet(HandlesWith(Sessions)) /\ Cardinality(HandlesWith(Sessions)) \in Nat
  BY <1>1, FS_Subset, FS_CardinalityType DEF Counted
<1>3. IsFiniteSet(leased) /\ Cardinality(leased) = Cardinality(HandlesWith(Sessions))
  <2> DEFINE hold == [h \in HandlesWith(Sessions) |-> lease[h[1]][h[2]]]
  <2>1. \A h \in HandlesWith(Sessions) : hold[h] \in leased
    BY DEF HandlesWith
  <2>2. \A s \in leased : \E h \in HandlesWith(Sessions) : hold[h] = s
    <3>1. TAKE s \in leased
    <3>2. PICK x \in Scans, r \in Roles : lease[x][r] = s
      OBVIOUS
    <3>3. <<x, r>> \in HandlesWith(Sessions) /\ <<x, r>>[1] = x /\ <<x, r>>[2] = r
      BY <3>2, HandleIsWith
    <3> QED
      BY <3>2, <3>3
  <2>3. \A h, g \in HandlesWith(Sessions) : hold[h] = hold[g] => h = g
    BY DEF Counted
  <2>4. hold \in Bijection(HandlesWith(Sessions), leased)
    BY <2>1, <2>2, <2>3 DEF Bijection, Injection, Surjection, IsInjective
  <2>5. ExistsBijection(HandlesWith(Sessions), leased)
    BY <2>4 DEF ExistsBijection
  <2> HIDE DEF leased
  <2> QED
    BY <1>2, <2>5, FS_Bijection
<1>4. IsFiniteSet(ToSet(idle)) /\ Cardinality(ToSet(idle)) = Len(idle) /\ Len(idle) \in Nat
  BY ListIsCounted DEF PoolTyped, Counted
<1>5. ToSet(idle) \cap leased = {}
  <2>1. SUFFICES ASSUME NEW s \in ToSet(idle), s \in leased
                 PROVE  FALSE
    OBVIOUS
  <2>2. PICK x \in Scans, r \in Roles : lease[x][r] = s
    BY <2>1
  <2>3. <<x, r>> \in HandlesWith(Sessions) /\ <<x, r>>[1] = x /\ <<x, r>>[2] = r
    BY <2>1, <2>2, HandleIsWith
  <2> QED
    BY <2>1, <2>2, <2>3 DEF Counted
<1>6. InUse = ToSet(idle) \cup leased
  BY DEF InUse
<1>7. InUse \subseteq Sessions
  BY <1>6, SetOfSeq DEF PoolTyped
<1>8. Cardinality(ToSet(idle) \cup leased) = Len(idle) + Cardinality(leased)
  <2> HIDE DEF leased
  <2>1. /\ IsFiniteSet(ToSet(idle)) /\ IsFiniteSet(leased)
        /\ Cardinality(ToSet(idle) \cup leased) =
               Cardinality(ToSet(idle)) + Cardinality(leased) - Cardinality(ToSet(idle) \cap leased)
    BY <1>3, <1>4, FS_Union
  <2>2. Cardinality(ToSet(idle) \cap leased) = 0
    BY <1>5, FS_EmptySet
  <2>3. Cardinality(leased) \in Nat
    BY <2>1, FS_CardinalityType
  <2> QED
    BY <1>4, <2>1, <2>2, <2>3
<1> QED
  BY <1>2, <1>3, <1>6, <1>7, <1>8

LEMMA AcquireCounted ==
    ASSUME PoolTyped, Counted, NEW x \in Scans, NEW r \in Roles, NEW ofCatalog,
           Acquire(x, r, ofCatalog)
    PROVE  PoolTyped' /\ Counted'
<1>1. lease[x][r] = "none" /\ "none" \notin Sessions /\ "none" \notin Accountable
  BY Words DEF Acquire, Accountable
<1>2. \/ lease' = [lease EXCEPT ![x][r] = "borrowed"] /\ UNCHANGED pool
      \/ lease' = [lease EXCEPT ![x][r] = "opening"] /\ UNCHANGED pool
      \/ /\ idle # <<>>
         /\ lease' = [lease EXCEPT ![x][r] = Last(idle)]
         /\ idle' = Front(idle)
         /\ UNCHANGED live_sessions
      \/ /\ ~Exhausted
         /\ live_sessions' = live_sessions + 1
         /\ lease' = [lease EXCEPT ![x][r] = "connecting"]
         /\ UNCHANGED idle
  BY DEF Acquire
<1>3. ASSUME NEW v \in {"borrowed", "opening"},
             lease' = [lease EXCEPT ![x][r] = v], UNCHANGED pool
      PROVE  PoolTyped' /\ Counted'
  <2>1. v \in Handles \ Accountable
    BY Words DEF Accountable
  <2> QED
    BY <1>1, <1>3, <2>1, Uncounted
<1>4. CASE /\ idle # <<>>
           /\ lease' = [lease EXCEPT ![x][r] = Last(idle)]
           /\ idle' = Front(idle)
           /\ UNCHANGED live_sessions
  <2>1. idle \in Seq(Sessions) /\ IsInjective(idle)
    BY DEF PoolTyped, Counted
  <2>2. /\ idle' \in Seq(Sessions) /\ IsInjective(idle')
        /\ Last(idle) \in Sessions /\ Last(idle) \in ToSet(idle)
        /\ ToSet(idle') = ToSet(idle) \ {Last(idle)}
        /\ Len(idle') = Len(idle) - 1
    BY <1>4, <2>1, TakeLast
  <2>3. /\ Last(idle) \in Accountable
        /\ \A h \in HandlesWith(Sessions) : lease[h[1]][h[2]] # Last(idle)
        /\ Last(idle) \notin ToSet(idle')
    BY <2>2 DEF Accountable, Counted
  <2>4. /\ live_sessions' \in 0..MaximumSessions
        /\ live_sessions' - Len(idle') =
               live_sessions - Len(idle) + (IF lease[x][r] = "connecting" THEN 0 ELSE 1)
    BY <1>1, <1>4, <2>1, <2>2, Words DEF PoolTyped
  <2>5. ToSet(idle') \subseteq ToSet(idle)
    BY <2>2
  <2> QED
    BY <1>1, <1>4, <2>2, <2>3, <2>4, <2>5, Taken
<1>5. CASE /\ ~Exhausted
           /\ live_sessions' = live_sessions + 1
           /\ lease' = [lease EXCEPT ![x][r] = "connecting"]
           /\ UNCHANGED idle
  <2>1. /\ idle' \in Seq(Sessions) /\ IsInjective(idle') /\ ToSet(idle') \subseteq ToSet(idle)
        /\ "connecting" \in Accountable /\ "connecting" \notin Sessions
    BY <1>5, Words DEF PoolTyped, Counted, Accountable
  <2>2. live_sessions' \in 0..MaximumSessions
    BY <1>5, Words DEF PoolTyped, Exhausted
  <2>3. live_sessions' - Len(idle') =
               live_sessions - Len(idle) + (IF lease[x][r] = "connecting" THEN 0 ELSE 1)
    <3>1. Len(idle) \in Nat /\ live_sessions \in Int
      BY Words DEF PoolTyped
    <3> QED
      BY <1>1, <1>5, <3>1
  <2> QED
    BY <1>1, <1>5, <2>1, <2>2, <2>3, Taken
<1> QED
  BY <1>2, <1>3, <1>4, <1>5

(* There is an identity left for the session that has been connected.      *)
LEMMA IdentityIsFree ==
    ASSUME PoolTyped, Counted, NEW x \in Scans, NEW r \in Roles, lease[x][r] = "connecting"
    PROVE  \E s \in Sessions : s \notin InUse
<1>1. /\ IsFiniteSet(HandlesWith(Sessions)) /\ Cardinality(HandlesWith(Sessions)) \in Nat
      /\ InUse \subseteq Sessions
      /\ Cardinality(InUse) = Len(idle) + Cardinality(HandlesWith(Sessions))
  BY UseIsCounted
<1>2. /\ <<x, r>> \in HandlesWith(Accountable) /\ <<x, r>> \notin HandlesWith(Sessions)
      /\ HandlesWith(Sessions) \subseteq HandlesWith(Accountable)
  <2>1. "connecting" \in Accountable /\ "connecting" \notin Sessions
    BY Words DEF Accountable
  <2>2. HandlesWith(Sessions) \subseteq HandlesWith(Accountable)
    BY DEF HandlesWith, Accountable
  <2> QED
    BY <2>1, <2>2, HandleIsWith
<1>3. Cardinality(HandlesWith(Sessions)) < Cardinality(HandlesWith(Accountable))
  <2>1. /\ Cardinality(HandlesWith(Sessions)) <= Cardinality(HandlesWith(Accountable))
        /\ Cardinality(HandlesWith(Accountable)) = Cardinality(HandlesWith(Sessions)) =>
               HandlesWith(Accountable) = HandlesWith(Sessions)
        /\ Cardinality(HandlesWith(Accountable)) \in Nat
    BY <1>2, FS_Subset, FS_CardinalityType DEF Counted
  <2> QED
    BY <1>1, <1>2, <2>1
<1>4. Cardinality(InUse) < Cardinality(Sessions)
  <2>1. /\ live_sessions \in Nat /\ live_sessions <= MaximumSessions /\ MaximumSessions \in Nat
        /\ live_sessions = Len(idle) + Cardinality(HandlesWith(Accountable))
        /\ Len(idle) \in Nat
    BY Words DEF PoolTyped, Counted
  <2>2. /\ Cardinality(Sessions) >= MaximumSessions /\ Cardinality(Sessions) \in Nat
    BY ScansAssumption, FS_CardinalityType DEF ScansAssumption
  <2>3. Cardinality(HandlesWith(Accountable)) \in Nat
    BY FS_CardinalityType DEF Counted
  <2> QED
    BY <1>1, <1>3, <2>1, <2>2, <2>3
<1> QED
  <2>1. SUFFICES ASSUME \A s \in Sessions : s \in InUse
                 PROVE  FALSE
    OBVIOUS
  <2>2. InUse = Sessions
    BY <1>1, <2>1
  <2>3. Cardinality(Sessions) \in Nat
    BY ScansAssumption, FS_CardinalityType DEF ScansAssumption
  <2> QED
    BY <1>4, <2>2, <2>3

(* What Connected chooses.                                                 *)
LEMMA ConnectedTakes ==
    ASSUME PoolTyped, Counted, NEW x \in Scans, NEW r \in Roles, Connected(x, r)
    PROVE  \/ /\ lease[x][r] = "opening"
              /\ lease' = [lease EXCEPT ![x][r] = "owned"]
              /\ UNCHANGED unsound
           \/ /\ lease[x][r] = "connecting"
              /\ \E s \in Sessions \ InUse :
                    /\ lease' = [lease EXCEPT ![x][r] = s]
                    /\ unsound' = [unsound EXCEPT ![s] = "no"]
<1>1. CASE lease[x][r] = "connecting"
  <2> DEFINE s == CHOOSE s \in Sessions : s \notin InUse
  <2>1. s \in Sessions /\ s \notin InUse
    BY <1>1, IdentityIsFree
  <2>2. /\ lease' = [lease EXCEPT ![x][r] = s]
        /\ unsound' = [unsound EXCEPT ![s] = "no"]
    BY <1>1 DEF Connected
  <2> HIDE DEF s
  <2> QED
    BY <1>1, <2>1, <2>2
<1>2. CASE lease[x][r] # "connecting"
  BY <1>2 DEF Connected
<1> QED
  BY <1>1, <1>2

LEMMA ConnectedCounted ==
    ASSUME PoolTyped, Counted, NEW x \in Scans, NEW r \in Roles, Connected(x, r), UNCHANGED pool
    PROVE  PoolTyped' /\ Counted'
<1>1. CASE lease[x][r] = "opening" /\ lease' = [lease EXCEPT ![x][r] = "owned"]
  <2>1. "owned" \in Handles \ Accountable /\ "opening" \notin Accountable
    BY Words DEF Accountable
  <2> QED
    BY <1>1, <2>1, Uncounted
<1>2. ASSUME lease[x][r] = "connecting", NEW s \in Sessions \ InUse,
             lease' = [lease EXCEPT ![x][r] = s]
      PROVE  PoolTyped' /\ Counted'
  <2>1. idle' = idle /\ live_sessions' = live_sessions
    BY DEF pool
  <2>2. /\ idle' \in Seq(Sessions) /\ IsInjective(idle') /\ ToSet(idle') \subseteq ToSet(idle)
        /\ live_sessions' \in 0..MaximumSessions
        /\ s \in Accountable /\ lease[x][r] \notin Sessions
    BY <1>2, <2>1, Words DEF PoolTyped, Counted, Accountable
  <2>3. live_sessions' - Len(idle') =
               live_sessions - Len(idle) + (IF lease[x][r] = "connecting" THEN 0 ELSE 1)
    <3>1. Len(idle) \in Nat /\ live_sessions \in Int
      BY Words DEF PoolTyped
    <3> QED
      BY <1>2, <2>1, <3>1
  <2>4. s \notin ToSet(idle')
    BY <2>1 DEF InUse
  <2>5. ASSUME NEW h \in HandlesWith(Sessions)
        PROVE  lease[h[1]][h[2]] # s
    <3>1. h[1] \in Scans /\ h[2] \in Roles
      BY DEF HandlesWith
    <3> QED
      BY <3>1 DEF InUse
  <2> QED
    BY <1>2, <2>2, <2>3, <2>4, <2>5, Taken
<1> QED
  BY <1>1, <1>2, ConnectedTakes

LEMMA ConnectFailsCounted ==
    ASSUME PoolTyped, Counted, NEW x \in Scans, NEW r \in Roles,
           ConnectFails(x, r), UNCHANGED idle
    PROVE  PoolTyped' /\ Counted'
<1>1. "none" \in Handles \ Accountable /\ "opening" \notin Accountable
      /\ "connecting" \in Accountable
  BY Words DEF Accountable
<1>2. /\ lease' = [lease EXCEPT ![x][r] = "none"]
      /\ lease[x][r] \in {"connecting", "opening"}
      /\ live_sessions' = live_sessions - (IF lease[x][r] = "connecting" THEN 1 ELSE 0)
  BY DEF ConnectFails
<1>3. live_sessions \in Int
  BY Words DEF PoolTyped
<1>4. CASE lease[x][r] = "connecting"
  BY <1>1, <1>2, <1>4, Given
<1>5. CASE lease[x][r] = "opening"
  <2>1. UNCHANGED pool
    BY <1>2, <1>3, <1>5 DEF pool
  <2> QED
    BY <1>1, <1>2, <1>5, <2>1, Uncounted
<1> QED
  BY <1>2, <1>4, <1>5

LEMMA ReleaseCounted ==
    ASSUME PoolTyped, Counted, NEW x \in Scans, NEW r \in Roles, NEW poison,
           lease[x][r] # "connecting", Release(x, r, poison)
    PROVE  PoolTyped' /\ Counted'
<1>1. "none" \in Handles \ Accountable
  BY Words DEF Accountable
<1>2. lease' = [lease EXCEPT ![x][r] = "none"]
  BY DEF Release
<1>3. CASE lease[x][r] \notin Sessions
  <2>1. UNCHANGED pool /\ lease[x][r] \notin Accountable
    BY <1>3 DEF Release, Accountable
  <2> QED
    BY <1>1, <1>2, <2>1, Uncounted
<1>4. CASE lease[x][r] \in Sessions
  <2>1. \/ live_sessions' = live_sessions - 1 /\ UNCHANGED idle
        \/ idle' = Append(idle, lease[x][r]) /\ UNCHANGED live_sessions
    BY <1>4 DEF Release
  <2>2. lease[x][r] \in Accountable
    BY <1>4 DEF Accountable
  <2> QED
    BY <1>1, <1>2, <1>4, <2>1, <2>2, Given
<1> QED
  BY <1>3, <1>4

(* FailsAndDrops, where the handle is.                                     *)
LEMMA FailsCounted ==
    ASSUME PoolTyped, Counted, NEW x \in Scans, NEW r \in Roles, NEW whose, NEW poison,
           FailsAndDrops(x, r, whose, poison)
    PROVE  PoolTyped' /\ Counted'
<1>1. CASE ConnectFails(x, r) /\ UNCHANGED <<idle, unsound>>
  BY <1>1, ConnectFailsCounted
<1>2. CASE StatementFails(x, r, whose) /\ Release(x, r, poison)
  <2>1. lease[x][r] # "connecting"
    BY <1>2 DEF StatementFails, Held
  <2> QED
    BY <1>2, <2>1, ReleaseCounted
<1> QED
  BY <1>1, <1>2 DEF FailsAndDrops

LEMMA CountedStep ==
    ASSUME PoolTyped, Counted, Wanted, Staged, [Next]_vars
    PROVE  PoolTyped' /\ Counted'
<1>1. ASSUME UNCHANGED <<idle, live_sessions, lease>>
      PROVE  PoolTyped' /\ Counted'
  BY <1>1 DEF PoolTyped, Counted, HandlesWith
<1>2. {"scan", "text"} \subseteq Roles /\ Workers \subseteq Roles
  BY Words
<1>3. CASE UNCHANGED vars
  BY <1>1, <1>3 DEF vars
<1>4. CASE QueryBegins \/ QueryFails \/ WriterPins \/ TimePasses \/ QueryEnds
  BY <1>1, <1>4 DEF QueryBegins, QueryFails, WriterPins, TimePasses, QueryEnds, pool, leaseVars
<1>5. ASSUME NEW x \in Scans, ScanSteps(x)
      PROVE  PoolTyped' /\ Counted'
  <2>1. CASE \/ Begin(x) \/ AskMoment(x) \/ Plan(x) \/ Fetched(x) \/ FetchFails(x)
             \/ AllChunksTaken(x) \/ Abandon(x)
    BY <1>1, <2>1 DEF Begin, AskMoment, Plan, Fetched, FetchFails, AllChunksTaken, Abandon,
         pool, leaseVars
  <2>2. CASE MomentAnswered(x) \/ HeapAnswered(x)
    <3>1. lease[x]["text"] # "connecting" /\ Release(x, "text", FALSE)
      BY <2>2 DEF MomentAnswered, HeapAnswered, Held
    <3> QED
      BY <1>2, <3>1, ReleaseCounted
  <2>3. CASE AskFails(x) \/ HeapFails(x)
    BY <1>2, <2>3, FailsCounted DEF AskFails, HeapFails
  <2>4. CASE Opened(x)
    <3>1. lease[x]["scan"] # "connecting"
      BY <2>4 DEF Opened, Held
    <3>2. Release(x, "scan", FALSE) \/ UNCHANGED <<idle, live_sessions, lease>>
      BY <2>4 DEF Opened, pool
    <3> QED
      BY <1>1, <1>2, <3>1, <3>2, ReleaseCounted
  <2>5. CASE OpenFails(x)
    BY <1>2, <2>5, FailsCounted DEF OpenFails
  <2>6. ASSUME NEW w \in Workers, TakeChunk(x, w) \/ ReadChunk(x, w) \/ ChunkFails(x, w)
        PROVE  PoolTyped' /\ Counted'
    <3>1. \/ UNCHANGED <<idle, live_sessions, lease>>
          \/ ConnectFails(x, w) /\ UNCHANGED idle
      BY <2>6 DEF TakeChunk, ReadChunk, ChunkFails, pool, leaseVars
    <3> QED
      BY <1>1, <1>2, <3>1, ConnectFailsCounted
  <2>7. ASSUME NEW r \in Roles, TakeSession(x, r)
        PROVE  PoolTyped' /\ Counted'
    BY <2>7, AcquireCounted DEF TakeSession
  <2>8. ASSUME NEW r \in Roles, OpenSession(x, r)
        PROVE  PoolTyped' /\ Counted'
    BY <2>8, ConnectedCounted DEF OpenSession
  <2>9. ASSUME NEW r \in Roles, Destroy(x, r)
        PROVE  PoolTyped' /\ Counted'
    <3>1. ~Needs(x, r)
      BY <2>9 DEF Destroy, Needs, Staged
    <3>2. lease[x][r] # "connecting" /\ Release(x, r, r \in poisoned[x])
      BY <2>9, <3>1 DEF Destroy, Wanted
    <3> QED
      BY <3>2, ReleaseCounted
  <2> QED
    BY <1>5, <2>1, <2>2, <2>3, <2>4, <2>5, <2>6, <2>7, <2>8, <2>9 DEF ScanSteps
<1> QED
  BY <1>3, <1>4, <1>5 DEF Next, QuerySteps

-----------------------------------------------------------------------------
(* Types                                                                   *)

(* What a step of one scan does to the variables of the scans, ...         *)
LEMMA ScanMoves ==
    ASSUME NEW x \in Scans, ScanSteps(x)
    PROVE  /\ stage' = stage \/ \E to \in Stages : stage' = [stage EXCEPT ![x] = to]
           /\ \/ kind' = kind
              \/ \E k \in {"deferred", "serial", "parallel"} : kind' = [kind EXCEPT ![x] = k]
           /\ \/ scn' = scn
              \/ \E n \in {now, scn[x], KnownMoment.scn} : scn' = [scn EXCEPT ![x] = n]
           /\ UNCHANGED <<query, running, consistent, pinned, now, began>>
<1> USE DEF Go, Stages, AfterMoment, queryVars, scanVars, outside
<1>1. CASE Begin(x) \/ AskMoment(x)
  BY <1>1 DEF Begin, AskMoment
<1>2. CASE MomentAnswered(x) \/ AskFails(x)
  BY <1>2 DEF MomentAnswered, AskFails
<1>3. CASE Plan(x)
  BY <1>3 DEF Plan
<1>4. CASE HeapAnswered(x) \/ HeapFails(x)
  BY <1>4 DEF HeapAnswered, HeapFails
<1>5. CASE Opened(x) \/ OpenFails(x)
  BY <1>5 DEF Opened, OpenFails
<1>6. CASE Fetched(x) \/ FetchFails(x) \/ AllChunksTaken(x) \/ Abandon(x)
  BY <1>6 DEF Fetched, FetchFails, AllChunksTaken, Abandon
<1>7. ASSUME NEW w \in Workers, TakeChunk(x, w) \/ ReadChunk(x, w) \/ ChunkFails(x, w)
      PROVE  UNCHANGED <<stage, kind, scn, query, running, consistent, pinned, now, began>>
  BY <1>7 DEF TakeChunk, ReadChunk, ChunkFails
<1>8. ASSUME NEW r \in Roles, TakeSession(x, r) \/ OpenSession(x, r) \/ Destroy(x, r)
      PROVE  UNCHANGED <<stage, kind, scn, query, running, consistent, pinned, now, began>>
  BY <1>8 DEF TakeSession, OpenSession, Destroy
<1> QED
  BY <1>1, <1>2, <1>3, <1>4, <1>5, <1>6, <1>7, <1>8 DEF ScanSteps

(* ... to the chunks and what was read, ...                                *)
LEMMA ReadMoves ==
    ASSUME NEW x \in Scans, ScanSteps(x)
    PROVE  \/ UNCHANGED <<next_chunk, chunk, read>>
           \/ \E w \in Workers : TakeChunk(x, w) \/ ReadChunk(x, w) \/ ChunkFails(x, w)
           \/ Abandon(x)
<1> USE DEF history, scanVars
<1>1. CASE Begin(x) \/ AskMoment(x)
  BY <1>1 DEF Begin, AskMoment
<1>2. CASE MomentAnswered(x) \/ AskFails(x)
  BY <1>2 DEF MomentAnswered, AskFails
<1>3. CASE Plan(x)
  BY <1>3 DEF Plan
<1>4. CASE HeapAnswered(x) \/ HeapFails(x)
  BY <1>4 DEF HeapAnswered, HeapFails
<1>5. CASE Opened(x) \/ OpenFails(x)
  BY <1>5 DEF Opened, OpenFails
<1>6. CASE Fetched(x) \/ FetchFails(x) \/ AllChunksTaken(x)
  BY <1>6 DEF Fetched, FetchFails, AllChunksTaken
<1>8. ASSUME NEW r \in Roles, TakeSession(x, r) \/ OpenSession(x, r) \/ Destroy(x, r)
      PROVE  UNCHANGED <<next_chunk, chunk, read>>
  BY <1>8 DEF TakeSession, OpenSession, Destroy
<1> QED
  BY <1>1, <1>2, <1>3, <1>4, <1>5, <1>6, <1>8 DEF ScanSteps

(* ... to the moments it has read at and to the snapshot, ...              *)
LEMMA MomentMoves ==
    ASSUME NEW x \in Scans, ScanSteps(x)
    PROVE  /\ \/ moments' = moments
              \/ Opened(x) /\ kind[x] # "parallel" /\ ReadsAt(x, "scan")
              \/ Fetched(x) /\ kind[x] = "deferred" /\ ReadsAt(x, "scan")
              \/ \E w \in Workers : ReadChunk(x, w) /\ ReadsAt(x, w)
           /\ \/ UNCHANGED <<lock, snapshot>>
              \/ AskMoment(x) \/ MomentAnswered(x) \/ AskFails(x)
<1> USE DEF history, snapshotVars
<1>1. CASE Begin(x) \/ AskMoment(x)
  BY <1>1 DEF Begin, AskMoment
<1>2. CASE MomentAnswered(x) \/ AskFails(x)
  BY <1>2 DEF MomentAnswered, AskFails
<1>3. CASE Plan(x)
  BY <1>3 DEF Plan
<1>4. CASE HeapAnswered(x) \/ HeapFails(x)
  BY <1>4 DEF HeapAnswered, HeapFails
<1>5. CASE Opened(x) \/ OpenFails(x)
  BY <1>5 DEF Opened, OpenFails
<1>6. CASE Fetched(x) \/ FetchFails(x) \/ AllChunksTaken(x) \/ Abandon(x)
  BY <1>6 DEF Fetched, FetchFails, AllChunksTaken, Abandon
<1>7. ASSUME NEW w \in Workers, TakeChunk(x, w) \/ ReadChunk(x, w) \/ ChunkFails(x, w)
      PROVE  /\ moments' = moments \/ (ReadChunk(x, w) /\ ReadsAt(x, w))
             /\ UNCHANGED <<lock, snapshot>>
  BY <1>7 DEF TakeChunk, ReadChunk, ChunkFails
<1>8. ASSUME NEW r \in Roles, TakeSession(x, r) \/ OpenSession(x, r) \/ Destroy(x, r)
      PROVE  UNCHANGED <<moments, lock, snapshot>>
  BY <1>8 DEF TakeSession, OpenSession, Destroy
<1> QED
  BY <1>1, <1>2, <1>3, <1>4, <1>5, <1>6, <1>7, <1>8 DEF ScanSteps

(* ... and to the handles that are poisoned and the flags of failure.      *)
LEMMA FailureMoves ==
    ASSUME PoolTyped, Counted, NEW x \in Scans, ScanSteps(x)
    PROVE  /\ \/ poisoned' = poisoned
              \/ \E r \in Roles : poisoned' = [poisoned EXCEPT ![x] = @ \cup {r}]
           /\ \/ unsound' = unsound
              \/ \E s \in Sessions, whose \in {"no", "scan", "text"} :
                    unsound' = [unsound EXCEPT ![s] = whose]
           /\ failed' = failed \/ failed' = TRUE
           /\ failures' = failures \/ (failures < MaximumFailures /\ failures' = failures + 1)
<1> USE DEF outside, leaseVars, queryVars
<1>1. CASE Begin(x) \/ AskMoment(x) \/ MomentAnswered(x)
  BY <1>1 DEF Begin, AskMoment, MomentAnswered
<1>2. ASSUME NEW r, NEW whose \in {"scan", "text"}, NEW poison, FailsAndDrops(x, r, whose, poison)
      PROVE  /\ \/ unsound' = unsound
                \/ \E s \in Sessions : unsound' = [unsound EXCEPT ![s] = whose]
             /\ failures < MaximumFailures /\ failures' = failures + 1
  BY <1>2 DEF FailsAndDrops, ConnectFails, StatementFails
<1>3. "scan" \in Roles /\ "text" \in Roles /\ Workers \subseteq Roles
  BY Words
<1>4. CASE AskFails(x) \/ HeapFails(x) \/ OpenFails(x)
  BY <1>2, <1>3, <1>4 DEF AskFails, HeapFails, OpenFails
<1>5. CASE Plan(x) \/ HeapAnswered(x) \/ Opened(x)
  BY <1>5 DEF Plan, HeapAnswered, Opened
<1>6. CASE Fetched(x) \/ AllChunksTaken(x) \/ Abandon(x)
  BY <1>6 DEF Fetched, AllChunksTaken, Abandon
<1>7. CASE FetchFails(x)
  BY <1>3, <1>7 DEF FetchFails, StatementFails
<1>8. ASSUME NEW w \in Workers, TakeChunk(x, w) \/ ReadChunk(x, w)
      PROVE  UNCHANGED <<poisoned, unsound, failed, failures>>
  BY <1>8 DEF TakeChunk, ReadChunk
<1>9. CASE \E w \in Workers : ChunkFails(x, w)
  BY <1>3, <1>9 DEF ChunkFails, ConnectFails, StatementFails
<1>10. CASE \E r \in Roles : TakeSession(x, r) \/ Destroy(x, r)
  BY <1>10 DEF TakeSession, Destroy
<1>11. CASE \E r \in Roles : OpenSession(x, r)
  <2>1. PICK r \in Roles : Connected(x, r) /\ UNCHANGED <<poisoned, queryVars, failures>>
    BY <1>11 DEF OpenSession
  <2>2. \/ unsound' = unsound
        \/ \E s \in Sessions : unsound' = [unsound EXCEPT ![s] = "no"]
    BY <2>1, ConnectedTakes
  <2> QED
    BY <2>1, <2>2
<1> QED
  BY <1>1, <1>4, <1>5, <1>6, <1>7, <1>8, <1>9, <1>10, <1>11 DEF ScanSteps

ScanTyped ==
    /\ stage \in [Scans -> Stages]
    /\ kind \in [Scans -> AllKinds]
    /\ scn \in [Scans -> 0..MaximumMoments]

ChunkTyped ==
    /\ next_chunk \in [Scans -> 0..Chunks]
    /\ chunk \in [Scans -> [Workers -> 0..Chunks]]
    /\ read \in [Scans -> [1..Chunks -> Nat]]

MomentTyped ==
    /\ lock \in Scans \cup {"none"}
    /\ snapshot \in [query : 0..MaximumQueries, scn : 0..MaximumMoments]
    /\ query \in 0..MaximumQueries
    /\ now \in 1..MaximumMoments
    /\ began \in 1..MaximumMoments
    /\ moments \in [Scans -> SUBSET (1..MaximumMoments)]

FailureTyped ==
    /\ poisoned \in [Scans -> SUBSET Roles]
    /\ unsound \in [Sessions -> {"no", "scan", "text"}]
    /\ failures \in 0..MaximumFailures
    /\ running \in BOOLEAN /\ failed \in BOOLEAN
    /\ consistent \in BOOLEAN /\ pinned \in BOOLEAN

LEMMA TypeOKParts ==
    TypeOK <=> PoolTyped /\ ScanTyped /\ ChunkTyped /\ MomentTyped /\ FailureTyped
BY DEF TypeOK, PoolTyped, ScanTyped, ChunkTyped, MomentTyped, FailureTyped

LEMMA BoundsTyped ==
    /\ Chunks \in Nat \ {0} /\ MaximumQueries \in Nat /\ MaximumFailures \in Nat
    /\ MaximumMoments \in Nat \ {0}
BY ScansAssumption DEF ScansAssumption

LEMMA KnownTyped ==
    ASSUME MomentTyped
    PROVE  KnownMoment \in [query : 0..MaximumQueries, scn : 0..MaximumMoments]
BY BoundsTyped DEF MomentTyped, KnownMoment

LEMMA ScanTypedStep ==
    ASSUME ScanTyped, MomentTyped, [Next]_vars
    PROVE  ScanTyped'
<1>1. ASSUME UNCHANGED <<stage, kind, scn>> PROVE ScanTyped'
  BY <1>1 DEF ScanTyped
<1>2. CASE UNCHANGED vars
  BY <1>1, <1>2 DEF vars
<1>3. CASE QueryFails \/ WriterPins \/ TimePasses
  BY <1>1, <1>3 DEF QueryFails, WriterPins, TimePasses, scanVars
<1>4. CASE QueryBegins
  <2>1. /\ kind' \in [Scans -> PlannedKinds] /\ PlannedKinds \subseteq AllKinds
        /\ stage' = [x \in Scans |-> "new"] /\ "new" \in Stages
        /\ scn' = scn
    BY <1>4, ScansAssumption DEF QueryBegins, PlannedKinds, ScansAssumption, Stages
  <2> QED
    BY <2>1 DEF ScanTyped
<1>5. CASE QueryEnds
  <2>1. /\ kind' = [x \in Scans |-> "statement"] /\ "statement" \in AllKinds
        /\ scn' = [x \in Scans |-> 0] /\ 0 \in 0..MaximumMoments
        /\ stage' = stage
    BY <1>5, BoundsTyped DEF QueryEnds, AllKinds
  <2> QED
    BY <2>1 DEF ScanTyped
<1>6. ASSUME NEW x \in Scans, ScanSteps(x)
      PROVE  ScanTyped'
  <2>1. stage' = stage \/ \E to \in Stages : stage' = [stage EXCEPT ![x] = to]
    BY <1>6, ScanMoves
  <2>2. kind' = kind \/ \E k \in AllKinds : kind' = [kind EXCEPT ![x] = k]
    BY <1>6, ScanMoves DEF AllKinds
  <2>3. {now, scn[x], KnownMoment.scn} \subseteq 0..MaximumMoments
    BY KnownTyped, BoundsTyped DEF ScanTyped, MomentTyped
  <2>4. scn' = scn \/ \E n \in 0..MaximumMoments : scn' = [scn EXCEPT ![x] = n]
    BY <1>6, <2>3, ScanMoves
  <2> QED
    BY <2>1, <2>2, <2>4 DEF ScanTyped
<1> QED
  BY <1>2, <1>3, <1>4, <1>5, <1>6 DEF Next, QuerySteps

LEMMA ChunkTypedStep ==
    ASSUME ChunkTyped, [Next]_vars
    PROVE  ChunkTyped'
<1>1. ASSUME UNCHANGED <<next_chunk, chunk, read>> PROVE ChunkTyped'
  BY <1>1 DEF ChunkTyped
<1>2. CASE UNCHANGED vars
  BY <1>1, <1>2 DEF vars
<1>3. CASE QueryFails \/ WriterPins \/ TimePasses \/ QueryBegins
  BY <1>1, <1>3 DEF QueryFails, WriterPins, TimePasses, QueryBegins, scanVars, history
<1>4. CASE QueryEnds
  <2>1. /\ next_chunk' = [x \in Scans |-> 0] /\ 0 \in 0..Chunks
        /\ read' = [x \in Scans |-> [c \in 1..Chunks |-> 0]]
        /\ chunk' = chunk
    BY <1>4, BoundsTyped DEF QueryEnds
  <2> QED
    BY <2>1 DEF ChunkTyped
<1>5. ASSUME NEW x \in Scans, Abandon(x)
      PROVE  ChunkTyped'
  <2>1. 0 \in 0..Chunks
    BY BoundsTyped
  <2> QED
    BY <1>5, <2>1 DEF Abandon, ChunkTyped, history
<1>6. ASSUME NEW x \in Scans, NEW w \in Workers, TakeChunk(x, w)
      PROVE  ChunkTyped'
  <2>1. next_chunk[x] + 1 \in 0..Chunks
    BY <1>6, BoundsTyped DEF TakeChunk, ChunkTyped
  <2>2. /\ chunk' = [chunk EXCEPT ![x][w] = next_chunk[x] + 1]
        /\ next_chunk' = [next_chunk EXCEPT ![x] = next_chunk[x] + 1]
        /\ read' = read
    BY <1>6 DEF TakeChunk, history
  <2> QED
    BY <2>1, <2>2 DEF ChunkTyped
<1>7. ASSUME NEW x \in Scans, NEW w \in Workers, ReadChunk(x, w)
      PROVE  ChunkTyped'
  <2>1. 0 \in 0..Chunks /\ chunk[x][w] \in 1..Chunks
    BY <1>7, BoundsTyped DEF ReadChunk, ChunkTyped
  <2>2. read[x][chunk[x][w]] + 1 \in Nat
    <3>1. read[x] \in [1..Chunks -> Nat]
      BY DEF ChunkTyped
    <3>2. read[x][chunk[x][w]] \in Nat
      BY <2>1, <3>1
    <3> QED
      BY <3>2
  <2>3. /\ read' = [read EXCEPT ![x][chunk[x][w]] = read[x][chunk[x][w]] + 1]
        /\ chunk' = [chunk EXCEPT ![x][w] = 0]
        /\ next_chunk' = next_chunk
    BY <1>7 DEF ReadChunk
  <2> QED
    BY <2>1, <2>2, <2>3 DEF ChunkTyped
<1>8. ASSUME NEW x \in Scans, NEW w \in Workers, ChunkFails(x, w)
      PROVE  ChunkTyped'
  <2>1. 0 \in 0..Chunks
    BY BoundsTyped
  <2> QED
    BY <1>8, <2>1 DEF ChunkFails, ChunkTyped, history
<1>9. ASSUME NEW x \in Scans, ScanSteps(x)
      PROVE  ChunkTyped'
  BY <1>1, <1>5, <1>6, <1>7, <1>8, <1>9, ReadMoves
<1> QED
  BY <1>2, <1>3, <1>4, <1>9 DEF Next, QuerySteps

LEMMA MomentTypedStep ==
    ASSUME ScanTyped, MomentTyped, [Next]_vars
    PROVE  MomentTyped'
<1>1. CASE UNCHANGED vars
  BY <1>1 DEF MomentTyped, vars
<1>2. CASE QueryFails \/ WriterPins
  BY <1>2 DEF QueryFails, WriterPins, MomentTyped, snapshotVars, history, outside
<1>3. CASE TimePasses
  BY <1>3, BoundsTyped DEF TimePasses, MomentTyped, snapshotVars, history, queryVars
<1>4. CASE QueryBegins
  BY <1>4, BoundsTyped DEF QueryBegins, MomentTyped, snapshotVars, history, outside
<1>5. CASE QueryEnds
  BY <1>5, BoundsTyped DEF QueryEnds, MomentTyped, snapshotVars, outside
<1>6. ASSUME NEW x \in Scans, ScanSteps(x)
      PROVE  MomentTyped'
  <2>1. UNCHANGED <<query, now, began>>
    BY <1>6, ScanMoves
  <2>2. ASSUME NEW r, ReadsAt(x, r)
        PROVE  moments' \in [Scans -> SUBSET (1..MaximumMoments)]
    <3>1. (IF scn[x] = 0 THEN now ELSE scn[x]) \in 1..MaximumMoments
      BY BoundsTyped DEF ScanTyped, MomentTyped
    <3> QED
      BY <2>2, <3>1 DEF ReadsAt, MomentTyped
  <2>3. moments' \in [Scans -> SUBSET (1..MaximumMoments)]
    BY <1>6, <2>2, MomentMoves DEF MomentTyped
  <2>4. ASSUME AskMoment(x)
        PROVE  /\ lock' \in Scans \cup {"none"}
               /\ snapshot' \in [query : 0..MaximumQueries, scn : 0..MaximumMoments]
    BY <2>4, KnownTyped DEF AskMoment, MomentTyped, snapshotVars
  <2>5. ASSUME MomentAnswered(x) \/ AskFails(x)
        PROVE  /\ lock' \in Scans \cup {"none"}
               /\ snapshot' \in [query : 0..MaximumQueries, scn : 0..MaximumMoments]
    <3>1. now \in 0..MaximumMoments
      BY BoundsTyped DEF MomentTyped
    <3>2. snapshot' = snapshot \/ snapshot' = [snapshot EXCEPT !.scn = now]
      BY <2>5 DEF MomentAnswered, AskFails
    <3>3. lock' = "none"
      BY <2>5 DEF MomentAnswered, AskFails
    <3> QED
      BY <3>1, <3>2, <3>3 DEF MomentTyped
  <2>6. /\ lock' \in Scans \cup {"none"}
        /\ snapshot' \in [query : 0..MaximumQueries, scn : 0..MaximumMoments]
    BY <1>6, <2>4, <2>5, MomentMoves DEF MomentTyped
  <2> QED
    BY <2>1, <2>3, <2>6 DEF MomentTyped
<1> QED
  BY <1>1, <1>2, <1>3, <1>4, <1>5, <1>6 DEF Next, QuerySteps

LEMMA FailureTypedStep ==
    ASSUME PoolTyped, Counted, FailureTyped, [Next]_vars
    PROVE  FailureTyped'
<1>1. CASE UNCHANGED vars
  BY <1>1 DEF FailureTyped, vars
<1>2. CASE QueryFails \/ WriterPins
  <2>1. /\ UNCHANGED <<poisoned, unsound, running, consistent>>
        /\ failed' = TRUE \/ failed' = failed
        /\ pinned' = TRUE \/ pinned' = pinned
        /\ failures' = failures \/ (failures < MaximumFailures /\ failures' = failures + 1)
    BY <1>2 DEF QueryFails, WriterPins, leaseVars, outside
  <2>2. failures' \in 0..MaximumFailures
    BY <2>1, BoundsTyped DEF FailureTyped
  <2> QED
    BY <2>1, <2>2 DEF FailureTyped
<1>3. CASE TimePasses
  BY <1>3 DEF TimePasses, FailureTyped, leaseVars, queryVars
<1>4. CASE QueryBegins
  BY <1>4 DEF QueryBegins, FailureTyped, leaseVars, outside
<1>5. CASE QueryEnds
  BY <1>5 DEF QueryEnds, FailureTyped, outside
<1>6. ASSUME NEW x \in Scans, ScanSteps(x)
      PROVE  FailureTyped'
  <2>1. UNCHANGED <<running, consistent, pinned>>
    BY <1>6, ScanMoves
  <2>2. /\ \/ poisoned' = poisoned
           \/ \E r \in Roles : poisoned' = [poisoned EXCEPT ![x] = @ \cup {r}]
        /\ \/ unsound' = unsound
           \/ \E s \in Sessions, whose \in {"no", "scan", "text"} :
                 unsound' = [unsound EXCEPT ![s] = whose]
        /\ failed' = failed \/ failed' = TRUE
        /\ failures' = failures \/ (failures < MaximumFailures /\ failures' = failures + 1)
    BY <1>6, FailureMoves
  <2>3. poisoned' \in [Scans -> SUBSET Roles]
    BY <2>2 DEF FailureTyped
  <2>4. unsound' \in [Sessions -> {"no", "scan", "text"}]
    BY <2>2 DEF FailureTyped
  <2>5. failed' \in BOOLEAN
    BY <2>2 DEF FailureTyped
  <2>6. failures' \in 0..MaximumFailures
    BY <2>2, BoundsTyped DEF FailureTyped
  <2> QED
    BY <2>1, <2>3, <2>4, <2>5, <2>6 DEF FailureTyped
<1> QED
  BY <1>1, <1>2, <1>3, <1>4, <1>5, <1>6 DEF Next, QuerySteps

LEMMA TypeOKStep ==
    ASSUME TypeOK, Counted, PoolTyped', [Next]_vars
    PROVE  TypeOK'
<1>1. PoolTyped /\ ScanTyped /\ ChunkTyped /\ MomentTyped /\ FailureTyped
  BY TypeOKParts
<1>2. ScanTyped' /\ ChunkTyped' /\ MomentTyped' /\ FailureTyped'
  BY <1>1, ScanTypedStep, ChunkTypedStep, MomentTypedStep, FailureTypedStep
<1> QED
  BY <1>2, TypeOKParts, PTL

(* A step of a scan changes one of its handles, if any, ...                *)
LEMMA LeaseMoves ==
    ASSUME PoolTyped, Counted, NEW x \in Scans, ScanSteps(x)
    PROVE  lease' = lease \/ \E r \in Roles, v \in Handles : lease' = [lease EXCEPT ![x][r] = v]
<1>1. {"scan", "text"} \subseteq Roles /\ Workers \subseteq Roles
  BY Words
<1>2. {"none", "borrowed", "connecting", "opening", "owned"} \subseteq Handles
  BY Words
<1>3. ASSUME NEW r, NEW poison, Release(x, r, poison)
      PROVE  lease' = [lease EXCEPT ![x][r] = "none"]
  BY <1>3 DEF Release
<1>4. ASSUME NEW r, NEW whose, NEW poison, FailsAndDrops(x, r, whose, poison)
      PROVE  lease' = [lease EXCEPT ![x][r] = "none"]
  BY <1>3, <1>4 DEF FailsAndDrops, ConnectFails
<1>5. CASE \/ Begin(x) \/ AskMoment(x) \/ Plan(x) \/ Fetched(x) \/ FetchFails(x)
           \/ AllChunksTaken(x) \/ Abandon(x)
  BY <1>5 DEF Begin, AskMoment, Plan, Fetched, FetchFails, AllChunksTaken, Abandon, leaseVars
<1>6. CASE MomentAnswered(x) \/ HeapAnswered(x) \/ Opened(x)
  BY <1>1, <1>2, <1>3, <1>6 DEF MomentAnswered, HeapAnswered, Opened
<1>7. CASE AskFails(x) \/ HeapFails(x) \/ OpenFails(x)
  BY <1>1, <1>2, <1>4, <1>7 DEF AskFails, HeapFails, OpenFails
<1>8. ASSUME NEW w \in Workers, TakeChunk(x, w) \/ ReadChunk(x, w) \/ ChunkFails(x, w)
      PROVE  lease' = lease \/ lease' = [lease EXCEPT ![x][w] = "none"]
  BY <1>8 DEF TakeChunk, ReadChunk, ChunkFails, ConnectFails, leaseVars
<1>9. ASSUME NEW r \in Roles, TakeSession(x, r)
      PROVE  \E v \in Handles : lease' = [lease EXCEPT ![x][r] = v]
  <2>1. idle # <<>> => Last(idle) \in Handles
    BY TakeLast, Words DEF PoolTyped, Counted
  <2> QED
    BY <1>2, <1>9, <2>1 DEF TakeSession, Acquire
<1>10. ASSUME NEW r \in Roles, OpenSession(x, r)
       PROVE  \E v \in Handles : lease' = [lease EXCEPT ![x][r] = v]
  BY <1>2, <1>10, ConnectedTakes, Words DEF OpenSession
<1>11. ASSUME NEW r \in Roles, Destroy(x, r)
       PROVE  lease' = [lease EXCEPT ![x][r] = "none"]
  BY <1>3, <1>11 DEF Destroy
<1> QED
  BY <1>1, <1>2, <1>5, <1>6, <1>7, <1>8, <1>9, <1>10, <1>11 DEF ScanSteps

(* ... and nothing of another scan.                                        *)
LEMMA OnlyOne ==
    ASSUME TypeOK, Counted, NEW x \in Scans, NEW y \in Scans, y # x, ScanSteps(x)
    PROVE  /\ stage'[y] = stage[y] /\ kind'[y] = kind[y] /\ scn'[y] = scn[y]
           /\ next_chunk'[y] = next_chunk[y] /\ chunk'[y] = chunk[y] /\ read'[y] = read[y]
           /\ moments'[y] = moments[y] /\ poisoned'[y] = poisoned[y] /\ lease'[y] = lease[y]
<1>0. PoolTyped /\ ScanTyped /\ ChunkTyped /\ MomentTyped /\ FailureTyped
  BY TypeOKParts
<1>1. stage'[y] = stage[y] /\ kind'[y] = kind[y] /\ scn'[y] = scn[y]
  BY <1>0, ScanMoves DEF ScanTyped
<1>2. next_chunk'[y] = next_chunk[y] /\ chunk'[y] = chunk[y] /\ read'[y] = read[y]
  <2>1. ASSUME NEW w \in Workers, TakeChunk(x, w) \/ ReadChunk(x, w) \/ ChunkFails(x, w)
        PROVE  next_chunk'[y] = next_chunk[y] /\ chunk'[y] = chunk[y] /\ read'[y] = read[y]
    BY <1>0, <2>1 DEF ChunkTyped, TakeChunk, ReadChunk, ChunkFails, history
  <2>2. CASE Abandon(x)
    BY <1>0, <2>2 DEF ChunkTyped, Abandon, history
  <2> QED
    BY <2>1, <2>2, ReadMoves
<1>3. moments'[y] = moments[y]
  BY <1>0, MomentMoves DEF MomentTyped, ReadsAt
<1>4. poisoned'[y] = poisoned[y]
  BY <1>0, FailureMoves DEF FailureTyped
<1>5. lease'[y] = lease[y]
  BY <1>0, LeaseMoves DEF PoolTyped
<1> QED
  BY <1>1, <1>2, <1>3, <1>4, <1>5

-----------------------------------------------------------------------------
(* Stages                                                                  *)

StagedOne(x) ==
    /\ stage[x] \in Ahead => poisoned[x] = {} /\ moments[x] = {} /\ next_chunk[x] = 0
    /\ kind[x] = "statement" => stage[x] \in {"new", "open", "run", "done"}
    /\ \A w \in Workers : chunk[x][w] # 0 => stage[x] = "run" /\ kind[x] = "parallel"
    /\ stage[x] = "run" /\ kind[x] = "parallel" => lease[x]["scan"] = "none"

WantedOne(x) ==
    \A r \in Roles : lease[x][r] \in {"connecting", "opening"} => Needs(x, r)

LEMMA StagedByOne ==
    /\ Staged <=> \A x \in Scans : StagedOne(x)
    /\ Wanted <=> \A x \in Scans : WantedOne(x)
BY DEF Staged, StagedOne, Wanted, WantedOne

LEMMA StagedOneStep ==
    ASSUME TypeOK, Counted, Staged, NEW x \in Scans, ScanSteps(x)
    PROVE  StagedOne(x)'
<1>0. PoolTyped /\ ScanTyped /\ ChunkTyped /\ MomentTyped /\ FailureTyped
  BY TypeOKParts
<1>1. {"scan", "text"} \subseteq Roles /\ Workers \subseteq Roles
  BY Words
<1>2. StagedOne(x)
  BY StagedByOne
<1> USE DEF ScanTyped, Go, Ahead
<1>3. CASE Begin(x) \/ AskMoment(x) \/ Plan(x)
  BY <1>0, <1>2, <1>3 DEF Begin, AskMoment, Plan, StagedOne, AfterMoment, history, leaseVars,
       scanVars
<1>4. CASE MomentAnswered(x) \/ AskFails(x)
  BY <1>0, <1>2, <1>4 DEF MomentAnswered, AskFails, StagedOne, AfterMoment, history
<1>5. CASE HeapAnswered(x) \/ HeapFails(x)
  BY <1>0, <1>2, <1>5 DEF HeapAnswered, HeapFails, StagedOne, history
<1>6. CASE Opened(x)
  BY <1>0, <1>1, <1>2, <1>6 DEF Opened, StagedOne, Release, PoolTyped
<1>7. CASE OpenFails(x)
  BY <1>0, <1>2, <1>7 DEF OpenFails, StagedOne, history
<1>8. CASE Fetched(x) \/ FetchFails(x) \/ AllChunksTaken(x)
  <2>1. ASSUME NEW w \in Workers PROVE chunk[x][w] = 0
    BY <1>1, <1>2, <1>8, Words DEF Fetched, FetchFails, AllChunksTaken, StagedOne, StatementFails,
         Held
  <2> QED
    BY <1>0, <1>2, <1>8, <2>1 DEF Fetched, FetchFails, AllChunksTaken, StagedOne
<1>9. CASE Abandon(x)
  BY <1>0, <1>2, <1>9 DEF Abandon, StagedOne, ChunkTyped
<1>10. ASSUME NEW w \in Workers, TakeChunk(x, w)
       PROVE  StagedOne(x)'
  BY <1>0, <1>2, <1>10 DEF TakeChunk, StagedOne, ChunkTyped, leaseVars, history
<1>11. ASSUME NEW w \in Workers, ReadChunk(x, w)
       PROVE  StagedOne(x)'
  BY <1>0, <1>2, <1>11 DEF ReadChunk, StagedOne, ChunkTyped, leaseVars
<1>12. ASSUME NEW w \in Workers, ChunkFails(x, w)
       PROVE  StagedOne(x)'
  <2>1. w # "scan" /\ w \in Roles
    BY ScansAssumption DEF ScansAssumption, Roles
  <2> QED
    BY <1>0, <1>1, <1>2, <1>12, <2>1 DEF ChunkFails, StagedOne, ChunkTyped, ConnectFails,
         PoolTyped, history
<1>13. ASSUME NEW r \in Roles, TakeSession(x, r) \/ OpenSession(x, r)
       PROVE  StagedOne(x)'
  <2>1. /\ UNCHANGED <<stage, kind, poisoned, moments, next_chunk, chunk>>
        /\ stage[x] = "run" /\ kind[x] = "parallel" => lease'[x]["scan"] = lease[x]["scan"]
    <3>1. r = "scan" /\ stage[x] = "run" /\ kind[x] = "parallel" => lease[x]["scan"] = "none"
      BY <1>2 DEF StagedOne
    <3>2. ~(r = "scan" /\ stage[x] = "run" /\ kind[x] = "parallel" /\ TakeSession(x, r))
      BY ScansAssumption DEF TakeSession, Needs, ScansAssumption
    <3>3. ~(r = "scan" /\ stage[x] = "run" /\ kind[x] = "parallel" /\ OpenSession(x, r))
      BY <3>1 DEF OpenSession, Connected
    <3>4. \E v : lease' = [lease EXCEPT ![x][r] = v]
      BY <1>13 DEF TakeSession, Acquire, OpenSession, Connected
    <3> QED
      BY <1>0, <1>1, <1>13, <3>2, <3>3, <3>4 DEF PoolTyped, TakeSession, OpenSession, scanVars,
           history
  <2> QED
    BY <1>2, <2>1 DEF StagedOne
<1>14. ASSUME NEW r \in Roles, Destroy(x, r)
       PROVE  StagedOne(x)'
  BY <1>2, <1>14 DEF Destroy, StagedOne, scanVars, history
<1> QED
  BY <1>3, <1>4, <1>5, <1>6, <1>7, <1>8, <1>9, <1>10, <1>11, <1>12, <1>13, <1>14 DEF ScanSteps

LEMMA WantedOneStep ==
    ASSUME TypeOK, Counted, Staged, Wanted, NEW x \in Scans, ScanSteps(x)
    PROVE  WantedOne(x)'
<1>0. PoolTyped /\ ScanTyped /\ ChunkTyped /\ MomentTyped /\ FailureTyped
  BY TypeOKParts
<1>1. /\ {"scan", "text"} \subseteq Roles /\ Workers \subseteq Roles
      /\ "scan" \notin Workers /\ "text" \notin Workers
  BY Words, ScansAssumption DEF ScansAssumption
<1>2. StagedOne(x) /\ WantedOne(x)
  BY StagedByOne
(* A handle that goes on connecting is still needed.                       *)
<1>3. ASSUME lease' = lease \/ \E q \in Roles : lease' = [lease EXCEPT ![x][q] = "none"],
             \A r \in Roles : lease'[x][r] \in {"connecting", "opening"} /\ Needs(x, r)
                                => Needs(x, r)'
      PROVE  WantedOne(x)'
  <2>1. ASSUME NEW r \in Roles, lease'[x][r] \in {"connecting", "opening"}
        PROVE  lease[x][r] \in {"connecting", "opening"}
    BY <1>0, <1>3, <2>1 DEF PoolTyped
  <2> QED
    BY <1>2, <1>3, <2>1 DEF WantedOne
<1>4. ASSUME NEW r, NEW whose, NEW poison, FailsAndDrops(x, r, whose, poison)
      PROVE  lease' = [lease EXCEPT ![x][r] = "none"]
  BY <1>4 DEF FailsAndDrops, ConnectFails, Release
<1> USE DEF Go
<1>5. CASE Begin(x) \/ Plan(x)
  <2>1. lease' = lease /\ \A r \in Roles : ~Needs(x, r)
    BY <1>1, <1>2, <1>5 DEF Begin, Plan, Needs, StagedOne, leaseVars
  <2> QED
    BY <1>3, <2>1
<1>6. CASE AskMoment(x)
  <2>1. lease' = lease /\ \A r \in Roles :
            Needs(x, r) => r = "scan" /\ kind[x] = "aggregate" /\ lease[x][r] \in Held
    BY <1>1, <1>2, <1>6 DEF AskMoment, Needs, StagedOne, leaseVars
  <2> QED
    BY <1>3, <2>1 DEF Held
<1>7. CASE MomentAnswered(x) \/ AskFails(x) \/ HeapAnswered(x) \/ HeapFails(x)
  <2>1. lease' = [lease EXCEPT ![x]["text"] = "none"]
    BY <1>4, <1>7 DEF MomentAnswered, AskFails, HeapAnswered, HeapFails, Release
  <2>2. \A r \in Roles : Needs(x, r) => r = "text"
    BY <1>1, <1>2, <1>7 DEF MomentAnswered, AskFails, HeapAnswered, HeapFails, Needs, StagedOne
  <2>3. lease'[x]["text"] = "none"
    BY <1>0, <1>1, <2>1 DEF PoolTyped
  <2> QED
    BY <1>1, <1>3, <2>1, <2>2, <2>3
<1>8. CASE Opened(x)
  <2>1. lease' = lease \/ lease' = [lease EXCEPT ![x]["scan"] = "none"]
    BY <1>8 DEF Opened, Release
  <2>2. \A r \in Roles : Needs(x, r) => r = "scan"
    BY <1>1, <1>2, <1>8 DEF Opened, Needs, StagedOne
  <2>3. lease'[x]["scan"] = "none" \/ lease'[x]["scan"] \in Held
    BY <1>0, <1>1, <1>8, <2>1 DEF PoolTyped, Opened
  <2> QED
    BY <1>1, <1>3, <2>1, <2>2, <2>3 DEF Held
<1>9. CASE OpenFails(x)
  <2>1. lease' = [lease EXCEPT ![x]["scan"] = "none"]
    BY <1>4, <1>9 DEF OpenFails
  <2>2. \A r \in Roles : Needs(x, r) => r = "scan"
    BY <1>1, <1>2, <1>9 DEF OpenFails, Needs, StagedOne
  <2>3. lease'[x]["scan"] = "none"
    BY <1>0, <1>1, <2>1 DEF PoolTyped
  <2> QED
    BY <1>1, <1>3, <2>1, <2>2, <2>3
<1>10. CASE Fetched(x) \/ FetchFails(x) \/ AllChunksTaken(x) \/ Abandon(x)
  <2>1. lease' = lease
    BY <1>10 DEF Fetched, FetchFails, AllChunksTaken, Abandon, leaseVars
  <2>2. CASE Abandon(x)
    BY <2>1, <2>2 DEF Abandon, WantedOne
  <2>3. CASE Fetched(x) \/ FetchFails(x) \/ AllChunksTaken(x)
    <3>1. ASSUME NEW w \in Workers PROVE chunk[x][w] = 0
      BY <1>1, <1>2, <2>3, Words DEF Fetched, FetchFails, AllChunksTaken, StagedOne,
           StatementFails, Held
    <3>2. \A r \in Roles : ~Needs(x, r)
      BY <1>1, <2>3, <3>1 DEF Fetched, FetchFails, AllChunksTaken, Needs
    <3> QED
      BY <1>3, <2>1, <3>2
  <2> QED
    BY <1>10, <2>2, <2>3
<1>11. ASSUME NEW w \in Workers, TakeChunk(x, w) \/ ReadChunk(x, w) \/ ChunkFails(x, w)
       PROVE  WantedOne(x)'
  <2>1. lease' = lease \/ lease' = [lease EXCEPT ![x][w] = "none"]
    BY <1>11 DEF TakeChunk, ReadChunk, ChunkFails, ConnectFails, leaseVars
  <2>2. /\ stage' = stage /\ kind' = kind
        /\ \A v \in Workers : v # w => chunk'[x][v] = chunk[x][v]
    BY <1>0, <1>11 DEF TakeChunk, ReadChunk, ChunkFails, ChunkTyped
  <2>3. chunk'[x][w] = 0 => lease'[x][w] \notin {"connecting", "opening"}
    <3>1. CASE TakeChunk(x, w)
      BY <1>0, <3>1, BoundsTyped DEF TakeChunk, ChunkTyped
    <3>2. CASE ReadChunk(x, w)
      BY <3>2 DEF ReadChunk, Held, leaseVars
    <3>3. CASE ChunkFails(x, w)
      BY <1>0, <1>1, <3>3 DEF ChunkFails, ConnectFails, StatementFails, Held, PoolTyped
    <3> QED
      BY <1>11, <3>1, <3>2, <3>3
  <2>4. ASSUME NEW r \in Roles, lease'[x][r] \in {"connecting", "opening"}, Needs(x, r)
        PROVE  Needs(x, r)'
    <3>1. CASE r \in Workers
      <4>1. chunk'[x][r] # 0
        BY <2>2, <2>3, <2>4, <3>1, <1>1 DEF Needs
      <4> QED
        BY <3>1, <4>1 DEF Needs
    <3>2. CASE r \notin Workers
      BY <2>2, <2>4, <3>2 DEF Needs
    <3> QED
      BY <3>1, <3>2
  <2> QED
    BY <1>1, <1>3, <2>1, <2>4
<1>12. ASSUME NEW q \in Roles, TakeSession(x, q) \/ OpenSession(x, q)
       PROVE  WantedOne(x)'
  <2>1. UNCHANGED <<stage, kind, chunk>>
    BY <1>12 DEF TakeSession, OpenSession, scanVars
  <2>2. \A r \in Roles : Needs(x, r)' = Needs(x, r)
    BY <2>1 DEF Needs
  <2>3. Needs(x, q) \/ lease[x][q] \in {"connecting", "opening"}
    BY <1>12 DEF TakeSession, OpenSession, Connected
  <2>4. Needs(x, q)
    BY <1>2, <2>3 DEF WantedOne
  <2>5. \E v : lease' = [lease EXCEPT ![x][q] = v]
    BY <1>12 DEF TakeSession, Acquire, OpenSession, Connected
  <2>6. \A r \in Roles : r # q => lease'[x][r] = lease[x][r]
    BY <1>0, <2>5 DEF PoolTyped
  <2> QED
    BY <1>2, <2>2, <2>4, <2>6 DEF WantedOne
<1>13. ASSUME NEW q \in Roles, Destroy(x, q)
       PROVE  WantedOne(x)'
  <2>1. UNCHANGED <<stage, kind, chunk>> /\ lease' = [lease EXCEPT ![x][q] = "none"]
    BY <1>13 DEF Destroy, Release, scanVars
  <2>2. \A r \in Roles : Needs(x, r)' = Needs(x, r)
    BY <2>1 DEF Needs
  <2> QED
    BY <1>3, <2>1, <2>2
<1> QED
  BY <1>5, <1>6, <1>7, <1>8, <1>9, <1>10, <1>11, <1>12, <1>13 DEF ScanSteps

LEMMA StagedStep ==
    ASSUME TypeOK, Counted, Between, Staged, Wanted, [Next]_vars
    PROVE  Staged' /\ Wanted'
<1>1. CASE UNCHANGED vars
  BY <1>1 DEF vars, Staged, Wanted, Needs
<1>2. CASE QueryFails \/ WriterPins \/ TimePasses
  BY <1>2 DEF QueryFails, WriterPins, TimePasses, scanVars, leaseVars, history, Staged, Wanted,
       Needs
<1>3. CASE QueryBegins
  <2>1. ASSUME NEW x \in Scans
        PROVE  /\ next_chunk[x] = 0 /\ poisoned[x] = {} /\ moments[x] = {} /\ stage[x] = "done"
               /\ \A r \in Roles : lease[x][r] = "none"
    BY <1>3 DEF QueryBegins, Between
  <2>2. /\ UNCHANGED <<next_chunk, chunk, poisoned, lease, moments>>
        /\ \A x \in Scans : stage'[x] = "new"
    BY <1>3 DEF QueryBegins, leaseVars, history
  <2>3. \A x \in Scans, w \in Workers : chunk[x][w] = 0
    BY <2>1 DEF Staged
  <2> QED
    BY <2>1, <2>2, <2>3 DEF Staged, Wanted, Ahead
<1>4. CASE QueryEnds
  <2>1. \A x \in Scans : /\ stage'[x] = "done" /\ kind'[x] = "statement"
                         /\ \A r \in Roles : lease'[x][r] = "none"
    BY <1>4 DEF QueryEnds
  <2>2. \A x \in Scans, w \in Workers : chunk'[x][w] = 0
    BY <1>4 DEF QueryEnds, Staged
  <2> QED
    BY <2>1, <2>2 DEF Staged, Wanted, Ahead
<1>5. ASSUME NEW x \in Scans, ScanSteps(x)
      PROVE  Staged' /\ Wanted'
  <2>1. ASSUME NEW y \in Scans PROVE StagedOne(y)' /\ WantedOne(y)'
    <3>1. CASE y = x
      BY <1>5, <3>1, StagedOneStep, WantedOneStep
    <3>2. CASE y # x
      <4>1. StagedOne(y) /\ WantedOne(y)
        BY StagedByOne
      <4> QED
        BY <1>5, <3>2, <4>1, OnlyOne DEF StagedOne, WantedOne, Needs
    <3> QED
      BY <3>1, <3>2
  <2> QED
    BY <2>1 DEF Staged, StagedOne, Wanted, WantedOne
<1> QED
  BY <1>1, <1>2, <1>3, <1>4, <1>5 DEF Next, QuerySteps

LEMMA BetweenStep ==
    ASSUME TypeOK, Between, Staged, [Next]_vars
    PROVE  Between'
<1>1. CASE UNCHANGED vars
  BY <1>1 DEF vars, Between
<1>2. CASE QueryFails \/ WriterPins
  BY <1>2 DEF QueryFails, WriterPins, Between
<1>3. CASE TimePasses
  BY <1>3 DEF TimePasses, Between, scanVars, leaseVars, queryVars, history
<1>4. CASE QueryBegins
  BY <1>4 DEF QueryBegins, Between
<1>5. CASE QueryEnds
  BY <1>5 DEF QueryEnds, Between
<1>6. ASSUME NEW x \in Scans, ScanSteps(x)
      PROVE  Between'
  <2>1. running' = running
    BY <1>6, ScanMoves
  <2>2. CASE running
    BY <2>1, <2>2 DEF Between
  <2>3. CASE ~running
    <3>1. /\ stage[x] = "done" /\ kind[x] = "statement"
          /\ \A r \in Roles : lease[x][r] = "none"
          /\ \A w \in Workers : chunk[x][w] = 0
      BY <2>3 DEF Between, Staged
    <3>2. ~(\/ Begin(x) \/ AskMoment(x) \/ MomentAnswered(x) \/ AskFails(x)
            \/ Plan(x) \/ HeapAnswered(x) \/ HeapFails(x) \/ Opened(x) \/ OpenFails(x)
            \/ Fetched(x) \/ FetchFails(x) \/ AllChunksTaken(x) \/ Abandon(x))
      BY <3>1 DEF Begin, AskMoment, MomentAnswered, AskFails, Plan, HeapAnswered, HeapFails,
           Opened,
           OpenFails, Fetched, FetchFails, AllChunksTaken, Abandon
    <3>3. \A w \in Workers : ~(TakeChunk(x, w) \/ ReadChunk(x, w) \/ ChunkFails(x, w))
      BY <3>1 DEF TakeChunk, ReadChunk, ChunkFails
    <3>4. \A r \in Roles : ~(TakeSession(x, r) \/ OpenSession(x, r) \/ Destroy(x, r))
      BY <3>1 DEF TakeSession, OpenSession, Destroy, Needs, Connected
    <3> QED
      BY <1>6, <3>2, <3>3, <3>4 DEF ScanSteps
  <2> QED
    BY <2>2, <2>3
<1> QED
  BY <1>1, <1>2, <1>3, <1>4, <1>5, <1>6 DEF Next, QuerySteps

-----------------------------------------------------------------------------
(* Sessions on which a statement failed                                    *)

LEMMA MarkedStep ==
    ASSUME TypeOK, Counted, Between, Staged, Wanted, Marked, [Next]_vars
    PROVE  Marked'
<1>0. PoolTyped /\ ScanTyped /\ ChunkTyped /\ MomentTyped /\ FailureTyped
  BY TypeOKParts
<1>1. /\ {"scan", "text"} \subseteq Roles /\ Workers \subseteq Roles
      /\ "scan" \notin Workers /\ "text" \notin Workers
      /\ "none" \notin Sessions /\ "connecting" \notin Sessions /\ "owned" \notin Sessions
      /\ "borrowed" \notin Sessions /\ "opening" \notin Sessions
  BY Words, ScansAssumption DEF ScansAssumption
<1>2. ASSUME UNCHANGED <<idle, lease, unsound>>,
             \A y \in Scans : poisoned[y] \subseteq poisoned'[y]
      PROVE  Marked'
  BY <1>2 DEF Marked
<1>3. CASE UNCHANGED vars \/ QueryBegins \/ QueryFails \/ WriterPins \/ TimePasses
  <2>1. UNCHANGED <<idle, lease, unsound, poisoned>>
    BY <1>3 DEF vars, QueryBegins, QueryFails, WriterPins, TimePasses, pool, leaseVars, outside
  <2> QED
    BY <1>2, <2>1
<1>4. CASE QueryEnds
  <2>1. /\ UNCHANGED <<idle, lease, unsound>>
        /\ \A y \in Scans, r \in Roles : lease[y][r] = "none"
    BY <1>4 DEF QueryEnds, pool, outside
  <2> QED
    BY <1>1, <2>1 DEF Marked
(* A session is in one hand only.                                          *)
<1>5. ASSUME NEW x \in Scans, NEW r \in Roles, NEW y \in Scans, NEW q \in Roles,
             lease[x][r] \in Sessions, lease[y][q] = lease[x][r]
      PROVE  y = x /\ q = r
  <2>1. /\ <<x, r>> \in HandlesWith(Sessions) /\ <<y, q>> \in HandlesWith(Sessions)
        /\ <<x, r>>[1] = x /\ <<x, r>>[2] = r /\ <<y, q>>[1] = y /\ <<y, q>>[2] = q
    BY <1>5, HandleIsWith
  <2>2. <<x, r>> = <<y, q>>
    BY <1>5, <2>1 DEF Counted
  <2> QED
    BY <2>2
<1>6. ASSUME NEW x \in Scans, NEW r \in Roles, lease[x][r] \in Sessions
      PROVE  lease[x][r] \notin ToSet(idle)
  <2>1. <<x, r>> \in HandlesWith(Sessions) /\ <<x, r>>[1] = x /\ <<x, r>>[2] = r
    BY <1>6, HandleIsWith
  <2> QED
    BY <2>1 DEF Counted
(* A handle is given up.                                                   *)
<1>7. ASSUME NEW x \in Scans, NEW r \in Roles, NEW poison, Release(x, r, poison),
             lease[x][r] \in Sessions /\ ~poison => unsound'[lease[x][r]] # "scan",
             \/ unsound' = unsound
             \/ /\ lease[x][r] \in Sessions
                /\ \A s \in Sessions : s # lease[x][r] => unsound'[s] = unsound[s],
             \A y \in Scans : poisoned[y] \subseteq poisoned'[y]
      PROVE  Marked'
  <2>1. lease' = [lease EXCEPT ![x][r] = "none"]
    BY <1>7 DEF Release
  <2>2. \A y \in Scans, q \in Roles :
            \/ lease'[y][q] = "none"
            \/ /\ lease'[y][q] = lease[y][q] /\ <<y, q>> # <<x, r>>
    BY <1>0, <2>1 DEF PoolTyped
  <2>3. ToSet(idle) \subseteq Sessions
    BY <1>0, SetOfSeq DEF PoolTyped
  <2>4. \/ idle' = idle
        \/ /\ lease[x][r] \in Sessions /\ ~poison
           /\ idle' = Append(idle, lease[x][r])
    BY <1>7 DEF Release, pool
  <2>5. ASSUME NEW s \in ToSet(idle')
        PROVE  unsound'[s] # "scan"
    <3>1. s \in ToSet(idle) \/ (s = lease[x][r] /\ lease[x][r] \in Sessions /\ ~poison)
      <4>1. CASE idle' = idle
        BY <2>5, <4>1
      <4>2. CASE /\ lease[x][r] \in Sessions /\ ~poison
                 /\ idle' = Append(idle, lease[x][r])
        <5>1. idle \in Seq(Sessions) /\ IsInjective(idle) /\ lease[x][r] \notin ToSet(idle)
          BY <1>0, <1>6, <4>2 DEF PoolTyped, Counted
        <5>2. ToSet(idle') = ToSet(idle) \cup {lease[x][r]}
          BY <4>2, <5>1, ReturnLast
        <5> QED
          BY <2>5, <4>2, <5>2
      <4> QED
        BY <2>4, <4>1, <4>2
    <3>2. CASE s \in ToSet(idle)
      <4>1. unsound[s] # "scan" /\ s \in Sessions
        BY <2>3, <3>2 DEF Marked
      <4>2. lease[x][r] \in Sessions => s # lease[x][r]
        BY <1>6, <3>2
      <4> QED
        BY <1>7, <4>1, <4>2
    <3>3. CASE s = lease[x][r] /\ lease[x][r] \in Sessions /\ ~poison
      BY <1>7, <3>3
    <3> QED
      BY <3>1, <3>2, <3>3
  <2>6. ASSUME NEW y \in Scans, NEW q \in Roles,
               lease'[y][q] \in Sessions, unsound'[lease'[y][q]] = "scan"
        PROVE  q # "text" /\ q \in poisoned'[y]
    <3>1. lease'[y][q] = lease[y][q] /\ <<y, q>> # <<x, r>>
      BY <1>1, <2>2, <2>6
    <3>2. lease[x][r] \in Sessions => lease[y][q] # lease[x][r]
      BY <1>5, <2>6, <3>1
    <3>3. unsound'[lease[y][q]] = unsound[lease[y][q]]
      BY <1>7, <2>6, <3>1, <3>2
    <3> QED
      BY <1>7, <2>6, <3>1, <3>3 DEF Marked
  <2> QED
    BY <2>5, <2>6 DEF Marked
<1>8. ASSUME NEW x \in Scans, NEW r \in Roles, ConnectFails(x, r), UNCHANGED <<idle, unsound>>,
             \A y \in Scans : poisoned[y] \subseteq poisoned'[y]
      PROVE  Marked'
  <2>1. lease' = [lease EXCEPT ![x][r] = "none"]
    BY <1>8 DEF ConnectFails
  <2>2. \A y \in Scans, q \in Roles : lease'[y][q] = "none" \/ lease'[y][q] = lease[y][q]
    BY <1>0, <2>1 DEF PoolTyped
  <2> QED
    BY <1>1, <1>8, <2>2 DEF Marked
<1>9. ASSUME NEW x \in Scans, NEW r \in Roles, NEW whose, NEW poison,
             FailsAndDrops(x, r, whose, poison), ~poison => whose # "scan",
             \A y \in Scans : poisoned[y] \subseteq poisoned'[y]
      PROVE  Marked'
  <2>1. CASE ConnectFails(x, r) /\ UNCHANGED <<idle, unsound>>
    BY <1>8, <1>9, <2>1
  <2>2. CASE StatementFails(x, r, whose) /\ Release(x, r, poison)
    <3>1. lease[x][r] \in Sessions => unsound' = [unsound EXCEPT ![lease[x][r]] = whose]
      BY <2>2 DEF StatementFails
    <3>2. lease[x][r] \notin Sessions => unsound' = unsound
      BY <2>2 DEF StatementFails
    <3>3. lease[x][r] \in Sessions =>
            /\ unsound'[lease[x][r]] = whose
            /\ \A s \in Sessions : s # lease[x][r] => unsound'[s] = unsound[s]
      BY <1>0, <3>1 DEF FailureTyped
    <3> QED
      BY <1>7, <1>9, <2>2, <3>2, <3>3
  <2> QED
    BY <1>9, <2>1, <2>2 DEF FailsAndDrops
(* A statement fails, and the handle stays.                                *)
<1>10. ASSUME NEW x \in Scans, NEW r \in Roles, StatementFails(x, r, "scan"), r # "text",
              UNCHANGED <<idle, lease>>, poisoned' = [poisoned EXCEPT ![x] = @ \cup {r}]
       PROVE  Marked'
  <2>1. \A y \in Scans : poisoned[y] \subseteq poisoned'[y]
    BY <1>0, <1>10 DEF FailureTyped
  <2>2. r \in poisoned'[x]
    BY <1>0, <1>10 DEF FailureTyped
  <2>3. CASE lease[x][r] \in Sessions
    <3>1. unsound' = [unsound EXCEPT ![lease[x][r]] = "scan"]
      BY <1>10, <2>3 DEF StatementFails
    <3>2. \A s \in Sessions : s # lease[x][r] => unsound'[s] = unsound[s]
      BY <1>0, <3>1 DEF FailureTyped
    <3>3. ToSet(idle) \subseteq Sessions
      BY <1>0, SetOfSeq DEF PoolTyped
    <3>4. \A s \in ToSet(idle') : unsound'[s] # "scan"
      BY <1>6, <1>10, <2>3, <3>2, <3>3 DEF Marked
    <3>5. ASSUME NEW y \in Scans, NEW q \in Roles,
                 lease'[y][q] \in Sessions, unsound'[lease'[y][q]] = "scan"
          PROVE  q # "text" /\ q \in poisoned'[y]
      <4>1. CASE lease[y][q] = lease[x][r]
        BY <1>5, <1>10, <2>2, <2>3, <4>1
      <4>2. CASE lease[y][q] # lease[x][r]
        BY <1>10, <2>1, <3>2, <3>5, <4>2 DEF Marked
      <4> QED
        BY <4>1, <4>2
    <3> QED
      BY <3>4, <3>5 DEF Marked
  <2>4. CASE lease[x][r] \notin Sessions
    <3>1. unsound' = unsound
      BY <1>10, <2>4 DEF StatementFails
    <3> QED
      BY <1>2, <1>10, <2>1, <3>1
  <2> QED
    BY <2>3, <2>4
<1>11. ASSUME NEW x \in Scans, ScanSteps(x)
       PROVE  Marked'
  <2>0. StagedOne(x)
    BY StagedByOne
  <2>1. \A y \in Scans : poisoned[y] \subseteq poisoned'[y]
    BY <1>0, <1>11, FailureMoves DEF FailureTyped
  <2>2. CASE \/ Begin(x) \/ AskMoment(x) \/ Plan(x) \/ Fetched(x)
             \/ AllChunksTaken(x) \/ Abandon(x)
    <3>1. UNCHANGED <<idle, lease, unsound>>
      BY <2>2 DEF Begin, AskMoment, Plan, Fetched, AllChunksTaken, Abandon, pool, leaseVars,
           outside
    <3> QED
      BY <1>2, <2>1, <3>1
  <2>3. CASE MomentAnswered(x) \/ HeapAnswered(x)
    <3>1. Release(x, "text", FALSE) /\ unsound' = unsound
      BY <2>3 DEF MomentAnswered, HeapAnswered, outside
    <3>2. lease[x]["text"] \in Sessions => unsound[lease[x]["text"]] # "scan"
      BY <1>1 DEF Marked
    <3> QED
      BY <1>1, <1>7, <2>1, <3>1, <3>2
  <2>4. CASE AskFails(x) \/ HeapFails(x)
    <3>1. FailsAndDrops(x, "text", "text", FALSE)
      BY <2>4 DEF AskFails, HeapFails
    <3> QED
      BY <1>1, <1>9, <2>1, <3>1
  <2>5. CASE Opened(x)
    <3>1. /\ unsound' = unsound
          /\ Release(x, "scan", FALSE) \/ UNCHANGED <<idle, lease>>
      BY <2>5 DEF Opened, outside, pool
    <3>2. lease[x]["scan"] \in Sessions => unsound[lease[x]["scan"]] # "scan"
      BY <1>1, <2>0, <2>5 DEF Marked, Opened, StagedOne, Ahead
    <3> QED
      BY <1>1, <1>2, <1>7, <2>1, <3>1, <3>2
  <2>6. CASE OpenFails(x)
    <3>1. FailsAndDrops(x, "scan", "scan", TRUE)
      BY <2>6 DEF OpenFails
    <3> QED
      BY <1>1, <1>9, <2>1, <3>1
  <2>7. CASE FetchFails(x)
    BY <1>1, <1>10, <2>7 DEF FetchFails, pool
  <2>8. ASSUME NEW w \in Workers, TakeChunk(x, w) \/ ReadChunk(x, w)
        PROVE  Marked'
    <3>1. UNCHANGED <<idle, lease, unsound>>
      BY <2>8 DEF TakeChunk, ReadChunk, pool, leaseVars, outside
    <3> QED
      BY <1>2, <2>1, <3>1
  <2>9. ASSUME NEW w \in Workers, ChunkFails(x, w)
        PROVE  Marked'
    <3>1. /\ idle' = idle /\ poisoned' = [poisoned EXCEPT ![x] = @ \cup {w}]
          /\ \/ ConnectFails(x, w) /\ UNCHANGED unsound
             \/ StatementFails(x, w, "scan") /\ UNCHANGED lease
      BY <2>9 DEF ChunkFails
    <3> QED
      BY <1>1, <1>8, <1>10, <2>1, <3>1
  <2>10. ASSUME NEW r \in Roles, TakeSession(x, r)
         PROVE  Marked'
    <3>1. unsound' = unsound
      BY <2>10 DEF TakeSession, outside
    <3>2. \/ /\ idle' = idle
             /\ \E v \in {"borrowed", "connecting", "opening"} : lease' = [lease EXCEPT ![x][r] = v]
          \/ /\ idle # <<>>
             /\ lease' = [lease EXCEPT ![x][r] = Last(idle)] /\ idle' = Front(idle)
      BY <2>10 DEF TakeSession, Acquire, pool
    <3>3. /\ ToSet(idle') \subseteq ToSet(idle)
          /\ idle # <<>> => Last(idle) \in ToSet(idle)
      BY <1>0, <3>2, TakeLast DEF PoolTyped, Counted
    <3>4. \A y \in Scans, q \in Roles :
              \/ lease'[y][q] = lease[y][q]
              \/ lease'[y][q] \notin Sessions
              \/ lease'[y][q] \in ToSet(idle)
      BY <1>0, <1>1, <3>2, <3>3 DEF PoolTyped
    <3> QED
      BY <2>1, <3>1, <3>3, <3>4 DEF Marked
  <2>11. ASSUME NEW r \in Roles, OpenSession(x, r)
         PROVE  Marked'
    <3>1. idle' = idle /\ Connected(x, r)
      BY <2>11 DEF OpenSession, pool
    <3>2. CASE lease' = [lease EXCEPT ![x][r] = "owned"] /\ UNCHANGED unsound
      <4>1. \A y \in Scans, q \in Roles : lease'[y][q] = lease[y][q] \/ lease'[y][q] = "owned"
        BY <1>0, <3>2 DEF PoolTyped
      <4> QED
        BY <1>1, <2>1, <3>1, <3>2, <4>1 DEF Marked
    <3>3. ASSUME NEW s \in Sessions \ InUse, lease' = [lease EXCEPT ![x][r] = s],
                 unsound' = [unsound EXCEPT ![s] = "no"]
          PROVE  Marked'
      <4>1. \A y \in Scans, q \in Roles : lease'[y][q] = lease[y][q] \/ lease'[y][q] = s
        BY <1>0, <3>3 DEF PoolTyped
      <4>2. unsound'[s] = "no" /\ \A t \in Sessions : t # s => unsound'[t] = unsound[t]
        BY <1>0, <3>3 DEF FailureTyped
      <4>3. ToSet(idle) \subseteq Sessions
        BY <1>0, SetOfSeq DEF PoolTyped
      <4>4. \A t \in ToSet(idle') : unsound'[t] # "scan"
        BY <3>1, <4>2, <4>3 DEF Marked
      <4>5. ASSUME NEW y \in Scans, NEW q \in Roles,
                   lease'[y][q] \in Sessions, unsound'[lease'[y][q]] = "scan"
            PROVE  q # "text" /\ q \in poisoned'[y]
        BY <2>1, <4>1, <4>2, <4>5 DEF Marked
      <4> QED
        BY <4>4, <4>5 DEF Marked
    <3> QED
      BY <1>0, <3>1, <3>2, <3>3, ConnectedTakes
  <2>12. ASSUME NEW r \in Roles, Destroy(x, r)
         PROVE  Marked'
    <3>1. Release(x, r, r \in poisoned[x]) /\ unsound' = unsound
      BY <2>12 DEF Destroy, outside
    <3>2. lease[x][r] \in Sessions /\ r \notin poisoned[x] => unsound[lease[x][r]] # "scan"
      BY DEF Marked
    <3> QED
      BY <1>7, <2>1, <3>1, <3>2
  <2> QED
    BY <1>11, <2>2, <2>3, <2>4, <2>5, <2>6, <2>7, <2>8, <2>9, <2>10, <2>11, <2>12 DEF ScanSteps
<1> QED
  BY <1>3, <1>4, <1>11 DEF Next, QuerySteps

-----------------------------------------------------------------------------
(* Chunks                                                                  *)

PartedOne(x) ==
    /\ \A w \in Workers : chunk[x][w] <= next_chunk[x]
    /\ \A v, w \in Workers : chunk[x][v] # 0 /\ chunk[x][v] = chunk[x][w] => v = w
    /\ \A w \in Workers : chunk[x][w] # 0 => read[x][chunk[x][w]] = 0
    /\ \A c \in 1..Chunks :
          /\ read[x][c] <= 1
          /\ c > next_chunk[x] => read[x][c] = 0
          /\ c <= next_chunk[x] /\ ~failed =>
                read[x][c] = 1 \/ \E w \in Workers : chunk[x][w] = c
    /\ kind[x] = "parallel" /\ stage[x] = "done" /\ ~failed => next_chunk[x] = Chunks

LEMMA PartedOneStep ==
    ASSUME TypeOK, Counted, Staged, NEW x \in Scans, PartedOne(x), ScanSteps(x)
    PROVE  PartedOne(x)'
<1>0. PoolTyped /\ ScanTyped /\ ChunkTyped /\ MomentTyped /\ FailureTyped
  BY TypeOKParts
<1>1. StagedOne(x)
  BY StagedByOne
<1>2. /\ next_chunk[x] \in 0..Chunks /\ chunk[x] \in [Workers -> 0..Chunks]
      /\ read[x] \in [1..Chunks -> Nat] /\ Chunks \in Nat
  BY <1>0, BoundsTyped DEF ChunkTyped
<1>3. failed' = failed \/ failed' = TRUE
  BY <1>0, FailureMoves
<1>4. ASSUME UNCHANGED <<next_chunk, chunk, read>>,
             kind'[x] = "parallel" /\ stage'[x] = "done" /\ ~failed' => next_chunk[x] = Chunks
      PROVE  PartedOne(x)'
  BY <1>3, <1>4 DEF PartedOne
<1>5. CASE \/ Begin(x) \/ AskMoment(x) \/ MomentAnswered(x) \/ Plan(x)
  <2>1. stage'[x] # "done" /\ UNCHANGED <<next_chunk, chunk, read>>
    BY <1>0, <1>5 DEF Begin, AskMoment, MomentAnswered, Plan, Go, AfterMoment, ScanTyped,
         scanVars,
         history
  <2> QED
    BY <1>4, <2>1
<1>6. CASE HeapAnswered(x) \/ HeapFails(x) \/ Opened(x)
  <2>1. stage'[x] # "done" /\ UNCHANGED <<next_chunk, chunk, read>>
    BY <1>0, <1>6 DEF HeapAnswered, HeapFails, Opened, Go, ScanTyped, scanVars, history
  <2> QED
    BY <1>4, <2>1
<1>7. CASE AskFails(x) \/ OpenFails(x)
  <2>1. (failed' = TRUE \/ stage'[x] # "done") /\ UNCHANGED <<next_chunk, chunk, read>>
    BY <1>7 DEF AskFails, OpenFails, history
  <2> QED
    BY <1>4, <2>1
<1>8. CASE Fetched(x) \/ FetchFails(x)
  <2>1. (failed' = TRUE \/ kind'[x] # "parallel") /\ UNCHANGED <<next_chunk, chunk, read>>
    BY <1>8 DEF Fetched, FetchFails, history
  <2> QED
    BY <1>4, <2>1
<1>9. CASE AllChunksTaken(x)
  <2>1. next_chunk[x] = Chunks /\ UNCHANGED <<next_chunk, chunk, read>>
    BY <1>9 DEF AllChunksTaken, history
  <2> QED
    BY <1>4, <2>1
<1>10. CASE \E r \in Roles : TakeSession(x, r) \/ OpenSession(x, r) \/ Destroy(x, r)
  <2>1. UNCHANGED <<stage, kind, failed, next_chunk, chunk, read>>
    BY <1>10 DEF TakeSession, OpenSession, Destroy, scanVars, history, queryVars
  <2> QED
    BY <1>4, <2>1 DEF PartedOne
<1>11. CASE Abandon(x)
  <2>1. /\ failed' = TRUE /\ UNCHANGED <<next_chunk, read>>
        /\ \A w \in Workers : chunk'[x][w] = 0
    BY <1>0, <1>11 DEF Abandon, ChunkTyped, queryVars, history
  <2> QED
    BY <1>2, <2>1 DEF PartedOne
<1>12. ASSUME NEW w \in Workers, TakeChunk(x, w)
       PROVE  PartedOne(x)'
  <2>1. /\ UNCHANGED <<stage, kind, failed, read>> /\ stage[x] = "run"
        /\ next_chunk[x] + 1 \in 1..Chunks /\ chunk[x][w] = 0
        /\ next_chunk'[x] = next_chunk[x] + 1
        /\ chunk'[x][w] = next_chunk[x] + 1
        /\ \A v \in Workers : v # w => chunk'[x][v] = chunk[x][v]
    BY <1>0, <1>2, <1>12 DEF TakeChunk, ChunkTyped, queryVars, history
  <2>2. read[x][next_chunk[x] + 1] = 0
    BY <1>2, <2>1 DEF PartedOne
  <2>3. \A v \in Workers : chunk'[x][v] <= next_chunk'[x]
    BY <1>2, <2>1 DEF PartedOne
  <2>4. \A u, v \in Workers : chunk'[x][u] # 0 /\ chunk'[x][u] = chunk'[x][v] => u = v
    <3>1. \A v \in Workers : chunk[x][v] # next_chunk[x] + 1
      BY <1>2 DEF PartedOne
    <3> QED
      BY <2>1, <3>1 DEF PartedOne
  <2>5. \A v \in Workers : chunk'[x][v] # 0 => read'[x][chunk'[x][v]] = 0
    <3>1. TAKE v \in Workers
    <3>2. CASE v = w
      BY <2>1, <2>2, <3>2
    <3>3. CASE v # w
      BY <2>1, <3>3 DEF PartedOne
    <3> QED
      BY <3>2, <3>3
  <2>6. ASSUME NEW c \in 1..Chunks
        PROVE  /\ read'[x][c] <= 1
               /\ c > next_chunk'[x] => read'[x][c] = 0
               /\ c <= next_chunk'[x] /\ ~failed' =>
                     read'[x][c] = 1 \/ \E v \in Workers : chunk'[x][v] = c
    <3>1. read'[x][c] <= 1 /\ (c > next_chunk'[x] => read'[x][c] = 0)
      BY <1>2, <2>1 DEF PartedOne
    <3>2. CASE c = next_chunk[x] + 1
      BY <2>1, <3>1, <3>2
    <3>3. CASE c # next_chunk[x] + 1
      <4>1. c <= next_chunk'[x] => c <= next_chunk[x]
        BY <1>2, <2>1, <3>3
      <4>2. c <= next_chunk[x] /\ ~failed =>
                read[x][c] = 1 \/ \E v \in Workers : chunk[x][v] = c
        BY DEF PartedOne
      <4>3. \A v \in Workers : chunk[x][v] = c => chunk'[x][v] = c
        BY <2>1
      <4> QED
        BY <2>1, <3>1, <4>1, <4>2, <4>3
    <3> QED
      BY <3>2, <3>3
  <2> QED
    BY <2>1, <2>3, <2>4, <2>5, <2>6 DEF PartedOne
<1>13. ASSUME NEW w \in Workers, ReadChunk(x, w)
       PROVE  PartedOne(x)'
  <2> DEFINE n == chunk[x][w]
  <2>1. n \in 1..Chunks
    BY <1>2, <1>13 DEF ReadChunk
  <2>2. /\ UNCHANGED <<stage, kind, failed, next_chunk>>
        /\ chunk'[x][w] = 0
        /\ \A v \in Workers : v # w => chunk'[x][v] = chunk[x][v]
        /\ read'[x][n] = read[x][n] + 1
        /\ \A c \in 1..Chunks : c # n => read'[x][c] = read[x][c]
    BY <1>0, <1>2, <1>13, <2>1 DEF ReadChunk, ChunkTyped, queryVars
  <2>3. stage[x] = "run" /\ read[x][n] = 0 /\ n <= next_chunk[x]
    BY <1>1, <1>13 DEF StagedOne, PartedOne, ReadChunk
  <2>4. \A v \in Workers : v # w => chunk[x][v] # n \/ chunk[x][v] = 0
    BY DEF PartedOne
  <2> HIDE DEF n
  <2>5. \A v \in Workers : chunk'[x][v] # 0 => read'[x][chunk'[x][v]] = 0
    <3>1. TAKE v \in Workers
    <3>2. CASE v = w
      BY <2>2, <3>2
    <3>3. CASE v # w /\ chunk[x][v] # 0
      <4>1. chunk[x][v] # n /\ chunk[x][v] \in 1..Chunks
        BY <1>2, <2>4, <3>3
      <4> QED
        BY <2>2, <3>3, <4>1 DEF PartedOne
    <3>4. CASE v # w /\ chunk[x][v] = 0
      BY <2>2, <3>4
    <3> QED
      BY <3>2, <3>3, <3>4
  <2>6. ASSUME NEW c \in 1..Chunks
        PROVE  /\ read'[x][c] <= 1
               /\ c > next_chunk'[x] => read'[x][c] = 0
               /\ c <= next_chunk'[x] /\ ~failed' =>
                     read'[x][c] = 1 \/ \E v \in Workers : chunk'[x][v] = c
    <3>1. CASE c = n
      BY <1>2, <2>2, <2>3, <3>1
    <3>2. CASE c # n
      <4>1. chunk[x][w] # c
        BY <3>2 DEF n
      <4>2. \A v \in Workers : chunk[x][v] = c => chunk'[x][v] = c
        BY <2>2, <4>1
      <4> QED
        BY <2>2, <3>2, <4>2 DEF PartedOne
    <3> QED
      BY <3>1, <3>2
  <2>7. \A v \in Workers : chunk'[x][v] <= next_chunk'[x]
    BY <1>2, <2>2 DEF PartedOne
  <2>8. ASSUME NEW u \in Workers, NEW v \in Workers,
               chunk'[x][u] # 0, chunk'[x][u] = chunk'[x][v]
        PROVE  u = v
    <3>1. u # w /\ v # w
      BY <2>2, <2>8
    <3> QED
      BY <2>2, <2>8, <3>1 DEF PartedOne
  <2> QED
    BY <2>2, <2>3, <2>5, <2>6, <2>7, <2>8 DEF PartedOne
<1>14. ASSUME NEW w \in Workers, ChunkFails(x, w)
       PROVE  PartedOne(x)'
  <2>1. /\ failed' = TRUE /\ UNCHANGED <<next_chunk, read>>
        /\ \A v \in Workers : chunk'[x][v] = 0 \/ chunk'[x][v] = chunk[x][v]
    BY <1>0, <1>14 DEF ChunkFails, ChunkTyped, history
  <2> QED
    BY <1>2, <2>1 DEF PartedOne
<1> QED
  BY <1>5, <1>6, <1>7, <1>8, <1>9, <1>10, <1>11, <1>12, <1>13, <1>14 DEF ScanSteps

LEMMA PartedStep ==
    ASSUME TypeOK, Counted, Staged, Parted, [Next]_vars
    PROVE  Parted'
<1>0. PoolTyped /\ ScanTyped /\ ChunkTyped /\ MomentTyped /\ FailureTyped
  BY TypeOKParts
<1>1. ASSUME UNCHANGED <<next_chunk, chunk, read, stage, kind>>, failed => failed'
      PROVE  Parted'
  BY <1>1 DEF Parted
<1>2. CASE UNCHANGED vars \/ QueryFails \/ WriterPins \/ TimePasses
  <2>1. UNCHANGED <<next_chunk, chunk, read, stage, kind>> /\ (failed => failed')
    BY <1>2 DEF vars, QueryFails, WriterPins, TimePasses, scanVars, queryVars, history
  <2> QED
    BY <1>1, <2>1
<1>3. CASE QueryBegins
  <2>1. /\ UNCHANGED <<next_chunk, chunk, read, failed>>
        /\ \A x \in Scans : kind'[x] # "parallel"
    BY <1>3 DEF QueryBegins, PlannedKinds, history
  <2> QED
    BY <2>1 DEF Parted
<1>4. CASE QueryEnds
  <2>1. \A x \in Scans : /\ next_chunk'[x] = 0 /\ kind'[x] = "statement"
                         /\ \A c \in 1..Chunks : read'[x][c] = 0
                         /\ \A w \in Workers : chunk'[x][w] = 0
    BY <1>4 DEF QueryEnds, Staged
  <2>2. Chunks \in Nat
    BY BoundsTyped
  <2> QED
    BY <2>1, <2>2 DEF Parted
<1>5. ASSUME NEW x \in Scans, ScanSteps(x)
      PROVE  Parted'
  <2>1. ASSUME NEW y \in Scans PROVE PartedOne(y)'
    <3>1. PartedOne(y)
      BY DEF Parted, PartedOne
    <3>2. CASE y = x
      BY <1>5, <3>1, <3>2, PartedOneStep
    <3>3. CASE y # x
      <4>1. failed' = failed \/ failed' = TRUE
        BY <1>0, <1>5, FailureMoves
      <4>2. /\ stage'[y] = stage[y] /\ kind'[y] = kind[y]
            /\ next_chunk'[y] = next_chunk[y] /\ chunk'[y] = chunk[y] /\ read'[y] = read[y]
        BY <1>5, <3>3, OnlyOne
      <4> QED
        BY <3>1, <4>1, <4>2 DEF PartedOne
    <3> QED
      BY <3>2, <3>3
  <2> QED
    BY <2>1 DEF Parted, PartedOne
<1> QED
  BY <1>2, <1>3, <1>4, <1>5 DEF Next, QuerySteps

-----------------------------------------------------------------------------
(* Moments                                                                 *)

(* The stage "ask" is entered and left with the lock only.                 *)
LEMMA AskKept ==
    ASSUME TypeOK, NEW x \in Scans, ScanSteps(x),
           ~AskMoment(x), ~MomentAnswered(x), ~AskFails(x)
    PROVE  stage'[x] = "ask" <=> stage[x] = "ask"
<1>0. stage \in [Scans -> Stages]
  BY DEF TypeOK
<1> USE DEF Go
<1>1. CASE Begin(x) \/ Plan(x)
  BY <1>0, <1>1 DEF Begin, Plan
<1>2. CASE HeapAnswered(x) \/ HeapFails(x) \/ Opened(x)
  BY <1>0, <1>2 DEF HeapAnswered, HeapFails, Opened
<1>3. CASE OpenFails(x)
  BY <1>0, <1>3 DEF OpenFails
<1>4. CASE Fetched(x) \/ FetchFails(x) \/ AllChunksTaken(x) \/ Abandon(x)
  BY <1>0, <1>4 DEF Fetched, FetchFails, AllChunksTaken, Abandon
<1>5. ASSUME NEW w \in Workers, TakeChunk(x, w) \/ ReadChunk(x, w) \/ ChunkFails(x, w)
      PROVE  stage' = stage
  BY <1>5 DEF TakeChunk, ReadChunk, ChunkFails
<1>6. ASSUME NEW r \in Roles, TakeSession(x, r) \/ OpenSession(x, r) \/ Destroy(x, r)
      PROVE  stage' = stage
  BY <1>6 DEF TakeSession, OpenSession, Destroy, scanVars
<1> QED
  BY <1>1, <1>2, <1>3, <1>4, <1>5, <1>6 DEF ScanSteps

LEMMA LockedStep ==
    ASSUME TypeOK, Counted, Between, Locked, [Next]_vars
    PROVE  Locked'
<1>0. ScanTyped /\ MomentTyped /\ "none" \notin Scans
  BY TypeOKParts, ScansAssumption DEF ScansAssumption
<1>1. CASE UNCHANGED vars
  BY <1>1 DEF vars, Locked
<1>2. CASE QueryFails \/ WriterPins \/ TimePasses \/ QueryEnds
  <2>1. UNCHANGED <<stage, lock, snapshot, query>>
    BY <1>2 DEF QueryFails, WriterPins, TimePasses, QueryEnds, scanVars, snapshotVars, queryVars
  <2> QED
    BY <2>1 DEF Locked
<1>3. CASE QueryBegins
  <2>1. \A x \in Scans : stage[x] = "done"
    BY <1>3 DEF QueryBegins, Between
  <2>2. lock = "none"
    BY <1>0, <2>1 DEF Locked, MomentTyped
  <2>3. lock' = "none" /\ \A x \in Scans : stage'[x] = "new"
    BY <1>3, <2>2 DEF QueryBegins, snapshotVars
  <2> QED
    BY <1>0, <2>3 DEF Locked
<1>4. ASSUME NEW x \in Scans, ScanSteps(x)
      PROVE  Locked'
  <2>1. query' = query
    BY <1>4, ScanMoves
  <2>2. \A y \in Scans : y # x => stage'[y] = stage[y]
    BY <1>4, OnlyOne
  <2>3. CASE AskMoment(x)
    <3>1. CASE UNCHANGED <<lock, snapshot>> /\ stage'[x] # "ask"
      BY <2>1, <2>2, <2>3, <3>1 DEF Locked, AskMoment
    <3>2. CASE lock = "none" /\ snapshot' = KnownMoment /\ KnownMoment.scn # 0
               /\ stage'[x] # "ask" /\ lock' = lock
      BY <1>0, <2>1, <2>2, <2>3, <3>2 DEF Locked, AskMoment
    <3>3. CASE lock = "none" /\ snapshot' = KnownMoment /\ KnownMoment.scn = 0
               /\ stage'[x] = "ask" /\ lock' = x
      <4>1. KnownMoment.query = query
        BY DEF KnownMoment
      <4> QED
        BY <1>0, <2>1, <2>2, <3>3, <4>1 DEF Locked
    <3> QED
      BY <1>0, <2>3, <3>1, <3>2, <3>3 DEF AskMoment, Go, AfterMoment, ScanTyped, snapshotVars
  <2>4. CASE MomentAnswered(x) \/ AskFails(x)
    <3>1. stage[x] = "ask" /\ stage'[x] # "ask" /\ lock' = "none"
      BY <1>0, <2>4 DEF MomentAnswered, AskFails, Go, AfterMoment, ScanTyped
    <3> QED
      BY <1>0, <2>1, <2>2, <3>1 DEF Locked
  <2>5. CASE ~AskMoment(x) /\ ~MomentAnswered(x) /\ ~AskFails(x)
    <3>1. UNCHANGED <<lock, snapshot>>
      BY <1>4, <2>5, MomentMoves
    <3>2. stage'[x] = "ask" <=> stage[x] = "ask"
      BY <1>4, <2>5, AskKept
    <3> QED
      BY <2>1, <2>2, <3>1, <3>2 DEF Locked
  <2> QED
    BY <2>3, <2>4, <2>5
<1> QED
  BY <1>1, <1>2, <1>3, <1>4 DEF Next, QuerySteps

(* What a step of a scan that reads adds to its moments.                   *)
LEMMA ReadsOne ==
    ASSUME TypeOK, NEW x \in Scans, NEW r, ReadsAt(x, r)
    PROVE  /\ \/ moments'[x] = moments[x]
              \/ scn[x] = 0 /\ moments'[x] = moments[x] \cup {now}
              \/ scn[x] # 0 /\ moments'[x] = moments[x] \cup {scn[x]}
           /\ kind[x] = "statement" => moments' = moments
BY DEF TypeOK, ReadsAt

(* The change number, the kind and the moments of a scan change only as    *)
(* it is planned, opened or read.                                          *)
LEMMA NumberKept ==
    ASSUME TypeOK, NEW x \in Scans, ScanSteps(x),
           stage[x] \notin {"moment", "ask", "plan", "heap", "open"}
    PROVE  scn' = scn /\ kind' = kind
<1>0. {"scan", "text"} \subseteq Roles
  BY Words
<1>1. CASE Begin(x)
  BY <1>1 DEF Begin
<1>2. CASE Fetched(x) \/ FetchFails(x) \/ AllChunksTaken(x) \/ Abandon(x)
  BY <1>2 DEF Fetched, FetchFails, AllChunksTaken, Abandon
<1>3. ASSUME NEW w \in Workers, TakeChunk(x, w) \/ ReadChunk(x, w) \/ ChunkFails(x, w)
      PROVE  scn' = scn /\ kind' = kind
  BY <1>3 DEF TakeChunk, ReadChunk, ChunkFails
<1>4. ASSUME NEW r \in Roles, TakeSession(x, r) \/ OpenSession(x, r) \/ Destroy(x, r)
      PROVE  scn' = scn /\ kind' = kind
  BY <1>4 DEF TakeSession, OpenSession, Destroy, scanVars
<1> QED
  BY <1>1, <1>2, <1>3, <1>4 DEF ScanSteps, AskMoment, MomentAnswered, AskFails, Plan,
       HeapAnswered,
     HeapFails, Opened, OpenFails

NamedOne(x) ==
    /\ kind[x] \in {"deferred", "parallel"} => scn[x] # 0 /\ moments[x] \subseteq {scn[x]}
    /\ \A m, n \in moments[x] : m = n

LEMMA NamedOneStep ==
    ASSUME TypeOK, Staged, Named, NEW x \in Scans, ScanSteps(x)
    PROVE  NamedOne(x)'
<1>0. ScanTyped /\ MomentTyped
  BY TypeOKParts
<1>1. StagedOne(x) /\ NamedOne(x) /\ now # 0
  <2>1. StagedOne(x)
    BY StagedByOne
  <2>2. NamedOne(x)
    BY DEF Named, NamedOne
  <2>3. now # 0
    BY <1>0, BoundsTyped DEF MomentTyped
  <2> QED
    BY <2>1, <2>2, <2>3
<1>2. CASE Opened(x) /\ kind[x] # "parallel" /\ ReadsAt(x, "scan")
  <2>1. moments[x] = {} /\ scn' = scn /\ kind' = kind
    BY <1>1, <1>2 DEF Opened, StagedOne, Ahead
  <2> QED
    BY <1>1, <1>2, <2>1, ReadsOne DEF NamedOne
<1>3. CASE Fetched(x) /\ kind[x] = "deferred" /\ ReadsAt(x, "scan")
  <2>1. scn' = scn /\ kind' = kind
    BY <1>3 DEF Fetched
  <2> QED
    BY <1>1, <1>3, <2>1, ReadsOne DEF NamedOne
<1>4. ASSUME NEW w \in Workers, ReadChunk(x, w), ReadsAt(x, w)
      PROVE  NamedOne(x)'
  <2>1. scn' = scn /\ kind' = kind /\ kind[x] = "parallel"
    BY <1>1, <1>4 DEF ReadChunk, StagedOne
  <2> QED
    BY <1>1, <1>4, <2>1, ReadsOne DEF NamedOne
<1>5. CASE moments' = moments
  <2>1. CASE stage[x] \notin {"moment", "ask", "plan", "heap", "open"}
    <3>1. scn' = scn /\ kind' = kind
      BY <2>1, NumberKept
    <3> QED
      BY <1>1, <1>5, <3>1 DEF NamedOne
  <2>2. CASE stage[x] \in {"moment", "ask", "plan", "heap", "open"}
    <3>1. moments'[x] = {}
      BY <1>1, <1>5, <2>2 DEF StagedOne, Ahead
    <3>2. kind'[x] \in {"deferred", "parallel"} => scn'[x] # 0
      <4>1. CASE scn' = scn /\ kind' = kind
        BY <1>1, <4>1 DEF NamedOne
      <4>2. CASE AskMoment(x) \/ MomentAnswered(x)
        BY <1>0, <1>1, <4>2 DEF AskMoment, MomentAnswered, NamedOne, ScanTyped
      <4>3. CASE Plan(x) \/ HeapAnswered(x)
        BY <1>0, <1>1, <4>3 DEF Plan, HeapAnswered, NamedOne, ScanTyped
      <4>4. CASE OpenFails(x)
        BY <1>0, <1>1, <4>4 DEF OpenFails, NamedOne, ScanTyped
      <4>5. CASE Begin(x) \/ AskFails(x) \/ HeapFails(x) \/ Opened(x) \/ Fetched(x)
                 \/ FetchFails(x) \/ AllChunksTaken(x) \/ Abandon(x)
        BY <4>1, <4>5 DEF Begin, AskFails, HeapFails, Opened, Fetched, FetchFails, AllChunksTaken,
             Abandon
      <4>6. ASSUME NEW w \in Workers, TakeChunk(x, w) \/ ReadChunk(x, w) \/ ChunkFails(x, w)
            PROVE  scn' = scn /\ kind' = kind
        BY <4>6 DEF TakeChunk, ReadChunk, ChunkFails
      <4>7. ASSUME NEW r \in Roles, TakeSession(x, r) \/ OpenSession(x, r) \/ Destroy(x, r)
            PROVE  scn' = scn /\ kind' = kind
        BY <4>7 DEF TakeSession, OpenSession, Destroy, scanVars
      <4> QED
        BY <4>1, <4>2, <4>3, <4>4, <4>5, <4>6, <4>7 DEF ScanSteps
    <3> QED
      BY <3>1, <3>2 DEF NamedOne
  <2> QED
    BY <2>1, <2>2
<1> QED
  BY <1>2, <1>3, <1>4, <1>5, MomentMoves

LEMMA NamedStep ==
    ASSUME TypeOK, Counted, Between, Staged, Named, [Next]_vars
    PROVE  Named'
<1>1. CASE UNCHANGED vars
  BY <1>1 DEF vars, Named
<1>2. CASE QueryFails \/ WriterPins \/ TimePasses
  BY <1>2 DEF QueryFails, WriterPins, TimePasses, Named, scanVars, history
<1>3. CASE QueryBegins
  <2>1. \A x \in Scans : moments'[x] = {} /\ kind'[x] \notin {"deferred", "parallel"}
    BY <1>3 DEF QueryBegins, Between, PlannedKinds, history
  <2> QED
    BY <2>1 DEF Named
<1>4. CASE QueryEnds
  <2>1. \A x \in Scans : moments'[x] = {} /\ kind'[x] = "statement"
    BY <1>4 DEF QueryEnds
  <2> QED
    BY <2>1 DEF Named
<1>5. ASSUME NEW x \in Scans, ScanSteps(x)
      PROVE  Named'
  <2>1. ASSUME NEW y \in Scans PROVE NamedOne(y)'
    <3>1. CASE y = x
      BY <1>5, <3>1, NamedOneStep
    <3>2. CASE y # x
      BY <1>5, <3>2, OnlyOne DEF Named, NamedOne
    <3> QED
      BY <3>1, <3>2
  <2> QED
    BY <2>1 DEF Named, NamedOne
<1> QED
  BY <1>1, <1>2, <1>3, <1>4, <1>5 DEF Next, QuerySteps

(* The snapshot of a query is not changed once it has been taken, and it   *)
(* is taken after the query began.                                         *)
LEMMA SnapshotKept ==
    ASSUME TypeOK, Locked, Dated, NEW x \in Scans, ScanSteps(x)
    PROVE  /\ snapshot.query = query /\ snapshot.scn # 0 => snapshot' = snapshot
           /\ snapshot'.query <= query
           /\ snapshot'.query = query /\ snapshot'.scn # 0 => snapshot'.scn >= began
<1>0. MomentTyped /\ "none" \notin Scans
  BY TypeOKParts, ScansAssumption DEF ScansAssumption
<1>1. CASE UNCHANGED <<lock, snapshot>>
  BY <1>1 DEF Dated
<1>2. CASE AskMoment(x)
  <2>1. snapshot' = snapshot \/ snapshot' = KnownMoment
    BY <1>2 DEF AskMoment, snapshotVars
  <2>2. KnownMoment = snapshot \/ KnownMoment = [query |-> query, scn |-> 0]
    BY DEF KnownMoment
  <2>3. snapshot.query = query => KnownMoment = snapshot
    BY DEF KnownMoment
  <2>4. query \in Nat /\ query <= query
    BY <1>0, BoundsTyped DEF MomentTyped
  <2> QED
    BY <2>1, <2>2, <2>3, <2>4 DEF Dated
<1>3. CASE MomentAnswered(x)
  <2>1. snapshot.query = query /\ snapshot.scn = 0
    BY <1>0, <1>3 DEF MomentAnswered, Locked
  <2>2. snapshot'.scn = now /\ snapshot'.query = query
    BY <1>0, <1>3, <2>1 DEF MomentAnswered, MomentTyped
  <2>3. now >= began /\ query <= query
    BY <1>0, BoundsTyped DEF Dated, MomentTyped
  <2> QED
    BY <2>1, <2>2, <2>3
<1>4. CASE AskFails(x)
  BY <1>4 DEF AskFails, Dated
<1> QED
  BY <1>1, <1>2, <1>3, <1>4, MomentMoves

DatedOne(x) ==
    /\ stage[x] \in {"plan", "heap", "open", "run"} /\ kind[x] # "statement" =>
          snapshot.query = query /\ snapshot.scn # 0 /\ scn[x] = snapshot.scn
    /\ moments[x] # {} =>
          snapshot.query = query /\ snapshot.scn # 0 /\ moments[x] = {snapshot.scn}

LEMMA DatedOneStep ==
    ASSUME TypeOK, Staged, Locked, Dated, consistent, ~pinned, NEW x \in Scans, DatedOne(x),
           ScanSteps(x)
    PROVE  DatedOne(x)'
<1>0. ScanTyped /\ MomentTyped /\ FailureTyped
  BY TypeOKParts
<1>1. StagedOne(x)
  BY StagedByOne
<1>2. query' = query
  BY ScanMoves
<1>3. snapshot.query = query /\ snapshot.scn # 0 => snapshot' = snapshot
  BY SnapshotKept
<1>4. now # 0
  BY <1>0, BoundsTyped DEF MomentTyped
<1> DEFINE Underway == {"plan", "heap", "open", "run"}
(* What has been read stays, or is read at the number of the snapshot.     *)
<1>5. moments'[x] # {} =>
          snapshot'.query = query' /\ snapshot'.scn # 0 /\ moments'[x] = {snapshot'.scn}
  <2>1. CASE moments' = moments
    BY <1>2, <1>3, <2>1 DEF DatedOne
  <2>2. ASSUME NEW r, ReadsAt(x, r), stage[x] \in Underway
        PROVE  moments'[x] # {} =>
                   snapshot'.query = query' /\ snapshot'.scn # 0 /\ moments'[x] = {snapshot'.scn}
    <3>1. CASE kind[x] = "statement"
      BY <2>1, <2>2, <3>1, ReadsOne
    <3>2. CASE kind[x] # "statement"
      <4>1. snapshot.query = query /\ snapshot.scn # 0 /\ scn[x] = snapshot.scn
        BY <2>2, <3>2 DEF DatedOne
      <4>2. moments'[x] = moments[x] \/ moments'[x] = moments[x] \cup {snapshot.scn}
        BY <2>2, <4>1, ReadsOne
      <4> QED
        BY <1>2, <1>3, <4>1, <4>2 DEF DatedOne
    <3> QED
      BY <3>1, <3>2
  <2>3. CASE Opened(x) /\ ReadsAt(x, "scan")
    BY <2>2, <2>3 DEF Opened
  <2>4. CASE Fetched(x) /\ ReadsAt(x, "scan")
    BY <2>2, <2>4 DEF Fetched
  <2>5. ASSUME NEW w \in Workers, ReadChunk(x, w), ReadsAt(x, w)
        PROVE  moments'[x] # {} =>
                   snapshot'.query = query' /\ snapshot'.scn # 0 /\ moments'[x] = {snapshot'.scn}
    BY <1>1, <2>2, <2>5 DEF ReadChunk, StagedOne
  <2> QED
    BY <2>1, <2>3, <2>4, <2>5, MomentMoves
<1>6. stage'[x] \in Underway /\ kind'[x] # "statement" =>
          snapshot'.query = query' /\ snapshot'.scn # 0 /\ scn'[x] = snapshot'.scn
  <2>1. ASSUME stage[x] \in Underway, kind[x] # "statement", scn'[x] = scn[x]
        PROVE  snapshot'.query = query' /\ snapshot'.scn # 0 /\ scn'[x] = snapshot'.scn
    BY <1>2, <1>3, <2>1 DEF DatedOne
  <2>2. CASE Begin(x)
    BY <1>0, <2>2 DEF Begin, Go, ScanTyped
  <2>3. CASE AskMoment(x)
    <3>1. /\ lock = "none" /\ snapshot' = KnownMoment
          /\ KnownMoment.scn # 0 => scn'[x] = KnownMoment.scn
          /\ KnownMoment.scn = 0 => stage'[x] = "ask"
      BY <1>0, <2>3 DEF AskMoment, ScanTyped, Go
    <3>2. KnownMoment.query = query
      BY DEF KnownMoment
    <3> QED
      BY <1>2, <3>1, <3>2
  <2>4. CASE MomentAnswered(x)
    <3>1. scn'[x] = now /\ snapshot' = [snapshot EXCEPT !.scn = now]
      BY <1>0, <2>4 DEF MomentAnswered, ScanTyped
    <3>2. snapshot.query = query
      BY <2>4, ScansAssumption DEF MomentAnswered, Locked, ScansAssumption
    <3>3. snapshot'.scn = now /\ snapshot'.query = query
      BY <1>0, <3>1, <3>2 DEF MomentTyped
    <3> QED
      BY <1>2, <1>4, <3>1, <3>3
  <2>5. CASE Plan(x) \/ HeapAnswered(x)
    <3>1. stage[x] \in Underway /\ kind[x] # "statement"
      BY <1>1, <2>5 DEF Plan, HeapAnswered, StagedOne
    <3>2. scn[x] # 0
      BY <3>1 DEF DatedOne
    <3>3. scn'[x] = scn[x]
      BY <1>0, <2>5, <3>2 DEF Plan, HeapAnswered, ScanTyped
    <3> QED
      BY <2>1, <3>1, <3>3
  <2>6. CASE OpenFails(x)
    <3>1. CASE kind[x] = "deferred" /\ stage[x] = "open"
      <4>1. snapshot.query = query /\ snapshot.scn # 0 /\ scn[x] = snapshot.scn
        BY <3>1 DEF DatedOne
      <4>2. KnownMoment = snapshot
        BY <4>1 DEF KnownMoment
      <4>3. scn'[x] = scn[x]
        BY <1>0, <2>6, <3>1, <4>1, <4>2 DEF OpenFails, ScanTyped
      <4> QED
        BY <2>1, <3>1, <4>3
    <3>2. CASE kind[x] = "deferred" /\ stage[x] # "open"
      BY <2>6, <3>2 DEF OpenFails
    <3>3. CASE kind[x] # "deferred"
      BY <1>0, <2>6, <3>3 DEF OpenFails, Go, ScanTyped
    <3> QED
      BY <3>1, <3>2, <3>3
  <2>7. CASE AskFails(x) \/ Fetched(x) \/ FetchFails(x) \/ AllChunksTaken(x) \/ Abandon(x)
    BY <1>0, <2>7 DEF AskFails, Fetched, FetchFails, AllChunksTaken, Abandon, Go, ScanTyped
  <2>8. CASE HeapFails(x) \/ Opened(x)
    <3>1. stage[x] \in Underway /\ scn' = scn /\ kind' = kind
      BY <2>8 DEF HeapFails, Opened
    <3> QED
      BY <2>1, <3>1
  <2>9. ASSUME UNCHANGED <<stage, scn, kind>>
        PROVE  stage'[x] \in Underway /\ kind'[x] # "statement" =>
                   snapshot'.query = query' /\ snapshot'.scn # 0 /\ scn'[x] = snapshot'.scn
    BY <2>1, <2>9
  <2>10. ASSUME NEW w \in Workers, TakeChunk(x, w) \/ ReadChunk(x, w) \/ ChunkFails(x, w)
         PROVE  UNCHANGED <<stage, scn, kind>>
    BY <2>10 DEF TakeChunk, ReadChunk, ChunkFails
  <2>11. ASSUME NEW r \in Roles, TakeSession(x, r) \/ OpenSession(x, r) \/ Destroy(x, r)
         PROVE  UNCHANGED <<stage, scn, kind>>
    BY <2>11 DEF TakeSession, OpenSession, Destroy, scanVars
  <2> QED
    BY <2>2, <2>3, <2>4, <2>5, <2>6, <2>7, <2>8, <2>9, <2>10, <2>11 DEF ScanSteps
<1> QED
  BY <1>5, <1>6 DEF DatedOne

LEMMA DatedStep ==
    ASSUME TypeOK, Counted, Between, Staged, Locked, Dated, [Next]_vars
    PROVE  Dated'
<1>0. ScanTyped /\ MomentTyped /\ FailureTyped
  BY TypeOKParts
<1>1. CASE UNCHANGED vars
  BY <1>1 DEF vars, Dated
<1>2. CASE QueryFails \/ WriterPins
  <2>1. /\ UNCHANGED <<began, now, snapshot, query, consistent, stage, kind, scn, moments>>
        /\ pinned' = pinned \/ pinned' = TRUE
    BY <1>2 DEF QueryFails, WriterPins, snapshotVars, scanVars, outside, history
  <2> QED
    BY <2>1 DEF Dated
<1>3. CASE TimePasses
  <2>1. /\ UNCHANGED <<began, snapshot, query, consistent, pinned, stage, kind, scn, moments>>
        /\ now' = now + 1
    BY <1>3 DEF TimePasses, snapshotVars, scanVars, queryVars, history
  <2>2. began <= now'
    BY <1>0, <2>1, BoundsTyped DEF Dated, MomentTyped
  <2> QED
    BY <2>1, <2>2 DEF Dated
<1>4. CASE QueryBegins
  <2>1. /\ snapshot' = snapshot /\ query' = query + 1 /\ began' = now /\ now' = now
        /\ \A x \in Scans : stage'[x] = "new" /\ moments'[x] = {}
    BY <1>4 DEF QueryBegins, Between, snapshotVars, outside, history
  <2>2. /\ snapshot.query <= query + 1 /\ snapshot.query # query + 1 /\ now <= now
    BY <1>0, BoundsTyped DEF Dated, MomentTyped
  <2> QED
    BY <2>1, <2>2 DEF Dated
<1>5. CASE QueryEnds
  <2>1. /\ UNCHANGED <<began, now, snapshot, query, consistent, pinned>>
        /\ \A x \in Scans : stage'[x] = "done" /\ moments'[x] = {}
    BY <1>5 DEF QueryEnds, snapshotVars, outside
  <2> QED
    BY <2>1 DEF Dated
<1>6. ASSUME NEW x \in Scans, ScanSteps(x)
      PROVE  Dated'
  <2>1. UNCHANGED <<query, consistent, pinned, now, began>>
    BY <1>6, ScanMoves
  <2>2. /\ snapshot.query = query /\ snapshot.scn # 0 => snapshot' = snapshot
        /\ snapshot'.query <= query
        /\ snapshot'.query = query /\ snapshot'.scn # 0 => snapshot'.scn >= began
    BY <1>6, SnapshotKept
  <2>3. ASSUME consistent, ~pinned, NEW y \in Scans
        PROVE  DatedOne(y)'
    <3>1. DatedOne(y)
      BY <2>3 DEF Dated, DatedOne
    <3>2. CASE y = x
      BY <1>6, <2>3, <3>1, <3>2, DatedOneStep
    <3>3. CASE y # x
      <4>1. /\ stage'[y] = stage[y] /\ kind'[y] = kind[y] /\ scn'[y] = scn[y]
            /\ moments'[y] = moments[y]
        BY <1>6, <3>3, OnlyOne
      <4> QED
        BY <2>1, <2>2, <3>1, <4>1 DEF DatedOne
    <3> QED
      BY <3>2, <3>3
  <2>4. consistent' /\ ~pinned' => \A y \in Scans : DatedOne(y)'
    BY <2>1, <2>3
  <2> QED
    BY <2>1, <2>2, <2>4 DEF Dated, DatedOne
<1> QED
  BY <1>1, <1>2, <1>3, <1>4, <1>5, <1>6 DEF Next, QuerySteps

-----------------------------------------------------------------------------
(* The theorems                                                            *)

IInv ==
    /\ TypeOK /\ Counted
    /\ Between /\ Staged /\ Wanted
    /\ Marked /\ Parted
    /\ Locked /\ Named /\ Dated

LEMMA Initially == Init => IInv
<1> SUFFICES ASSUME Init PROVE IInv
  OBVIOUS
<1> USE DEF Init
<1>1. /\ Chunks \in Nat \ {0} /\ MaximumQueries \in Nat /\ MaximumFailures \in Nat
      /\ MaximumMoments \in Nat \ {0} /\ MaximumSessions \in Nat /\ "none" \notin Scans
      /\ "none" \in Handles \ Accountable
  BY BoundsTyped, Words, ScansAssumption DEF ScansAssumption, Accountable
<1>2. idle \in Seq(Sessions) /\ Len(idle) = 0 /\ ToSet(idle) = {} /\ IsInjective(idle)
  BY DEF ToSet, IsInjective
<1>3. PoolTyped
  BY <1>1, <1>2 DEF PoolTyped
<1>4. ScanTyped /\ ChunkTyped
  BY <1>1 DEF ScanTyped, ChunkTyped, Stages, AllKinds
<1>5. MomentTyped /\ FailureTyped
  <2>1. 0 \in 0..MaximumQueries /\ 0 \in 0..MaximumMoments /\ 1 \in 1..MaximumMoments
        /\ 0 \in 0..MaximumFailures
    BY <1>1
  <2>2. MomentTyped
    BY <2>1 DEF MomentTyped
  <2>3. FailureTyped
    BY <2>1 DEF FailureTyped
  <2> QED
    BY <2>2, <2>3
<1>6. Counted
  <2>1. HandlesWith(Accountable) = {} /\ HandlesWith(Sessions) = {}
    BY <1>1 DEF HandlesWith, Accountable
  <2> QED
    BY <1>2, <2>1, FS_EmptySet DEF Counted
<1>7. Between /\ Staged /\ Wanted /\ Named /\ Locked
  BY <1>1 DEF Between, Staged, Wanted, Named, Ahead, Locked
<1>8. Marked
  BY <1>2 DEF Marked
<1>9. Parted
  BY <1>1 DEF Parted
<1>10. Dated
  BY <1>1 DEF Dated
<1> QED
  BY <1>3, <1>4, <1>5, <1>6, <1>7, <1>8, <1>9, <1>10, TypeOKParts DEF IInv

LEMMA Inductive == IInv /\ [Next]_vars => IInv'
<1> SUFFICES ASSUME IInv, [Next]_vars PROVE IInv'
  OBVIOUS
<1>1. /\ TypeOK /\ PoolTyped /\ Counted /\ Between /\ Staged /\ Wanted /\ Marked /\ Parted
      /\ Locked /\ Named /\ Dated
  BY TypeOKParts DEF IInv
<1>2. PoolTyped' /\ Counted'
  BY <1>1, CountedStep
<1>3. TypeOK'
  BY <1>1, <1>2, TypeOKStep
<1>4. Staged' /\ Wanted' /\ Between'
  BY <1>1, StagedStep, BetweenStep
<1>5. Marked' /\ Parted'
  BY <1>1, MarkedStep, PartedStep
<1>6. Locked' /\ Named' /\ Dated'
  BY <1>1, LockedStep, NamedStep, DatedStep
<1> QED
  BY <1>2, <1>3, <1>4, <1>5, <1>6 DEF IInv

LEMMA InvariantHolds == Spec => []IInv
BY Initially, Inductive, PTL DEF Spec

(* For any scans, sessions and sizes of the pool: whatever connect or      *)
(* statement fails, OracleSessionPool counts exactly the sessions it has,  *)
(* lent and connects, no session is in two hands, and one a scan failed on *)
(* is not idle (session_pool.cpp, oracle_pool.cpp).                        *)
THEOREM PoolIsAccounted == Spec => []LiveIsAccounted
<1>1. IInv => LiveIsAccounted
  <2>1. SUFFICES ASSUME IInv PROVE LiveIsAccounted
    OBVIOUS
  <2>2. TypeOK /\ PoolTyped /\ Counted /\ Marked
    BY <2>1, TypeOKParts DEF IInv
  <2>3. Cardinality(InUse) = Len(idle) + Cardinality(HandlesWith(Sessions))
    BY <2>2, UseIsCounted
  <2> QED
    BY <2>2, <2>3 DEF LiveIsAccounted, Counted, Marked, Accountable
<1> QED
  BY <1>1, InvariantHolds, PTL

(* For any number of workers and chunks: no chunk of a scan is read twice, *)
(* and a parallel scan of a query that does not fail ends only with every  *)
(* chunk read (the chunk counter of oracle_query.cpp).                     *)
THEOREM ChunksAreReadOnce == Spec => []EachChunkOnce
<1>1. IInv => EachChunkOnce
  <2>1. SUFFICES ASSUME IInv, NEW x \in Scans, NEW c \in 1..Chunks
                 PROVE  /\ read[x][c] <= 1
                        /\ kind[x] = "parallel" /\ stage[x] = "done" /\ ~failed =>
                              read[x][c] = 1
    BY DEF EachChunkOnce
  <2>2. PartedOne(x) /\ StagedOne(x) /\ Chunks \in Nat
    BY <2>1, StagedByOne, BoundsTyped DEF IInv, Parted, PartedOne
  <2>3. stage[x] = "done" => \A w \in Workers : chunk[x][w] # c
    BY <2>2 DEF StagedOne
  <2> QED
    BY <2>2, <2>3 DEF PartedOne
<1> QED
  BY <1>1, InvariantHolds, PTL

(* For any scans of a query, planned and failing in any way: a scan reads  *)
(* one moment, and with oracle_consistent_read all of them read the same,  *)
(* which is not before the query began, until the transaction writes       *)
(* (OracleQuerySnapshot of oracle_catalog.cpp).                            *)
THEOREM QueriesReadOneMoment == Spec => []OneMoment
<1>1. IInv => OneMoment
  <2>1. SUFFICES ASSUME IInv PROVE OneMoment
    OBVIOUS
  <2>2. Named /\ Dated /\ ScanTyped /\ MomentTyped
    BY <2>1, TypeOKParts DEF IInv
  <2>3. ASSUME NEW S, \A m, n \in S : m = n
        PROVE  Cardinality(S) <= 1
    <3>1. CASE S = {}
      BY <3>1, FS_EmptySet
    <3>2. CASE S # {}
      <4>1. PICK m : S = {m}
        BY <2>3, <3>2
      <4>2. Cardinality({m}) = 1
        BY FS_Singleton
      <4> QED
        BY <4>1, <4>2
    <3> QED
      BY <3>1, <3>2
  <2>4. \A x \in Scans : Cardinality(moments[x]) <= 1
    BY <2>2, <2>3 DEF Named
  <2>5. ASSUME consistent, ~pinned
        PROVE  /\ Cardinality(UNION {moments[x] : x \in Scans}) <= 1
               /\ \A x \in Scans : \A m \in moments[x] : m >= began
    <3>1. \A x \in Scans : \A m \in moments[x] :
              /\ m = snapshot.scn
              /\ snapshot.query = query /\ snapshot.scn # 0
      BY <2>2, <2>5 DEF Dated
    <3>2. \A m, n \in UNION {moments[x] : x \in Scans} : m = n
      BY <3>1
    <3>3. Cardinality(UNION {moments[x] : x \in Scans}) <= 1
      BY <2>3, <3>2
    <3>4. \A x \in Scans : \A m \in moments[x] : m >= began
      BY <2>2, <3>1 DEF Dated
    <3> QED
      BY <3>3, <3>4
  <2> QED
    BY <2>4, <2>5 DEF OneMoment
<1> QED
  BY <1>1, InvariantHolds, PTL

=============================================================================
