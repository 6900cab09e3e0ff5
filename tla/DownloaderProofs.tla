---------------------------- MODULE DownloaderProofs ----------------------------
(***************************************************************************)
(* Downloader proved for every window, number of segments and kind of      *)
(* presentation: segments are analysed in playlist order, each one offered *)
(* is analysed, reported as failed or still on its way;                    *)
(* EM_HRT_SYS_FINISH is the last message, posted once.                     *)
(*                                                                         *)
(* The message is posted where Run returns; what else posts is the reload  *)
(* thread, which is started past the only early return and joined before   *)
(* the other (ReloadInv).                                                  *)
(*                                                                         *)
(* The order of what was analysed is not inductive: what MainLoop took to  *)
(* analyse, the queue and what ReloadFun has still to append are three     *)
(* stretches of one rising sequence (StretchesInv) that ends with the      *)
(* playlist parsed last (BoundInv), and a later playlist adds only what    *)
(* lies behind (ServedInv, NewAreBehind).  Both ways a segment moves, off  *)
(* the queue and onto it, are one step on two neighbouring stretches       *)
(* (FirstMoves).  A segment a playlist shares with the one it is compared  *)
(* with is not appended: it was offered before, or skipped (ComparedInv).  *)
(***************************************************************************)
EXTENDS Downloader, FiniteSetTheorems, SequenceTheorems, TLAPS

ReloadInv ==
  /\ mainPc \in {"getm3u8", "start"} => reloadPc = "none"
  /\ mainPc = "done" => ~Running(reloadPc)

FinishInv ==
  /\ finished \in {0, 1}
  /\ finished = 1 => mainPc = "done"

IInv == ReloadInv /\ FinishInv

-----------------------------------------------------------------------------
(* The main thread starts the reload thread once and returns without it. *)
LEMMA MainKeeps == IInv /\ Main => IInv'
<1> SUFFICES ASSUME IInv, Main PROVE IInv'
  OBVIOUS
<1> USE DEF IInv, ReloadInv, FinishInv, Running
<1>1. CASE RunFails
  <2>1. mainPc = "getm3u8" /\ mainPc' = "done" /\ reloadPc' = reloadPc /\ finished' = finished + 1
    BY <1>1 DEF RunFails
  <2> QED BY <2>1
<1>2. CASE RunJoin
  <2>1. /\ mainPc = "join" /\ mainPc' = "done" /\ reloadPc' = reloadPc /\ ~Running(reloadPc)
        /\ finished' = finished + 1
    BY <1>2 DEF RunJoin
  <2> QED BY <2>1
<1>3. CASE RunSelectStream \/ RunStartLive \/ RunStartVod
  BY <1>3 DEF RunSelectStream, RunStartLive, RunStartVod
<1>4. CASE \/ LoopTest \/ LoopEmpty \/ LoopIsLive \/ LoopHead \/ LoopDrop \/ LoopPop
           \/ LoopAnalyse \/ DownloadTimeout \/ DownloadSucceeds \/ DownloadFails
  <2>1. /\ mainPc \notin {"getm3u8", "start", "done"}
        /\ mainPc' \notin {"getm3u8", "start", "done"}
    BY <1>4 DEF LoopTest, LoopEmpty, LoopIsLive, LoopHead, LoopDrop, LoopPop, LoopAnalyse,
                DownloadTimeout, DownloadSucceeds, DownloadFails
  <2>2. UNCHANGED <<reloadPc, finished>>
    BY <1>4 DEF LoopTest, LoopEmpty, LoopIsLive, LoopHead, LoopDrop, LoopPop, LoopAnalyse,
                DownloadTimeout, DownloadSucceeds, DownloadFails, loopOnly
  <2> QED BY <2>1, <2>2
<1> QED BY <1>1, <1>2, <1>3, <1>4 DEF Main, MainSteps, DownloadEnds

(* The reload thread does not start itself, nor post EM_HRT_SYS_FINISH. *)
LEMMA ReloadKeeps == IInv /\ Reload => IInv'
<1> SUFFICES ASSUME IInv, Reload PROVE IInv'
  OBVIOUS
<1>1. UNCHANGED <<mainPc, finished>>
  BY DEF Reload, ReloadCheck, ReloadFetchFails, ReloadFetch, ReloadWait, ReloadParse,
         ReloadEnqueue, ReloadRemember, otherThanReload
<1>2. reloadPc \notin {"none", "done"}
  BY DEF Reload, ReloadCheck, ReloadFetchFails, ReloadFetch, ReloadWait, ReloadParse,
         ReloadEnqueue, ReloadRemember
<1> QED BY <1>1, <1>2 DEF IInv, ReloadInv, FinishInv, Running

(* Of its messages EM_HRT_SYS_FINISH is the last the downloader posts, and it
   is posted once: after Stop, at the end of a presentation on demand, and when
   the first playlist could not be fetched. *)
THEOREM FinishPostedLast == Spec => []FinishIsLast
<1>1. Init => IInv
  BY DEF Init, IInv, ReloadInv, FinishInv, Running
<1>2. IInv /\ [Next]_vars => IInv'
  <2> SUFFICES ASSUME IInv, [Next]_vars PROVE IInv'
    OBVIOUS
  <2>1. CASE Server \/ StopFlag \/ Stop \/ Stopped \/ UNCHANGED vars
    <3>1. UNCHANGED <<mainPc, reloadPc, finished>>
      BY <2>1 DEF Server, Publish, End, StopFlag, Stop, StopCancel, StopJoin, Stopped,
                  otherThanApi, reload, vars
    <3> QED BY <3>1 DEF IInv, ReloadInv, FinishInv, Running
  <2> QED BY <2>1, MainKeeps, ReloadKeeps DEF Next
<1>3. IInv => FinishIsLast
  BY DEF IInv, ReloadInv, FinishInv, FinishIsLast, Running
<1> QED BY <1>1, <1>2, <1>3, PTL DEF Spec

-----------------------------------------------------------------------------
(* The order of the segments *)

Playlist == {p \in [first : Nat \ {0}, last : Nat, ended : BOOLEAN] : p.first <= p.last + 1}

\* a window slides forward only
NoOlder(p, q) == p.first <= q.first /\ p.last <= q.last

Rising(s) == \A i, j \in DOMAIN s : i < j => s[i] < s[j]
Ahead(s, t) == \A i \in DOMAIN s, j \in DOMAIN t : s[i] < t[j]
UpTo(s, n) == \A i \in DOMAIN s : s[i] <= n

\* the playlists the origin has served, in the order they were fetched
ServedInv ==
  /\ {server, m_strOldM3u8Content, m3u8_content} \subseteq Playlist
  /\ NoOlder(m_strOldM3u8Content, server) /\ NoOlder(m3u8_content, server)
  /\ reloadPc \in {"wait", "parse", "enqueue"} => NoOlder(m_strOldM3u8Content, m3u8_content)

\* analysed, or popped to be analysed next
Taken == IF mainPc = "analyse" THEN Append(analysed, url) ELSE analysed

PlacesInv ==
  /\ analysed \in Seq(Nat) /\ Taken \in Seq(Nat)
  /\ m_dqTsUrl \in Seq(Nat) /\ todo \in Seq(Nat)
  /\ mainPc \in {"getm3u8", "start"} =>
       reloadPc = "none" /\ analysed = <<>> /\ m_dqTsUrl = <<>> /\ offered = {}
  /\ reloadPc # "enqueue" => todo = <<>>

\* MainLoop downloads the front of the queue, which only it takes off
FrontInv ==
  /\ mainPc \in {"head", "download", "drop", "pop"} => m_dqTsUrl # <<>>
  /\ mainPc \in {"download", "drop", "pop"} => url = Head(m_dqTsUrl)
  /\ mainPc = "drop" => url \in failed

\* Taken, m_dqTsUrl and todo are three stretches of one rising sequence
StretchesInv ==
  /\ Rising(Taken) /\ Rising(m_dqTsUrl) /\ Rising(todo)
  /\ Ahead(Taken, m_dqTsUrl) /\ Ahead(Taken, todo) /\ Ahead(m_dqTsUrl, todo)

\* and all it holds was in the playlist parsed last, or in the one at hand
BoundInv ==
  LET n == IF reloadPc = "enqueue" THEN m3u8_content.last ELSE m_strOldM3u8Content.last
  IN UpTo(Taken, n) /\ UpTo(m_dqTsUrl, n) /\ UpTo(todo, n)

\* what the next playlist is compared with was offered, or skipped at the start
ComparedInv ==
  /\ Running(reloadPc) => Segments(m_strOldM3u8Content) \subseteq offered \cup skipped
  /\ reloadPc = "enqueue" => Segments(m3u8_content) \subseteq offered \cup skipped

KeptInv == offered \subseteq ToSet(Taken) \cup failed \cup ToSet(m_dqTsUrl) \cup ToSet(todo)

OrderInv ==
  ServedInv /\ PlacesInv /\ FrontInv /\ StretchesInv /\ BoundInv /\ ComparedInv /\ KeptInv

(* The first of q moves to the end of h. *)
FirstMoved(h, q, to, from, m, n) ==
  /\ DOMAIN h = 1 .. m /\ DOMAIN q = 1 .. n
  /\ DOMAIN to = 1 .. m + 1 /\ DOMAIN from = 1 .. n - 1
  /\ \A i \in 1 .. m : h[i] \in Nat /\ to[i] = h[i]
  /\ \A i \in 1 .. n : q[i] \in Nat
  /\ to[m + 1] = q[1]
  /\ \A i \in 1 .. n - 1 : from[i] = q[i + 1]

(* What to followed by from has of h followed by q. *)
SameOrder(h, q, to, from) ==
  /\ ToSet(to) \cup ToSet(from) = ToSet(h) \cup ToSet(q)
  /\ Rising(h) /\ Rising(q) /\ Ahead(h, q) => Rising(to) /\ Rising(from) /\ Ahead(to, from)
  /\ \A t : Ahead(t, h) /\ Ahead(t, q) => Ahead(t, to) /\ Ahead(t, from)
  /\ \A t : Ahead(h, t) /\ Ahead(q, t) => Ahead(to, t) /\ Ahead(from, t)
  /\ \A k : UpTo(h, k) /\ UpTo(q, k) => UpTo(to, k) /\ UpTo(from, k)

(* They are the same elements in the same order. *)
LEMMA FirstMoves ==
  ASSUME NEW h, NEW q, NEW to, NEW from, NEW m \in Nat, NEW n \in Nat \ {0},
         FirstMoved(h, q, to, from, m, n)
  PROVE  SameOrder(h, q, to, from)
<1> USE DEF FirstMoved
<1>1. /\ \A i \in DOMAIN to : \/ i \in DOMAIN h /\ to[i] = h[i]
                              \/ i = m + 1 /\ 1 \in DOMAIN q /\ to[i] = q[1]
      /\ \A i \in DOMAIN from : i + 1 \in DOMAIN q /\ from[i] = q[i + 1]
  <2>1. \A i \in 1 .. m + 1 : i \in 1 .. m \/ i = m + 1
    OBVIOUS
  <2>2. 1 \in 1 .. n /\ \A i \in 1 .. n - 1 : i + 1 \in 1 .. n
    OBVIOUS
  <2> QED BY <2>1, <2>2
<1>2. /\ \A i \in DOMAIN h : i \in DOMAIN to /\ to[i] = h[i]
      /\ m + 1 \in DOMAIN to
      /\ \A i \in DOMAIN q : i # 1 => i - 1 \in DOMAIN from /\ from[i - 1] = q[i]
  <2>1. m + 1 \in 1 .. m + 1 /\ \A i \in 1 .. m : i \in 1 .. m + 1
    OBVIOUS
  <2>2. ASSUME NEW i \in 1 .. n, i # 1 PROVE i - 1 \in 1 .. n - 1 /\ from[i - 1] = q[i]
    <3>1. i - 1 \in 1 .. n - 1 /\ (i - 1) + 1 = i
      BY <2>2
    <3> QED BY <3>1
  <2> QED BY <2>1, <2>2
<1>3. ToSet(to) \cup ToSet(from) = ToSet(h) \cup ToSet(q)
  <2>1. \A i \in DOMAIN to : to[i] \in ToSet(h) \cup ToSet(q)
    BY <1>1 DEF ToSet
  <2>2. \A i \in DOMAIN from : from[i] \in ToSet(q)
    BY <1>1 DEF ToSet
  <2>3. \A i \in DOMAIN h : h[i] \in ToSet(to)
    BY <1>2 DEF ToSet
  <2>4. \A i \in DOMAIN q : q[i] \in ToSet(to) \cup ToSet(from)
    BY <1>2 DEF ToSet
  <2>5. /\ ToSet(to) \subseteq ToSet(h) \cup ToSet(q) /\ ToSet(from) \subseteq ToSet(q)
        /\ ToSet(h) \subseteq ToSet(to) /\ ToSet(q) \subseteq ToSet(to) \cup ToSet(from)
    BY <2>1, <2>2, <2>3, <2>4 DEF ToSet
  <2> QED BY <2>5
<1>4. ASSUME Rising(h), Rising(q), Ahead(h, q)
      PROVE  Rising(to) /\ Rising(from) /\ Ahead(to, from)
  <2>1. ASSUME NEW i \in 1 .. m + 1, NEW j \in 1 .. m + 1, i < j PROVE to[i] < to[j]
    <3>1. i \in 1 .. m /\ (j \in 1 .. m \/ j = m + 1) /\ 1 \in 1 .. n
      BY <2>1
    <3>2. h[i] < q[1] /\ (j \in 1 .. m => h[i] < h[j])
      BY <1>4, <2>1, <3>1 DEF Rising, Ahead
    <3> QED BY <3>1, <3>2
  <2>2. ASSUME NEW i \in 1 .. n - 1, NEW j \in 1 .. n - 1, i < j PROVE from[i] < from[j]
    <3>1. i + 1 \in 1 .. n /\ j + 1 \in 1 .. n /\ i + 1 < j + 1
      BY <2>2
    <3>2. q[i + 1] < q[j + 1]
      BY <1>4, <3>1 DEF Rising
    <3> QED BY <3>2
  <2>3. ASSUME NEW i \in 1 .. m + 1, NEW j \in 1 .. n - 1 PROVE to[i] < from[j]
    <3>1. /\ 1 \in 1 .. n /\ j + 1 \in 1 .. n /\ 1 < j + 1
          /\ i \in 1 .. m \/ i = m + 1
      OBVIOUS
    <3>2. q[1] < q[j + 1] /\ (i \in 1 .. m => h[i] < q[j + 1])
      BY <1>4, <3>1 DEF Rising, Ahead
    <3> QED BY <3>1, <3>2
  <2> QED BY <2>1, <2>2, <2>3 DEF Rising, Ahead
<1>5. \A t : Ahead(t, h) /\ Ahead(t, q) => Ahead(t, to) /\ Ahead(t, from)
  BY <1>1, Zenon DEF Ahead
<1>6. \A t : Ahead(h, t) /\ Ahead(q, t) => Ahead(to, t) /\ Ahead(from, t)
  BY <1>1, Zenon DEF Ahead
<1>7. \A k : UpTo(h, k) /\ UpTo(q, k) => UpTo(to, k) /\ UpTo(from, k)
  BY <1>1, Zenon DEF UpTo
<1> QED BY <1>3, <1>4, <1>5, <1>6, <1>7 DEF SameOrder

(* The same of two queues. *)
LEMMA MoveFront ==
  ASSUME NEW h \in Seq(Nat), NEW q \in Seq(Nat), q # <<>>, NEW to, NEW from,
         to = Append(h, Head(q)), from = Tail(q)
  PROVE  /\ to \in Seq(Nat) /\ from \in Seq(Nat) /\ to # <<>>
         /\ h # <<>> => Head(to) = Head(h)
         /\ SameOrder(h, q, to, from)
<1>1. /\ Len(h) \in Nat /\ DOMAIN h = 1 .. Len(h) /\ \A i \in 1 .. Len(h) : h[i] \in Nat
      /\ Len(q) \in Nat \ {0} /\ DOMAIN q = 1 .. Len(q) /\ \A i \in 1 .. Len(q) : q[i] \in Nat
      /\ Head(q) = q[1]
  BY LenProperties, EmptySeq, ElementOfSeq
<1>2. /\ to \in Seq(Nat) /\ Len(to) = Len(h) + 1 /\ DOMAIN to = 1 .. Len(h) + 1
      /\ \A i \in 1 .. Len(h) : to[i] = h[i]
      /\ to[Len(h) + 1] = q[1]
  BY <1>1, AppendProperties, LenProperties
<1>3. /\ from \in Seq(Nat) /\ Len(from) = Len(q) - 1 /\ DOMAIN from = 1 .. Len(q) - 1
      /\ \A i \in 1 .. Len(q) - 1 : from[i] = q[i + 1]
  BY <1>1, HeadTailProperties, LenProperties
<1>4. to # <<>> /\ (h # <<>> => Head(to) = Head(h))
  <2>1. to # <<>>
    BY <1>1, <1>2, EmptySeq
  <2>2. ASSUME h # <<>> PROVE Head(to) = Head(h)
    <3>1. Len(h) \in Nat \ {0}
      BY <2>2, EmptySeq
    <3>2. Head(h) = h[1] /\ Head(to) = to[1]
      BY <1>2, <2>1, <2>2
    <3> QED BY <1>2, <3>1, <3>2
  <2> QED BY <2>1, <2>2
<1>5. PICK m \in Nat, n \in Nat \ {0} : m = Len(h) /\ n = Len(q)
  BY <1>1
<1>6. FirstMoved(h, q, to, from, m, n)
  BY <1>1, <1>2, <1>3, <1>5 DEF FirstMoved
<1> QED BY <1>2, <1>3, <1>4, <1>6, FirstMoves

(* A playlist in order, or a stretch of one, rises. *)
LEMMA InOrderRises ==
  ASSUME NEW a \in Nat, NEW b \in Nat
  PROVE  /\ InOrder(a .. b) \in Seq(Nat) /\ Rising(InOrder(a .. b))
         /\ ToSet(InOrder(a .. b)) = a .. b
<1> DEFINE n == Cardinality(a .. b)
           nth(k) == CHOOSE s \in a .. b : Cardinality({r \in a .. b : r < s}) = k - 1
<1>1. n = IF a > b THEN 0 ELSE b - a + 1
  BY FS_Interval
<1>2. ASSUME NEW s \in a .. b PROVE Cardinality({r \in a .. b : r < s}) = s - a
  <2> DEFINE before == {r \in a .. b : r < s}
  <2>1. before = a .. s - 1
    OBVIOUS
  <2>2. Cardinality(a .. s - 1) = IF a > s - 1 THEN 0 ELSE (s - 1) - a + 1
    BY FS_Interval
  <2>3. a <= s /\ s \in Int
    OBVIOUS
  <2> HIDE DEF before
  <2>4. Cardinality(before) = s - a
    BY <2>1, <2>2, <2>3
  <2> QED BY <2>4 DEF before
<1>3. ASSUME NEW k \in 1 .. n PROVE nth(k) = a + k - 1
  <2>1. a + k - 1 \in a .. b
    BY <1>1
  <2>2. Cardinality({r \in a .. b : r < a + k - 1}) = k - 1
    BY <1>2, <2>1
  <2>3. \A s \in a .. b : Cardinality({r \in a .. b : r < s}) = k - 1 => s = a + k - 1
    BY <1>2
  <2> QED BY <2>1, <2>2, <2>3
<1>4. InOrder(a .. b) = [k \in 1 .. n |-> nth(k)]
  BY DEF InOrder
<1>5. n \in Nat
  BY <1>1
<1>6. \A k \in 1 .. n : a + k - 1 \in Nat
  BY <1>5
<1> HIDE DEF n, nth
<1>7. InOrder(a .. b) = [k \in 1 .. n |-> a + k - 1]
  BY <1>3, <1>4
<1>8. [k \in 1 .. n |-> a + k - 1] \in Seq(Nat)
  BY <1>5, <1>6, IsASeq
<1>9. Rising(InOrder(a .. b))
  <2> SUFFICES ASSUME NEW i \in 1 .. n, NEW j \in 1 .. n, i < j
               PROVE  InOrder(a .. b)[i] < InOrder(a .. b)[j]
    BY <1>7 DEF Rising
  <2>1. a + i - 1 < a + j - 1
    BY <1>5
  <2> QED BY <1>7, <2>1
<1>10. ToSet(InOrder(a .. b)) = a .. b
  <2>1. ToSet(InOrder(a .. b)) = {a + k - 1 : k \in 1 .. n}
    BY <1>7 DEF ToSet
  <2>2. ASSUME NEW x \in a .. b PROVE x \in {a + k - 1 : k \in 1 .. n}
    <3>1. x - a + 1 \in 1 .. n /\ x = a + (x - a + 1) - 1
      BY <1>1, <2>2
    <3> QED BY <3>1
  <2>3. \A k \in 1 .. n : a + k - 1 \in a .. b
    BY <1>1
  <2> QED BY <2>1, <2>2, <2>3
<1> QED BY <1>7, <1>8, <1>9, <1>10

(* What a later playlist adds lies behind all the earlier one had. *)
LEMMA NewAreBehind ==
  ASSUME NEW old \in Playlist, NEW new \in Playlist, NoOlder(old, new)
  PROVE  \E a \in Nat : /\ a > old.last
                        /\ Segments(new) \ Segments(old) = a .. new.last
<1> DEFINE a == IF new.first > old.last THEN new.first ELSE old.last + 1
<1>1. /\ old.first \in Nat /\ old.last \in Nat /\ old.first >= 1
      /\ new.first \in Nat /\ new.last \in Nat /\ new.first >= 1
      /\ old.first <= new.first /\ old.last <= new.last
  BY DEF Playlist, NoOlder
<1>2. a \in Nat /\ a > old.last
  BY <1>1
<1>3. Segments(new) \ Segments(old) = a .. new.last
  BY <1>1 DEF Segments
<1> QED BY <1>2, <1>3

-----------------------------------------------------------------------------
(* The origin only goes forward. *)
LEMMA ServerOrder == OrderInv /\ Server => OrderInv'
<1> SUFFICES ASSUME OrderInv, Server PROVE OrderInv'
  OBVIOUS
<1>1. /\ UNCHANGED <<mainPc, reloadPc, m3u8_content, m_strOldM3u8Content, todo, m_dqTsUrl, url,
                     analysed, failed, skipped, offered>>
      /\ UNCHANGED Taken
  BY DEF Server, Publish, End, reload, results, expected, Taken
<1>2. server' \in Playlist /\ NoOlder(server, server')
  <2>0. /\ server \in [first : Nat \ {0}, last : Nat, ended : BOOLEAN]
        /\ server.first <= server.last + 1
    BY DEF OrderInv, ServedInv, Playlist
  <2>1. CASE Publish
    <3> DEFINE n == server.last + 1
               f == IF n - server.first >= Window THEN server.first + 1 ELSE server.first
    <3>1. /\ server' = [first |-> f, last |-> n, ended |-> server.ended]
          /\ f \in Nat \ {0} /\ f <= n + 1 /\ server.first <= f /\ n \in Nat /\ server.last <= n
      <4>1. server' = [server EXCEPT !.last = n, !.first = f]
        BY <2>1 DEF Publish
      <4>2. f \in Nat \ {0} /\ f <= n + 1 /\ server.first <= f /\ n \in Nat /\ server.last <= n
        BY <2>0, WindowAssumption
      <4> HIDE DEF n, f
      <4> QED BY <2>0, <4>1, <4>2
    <3> HIDE DEF n, f
    <3> QED BY <2>0, <3>1 DEF Playlist, NoOlder
  <2>2. CASE End
    <3>1. server' = [first |-> server.first, last |-> server.last, ended |-> TRUE]
      BY <2>0, <2>2 DEF End
    <3> QED BY <2>0, <3>1 DEF Playlist, NoOlder
  <2> QED BY <2>1, <2>2 DEF Server
<1>3. ServedInv'
  BY <1>1, <1>2 DEF OrderInv, ServedInv, Playlist, NoOlder
<1> QED BY <1>1, <1>3 DEF OrderInv, PlacesInv, FrontInv, StretchesInv, BoundInv, ComparedInv,
                          KeptInv, Running, Segments

(* A presentation on demand is queued whole; a segment leaves the queue to be
   analysed, or reported as failed; nothing else the main thread does touches
   what is in order. *)
LEMMA MainOrder == OrderInv /\ Main => OrderInv'
<1> SUFFICES ASSUME OrderInv, Main PROVE OrderInv'
  OBVIOUS
<1> USE DEF OrderInv
<1>1. CASE RunSelectStream
  <2>1. /\ mainPc = "getm3u8" /\ mainPc' = "start" /\ m_strOldM3u8Content' = server
        /\ UNCHANGED <<server, m3u8_content, todo, reloadPc, m_dqTsUrl, url,
                       analysed, failed, skipped, offered>>
    BY <1>1 DEF RunSelectStream, otherThanMain, results, expected
  <2>2. ServedInv'
    BY <2>1 DEF ServedInv, PlacesInv, NoOlder, Playlist
  <2>3. UNCHANGED Taken /\ Taken = <<>>
    BY <2>1 DEF Taken, PlacesInv
  <2>4. BoundInv' /\ ComparedInv'
    BY <2>1, <2>3 DEF BoundInv, ComparedInv, Running, PlacesInv, UpTo
  <2> QED BY <2>1, <2>2, <2>3, <2>4 DEF PlacesInv, FrontInv, StretchesInv, KeptInv
<1>2. CASE RunStartVod
  <2>1. /\ mainPc = "start" /\ mainPc' = "loop"
        /\ m_dqTsUrl' = InOrder(Segments(m_strOldM3u8Content))
        /\ offered' = Segments(m_strOldM3u8Content)
        /\ UNCHANGED <<server, m3u8_content, m_strOldM3u8Content, todo, reloadPc, url,
                       analysed, failed>>
    BY <1>2 DEF RunStartVod, otherThanMain, results
  <2>2. reloadPc = "none" /\ analysed = <<>> /\ todo = <<>> /\ Taken' = <<>>
    BY <2>1 DEF PlacesInv, Taken
  <2>3. PICK a \in Nat, b \in Nat : b = m_strOldM3u8Content.last
                                   /\ Segments(m_strOldM3u8Content) = a .. b
    BY DEF ServedInv, Playlist, Segments
  <2>4. m_dqTsUrl' \in Seq(Nat) /\ Rising(m_dqTsUrl') /\ ToSet(m_dqTsUrl') = a .. b
    BY <2>1, <2>3, InOrderRises
  <2>5. PlacesInv' /\ FrontInv' /\ ComparedInv' /\ KeptInv'
    BY <2>1, <2>2, <2>3, <2>4 DEF PlacesInv, FrontInv, ComparedInv, Running, KeptInv
  <2>6. StretchesInv'
    BY <2>1, <2>2, <2>4 DEF StretchesInv, Ahead, Rising
  <2>7. BoundInv'
    <3>1. UpTo(m_dqTsUrl', b)
      BY <2>4 DEF UpTo, ToSet
    <3> QED BY <2>1, <2>2, <2>3, <3>1 DEF BoundInv, UpTo
  <2> QED BY <2>1, <2>5, <2>6, <2>7 DEF ServedInv
<1>3. CASE RunStartLive
  <2>1. /\ mainPc = "start" /\ mainPc' = "loop" /\ reloadPc' \in {"check", "none"}
        /\ skipped' = Segments(m_strOldM3u8Content)
        /\ UNCHANGED <<server, m3u8_content, m_strOldM3u8Content, todo, m_dqTsUrl, url,
                       analysed, failed, offered>>
    BY <1>3 DEF RunStartLive, otherThanMain, results
  <2>2. reloadPc = "none" /\ UNCHANGED Taken
    BY <2>1 DEF PlacesInv, Taken
  <2>3. ServedInv' /\ PlacesInv' /\ FrontInv' /\ StretchesInv' /\ BoundInv' /\ KeptInv'
    BY <2>1, <2>2 DEF ServedInv, PlacesInv, FrontInv, StretchesInv, BoundInv, KeptInv
  <2>4. ComparedInv'
    BY <2>1 DEF ComparedInv
  <2> QED BY <2>3, <2>4
<1>4. CASE LoopPop
  <2>1. /\ mainPc = "pop" /\ mainPc' = "analyse" /\ m_dqTsUrl # <<>> /\ url = Head(m_dqTsUrl)
        /\ m_dqTsUrl' = Tail(m_dqTsUrl)
        /\ UNCHANGED <<server, m3u8_content, m_strOldM3u8Content, todo, reloadPc, url,
                       analysed, failed, skipped, offered>>
    BY <1>4 DEF LoopPop, loopOnly, otherThanMain, results, expected, FrontInv
  <2>2. Taken' = Append(Taken, Head(m_dqTsUrl))
    BY <2>1 DEF Taken
  <2>3. /\ Taken' \in Seq(Nat) /\ m_dqTsUrl' \in Seq(Nat)
        /\ SameOrder(Taken, m_dqTsUrl, Taken', m_dqTsUrl')
    BY <2>1, <2>2, MoveFront DEF PlacesInv
  <2>4. PlacesInv' /\ FrontInv' /\ ComparedInv'
    BY <2>1, <2>3 DEF PlacesInv, FrontInv, ComparedInv, Running
  <2>5. StretchesInv' /\ BoundInv' /\ KeptInv'
    BY <2>1, <2>3 DEF StretchesInv, BoundInv, KeptInv, SameOrder
  <2> QED BY <2>1, <2>4, <2>5 DEF ServedInv
<1>5. CASE LoopDrop
  <2>1. /\ mainPc = "drop" /\ mainPc' = "loop" /\ m_dqTsUrl # <<>> /\ Head(m_dqTsUrl) \in failed
        /\ m_dqTsUrl' = Tail(m_dqTsUrl)
        /\ UNCHANGED <<server, m3u8_content, m_strOldM3u8Content, todo, reloadPc, url,
                       analysed, failed, skipped, offered>>
    BY <1>5 DEF LoopDrop, loopOnly, otherThanMain, results, expected, FrontInv
  <2>2. UNCHANGED Taken
    BY <2>1 DEF Taken
  <2> DEFINE front == <<Head(m_dqTsUrl)>>
  <2>3. /\ front = Append(<<>>, Head(m_dqTsUrl)) /\ ToSet(front) = {Head(m_dqTsUrl)}
        /\ <<>> \in Seq(Nat)
    BY DEF ToSet
  <2> HIDE DEF front
  <2>4. m_dqTsUrl' \in Seq(Nat) /\ SameOrder(<<>>, m_dqTsUrl, front, m_dqTsUrl')
    BY <2>1, <2>3, MoveFront DEF PlacesInv
  <2>5. /\ Rising(<<>>) /\ ToSet(<<>>) = {}
        /\ \A s : Ahead(<<>>, s) /\ Ahead(s, <<>>)
        /\ \A k : UpTo(<<>>, k)
    BY DEF Rising, ToSet, Ahead, UpTo
  <2>6. PlacesInv' /\ FrontInv' /\ ComparedInv'
    BY <2>1, <2>2, <2>4 DEF PlacesInv, FrontInv, ComparedInv, Running
  <2>7. StretchesInv' /\ BoundInv'
    BY <2>1, <2>2, <2>4, <2>5 DEF StretchesInv, BoundInv, SameOrder
  <2>8. KeptInv'
    BY <2>1, <2>2, <2>3, <2>4, <2>5 DEF KeptInv, SameOrder
  <2> QED BY <2>1, <2>6, <2>7, <2>8 DEF ServedInv
<1>6. CASE LoopAnalyse
  <2>1. /\ mainPc = "analyse" /\ mainPc' = "loop" /\ analysed' = Append(analysed, url)
        /\ UNCHANGED <<server, m3u8_content, m_strOldM3u8Content, todo, reloadPc, m_dqTsUrl, url,
                       failed, skipped, offered>>
    BY <1>6 DEF LoopAnalyse, loopOnly, otherThanMain, expected
  <2>2. UNCHANGED Taken /\ analysed' = Taken
    BY <2>1 DEF Taken
  <2> QED BY <2>1, <2>2 DEF ServedInv, PlacesInv, FrontInv, StretchesInv, BoundInv, ComparedInv,
                            Running, KeptInv
<1>7. CASE \/ RunFails \/ LoopTest \/ LoopEmpty \/ LoopIsLive \/ LoopHead \/ RunJoin
           \/ DownloadTimeout \/ DownloadSucceeds \/ DownloadFails
  <2>1. /\ UNCHANGED <<server, m3u8_content, m_strOldM3u8Content, todo, reloadPc, m_dqTsUrl,
                       analysed, skipped, offered>>
        /\ failed \subseteq failed'
    BY <1>7 DEF RunFails, LoopTest, LoopEmpty, LoopIsLive, LoopHead, RunJoin, DownloadTimeout,
                DownloadSucceeds, DownloadFails, loopOnly, otherThanMain, results, expected
  <2>2. mainPc # "analyse" /\ mainPc' \notin {"getm3u8", "start", "analyse"}
    BY <1>7 DEF RunFails, LoopTest, LoopEmpty, LoopIsLive, LoopHead, RunJoin, DownloadTimeout,
                DownloadSucceeds, DownloadFails
  <2>3. UNCHANGED Taken
    BY <2>1, <2>2 DEF Taken
  <2>4. FrontInv'
    BY <1>7 DEF RunFails, LoopTest, LoopEmpty, LoopIsLive, LoopHead, RunJoin, DownloadTimeout,
                DownloadSucceeds, DownloadFails, FrontInv
  <2> QED BY <2>1, <2>2, <2>3, <2>4 DEF ServedInv, PlacesInv, StretchesInv, BoundInv, ComparedInv,
                                        Running, KeptInv
<1> QED BY <1>1, <1>2, <1>3, <1>4, <1>5, <1>6, <1>7 DEF Main, MainSteps, DownloadEnds

(* What a reloaded playlist adds goes behind the queue, and only then does the
   playlist become the one the next is compared with. *)
LEMMA ReloadOrder == OrderInv /\ Reload => OrderInv'
<1> SUFFICES ASSUME OrderInv, Reload PROVE OrderInv'
  OBVIOUS
<1> USE DEF OrderInv
<1>0. /\ UNCHANGED <<server, mainPc, url, analysed, failed, skipped>> /\ UNCHANGED Taken
      /\ mainPc \notin {"getm3u8", "start"} /\ Running(reloadPc)
  BY DEF Reload, ReloadCheck, ReloadFetchFails, ReloadFetch, ReloadWait, ReloadParse,
         ReloadEnqueue, ReloadRemember, otherThanReload, results, PlacesInv, Taken, Running
<1>1. CASE ReloadCheck \/ ReloadFetchFails \/ ReloadWait
  <2>1. /\ UNCHANGED <<m3u8_content, m_strOldM3u8Content, todo, m_dqTsUrl, offered>>
        /\ reloadPc # "enqueue" /\ reloadPc' \notin {"wait", "parse", "enqueue"}
    BY <1>1 DEF ReloadCheck, ReloadFetchFails, ReloadWait
  <2> QED BY <1>0, <2>1 DEF ServedInv, PlacesInv, FrontInv, StretchesInv, BoundInv, ComparedInv,
                            KeptInv
<1>2. CASE ReloadFetch
  <2>1. /\ UNCHANGED <<m_strOldM3u8Content, todo, m_dqTsUrl, offered>> /\ m3u8_content' = server
        /\ reloadPc = "fetch" /\ reloadPc' \in {"wait", "parse"}
    BY <1>2 DEF ReloadFetch
  <2>2. ServedInv'
    BY <1>0, <2>1 DEF ServedInv, NoOlder, Playlist
  <2> QED BY <1>0, <2>1, <2>2 DEF PlacesInv, FrontInv, StretchesInv, BoundInv, ComparedInv, KeptInv
<1>3. CASE ReloadParse
  <2>1. /\ UNCHANGED <<m3u8_content, m_strOldM3u8Content, m_dqTsUrl>> /\ reloadPc = "parse"
        /\ \/ reloadPc' = "check" /\ UNCHANGED <<todo, offered>>
           \/ /\ reloadPc' = "enqueue" /\ todo' = InOrder(NewSegments)
              /\ offered' = offered \cup (Segments(m3u8_content) \ skipped)
    BY <1>3 DEF ReloadParse
  <2>2. ServedInv'
    BY <1>0, <2>1 DEF ServedInv
  <2>3. CASE reloadPc' = "check"
    <3>1. UNCHANGED <<todo, offered>>
      BY <2>1, <2>3
    <3> QED BY <1>0, <2>1, <2>2, <2>3, <3>1 DEF PlacesInv, FrontInv, StretchesInv, BoundInv,
                                               ComparedInv, KeptInv
  <2>4. CASE reloadPc' = "enqueue"
    <3> DEFINE b == m3u8_content.last
    <3>1. /\ m_strOldM3u8Content \in Playlist /\ m3u8_content \in Playlist
          /\ NoOlder(m_strOldM3u8Content, m3u8_content)
      BY <2>1 DEF ServedInv
    <3>2. PICK a \in Nat : a > m_strOldM3u8Content.last /\ NewSegments = a .. b
      BY <3>1, NewAreBehind DEF NewSegments
    <3>3. b \in Nat /\ m_strOldM3u8Content.last \in Nat /\ m_strOldM3u8Content.last <= b
      BY <3>1 DEF Playlist, NoOlder
    <3>4. todo' \in Seq(Nat) /\ Rising(todo') /\ ToSet(todo') = a .. b
      BY <2>1, <2>4, <3>2, <3>3, InOrderRises
    <3>5. /\ todo = <<>> /\ Taken \in Seq(Nat) /\ m_dqTsUrl \in Seq(Nat)
          /\ UpTo(Taken, m_strOldM3u8Content.last) /\ UpTo(m_dqTsUrl, m_strOldM3u8Content.last)
      BY <2>1 DEF PlacesInv, BoundInv
    <3>6. /\ \A i \in DOMAIN Taken : Taken[i] \in Nat
          /\ \A i \in DOMAIN m_dqTsUrl : m_dqTsUrl[i] \in Nat
          /\ \A i \in DOMAIN todo' : todo'[i] \in a .. b
      <4>1. \A s \in Seq(Nat) : \A i \in DOMAIN s : s[i] \in Nat
        OBVIOUS
      <4>2. \A i \in DOMAIN todo' : todo'[i] \in ToSet(todo')
        BY DEF ToSet
      <4> QED BY <3>4, <3>5, <4>1, <4>2
    <3>7. StretchesInv'
      <4>1. Ahead(Taken, todo') /\ Ahead(m_dqTsUrl, todo')
        BY <3>2, <3>3, <3>5, <3>6 DEF Ahead, UpTo
      <4> QED BY <1>0, <2>1, <3>4, <4>1 DEF StretchesInv
    <3>8. BoundInv'
      <4>1. UpTo(Taken, b) /\ UpTo(m_dqTsUrl, b) /\ UpTo(todo', b)
        BY <3>3, <3>5, <3>6 DEF UpTo
      <4> QED BY <1>0, <2>1, <2>4, <4>1 DEF BoundInv
    <3>9. ToSet(todo) = {} /\ ToSet(todo') = NewSegments
      BY <3>2, <3>4, <3>5 DEF ToSet
    <3>10. Segments(m3u8_content) \ skipped \subseteq offered \cup NewSegments
      BY <1>0 DEF ComparedInv, NewSegments
    <3>11. KeptInv'
      BY <1>0, <2>1, <2>4, <3>9, <3>10 DEF KeptInv
    <3>12. ComparedInv'
      BY <1>0, <2>1, <2>4 DEF ComparedInv
    <3> QED BY <1>0, <2>1, <2>2, <2>4, <3>4, <3>7, <3>8, <3>11, <3>12 DEF PlacesInv, FrontInv
  <2> QED BY <2>1, <2>3, <2>4
<1>4. CASE ReloadEnqueue
  <2>1. /\ UNCHANGED <<m3u8_content, m_strOldM3u8Content, reloadPc, offered>>
        /\ reloadPc = "enqueue" /\ todo # <<>>
        /\ m_dqTsUrl' = Append(m_dqTsUrl, Head(todo)) /\ todo' = Tail(todo)
    BY <1>4 DEF ReloadEnqueue
  <2>2. /\ m_dqTsUrl' \in Seq(Nat) /\ todo' \in Seq(Nat) /\ m_dqTsUrl' # <<>>
        /\ m_dqTsUrl # <<>> => Head(m_dqTsUrl') = Head(m_dqTsUrl)
        /\ SameOrder(m_dqTsUrl, todo, m_dqTsUrl', todo')
    BY <2>1, MoveFront DEF PlacesInv
  <2>3. PlacesInv' /\ FrontInv' /\ ComparedInv'
    BY <1>0, <2>1, <2>2 DEF PlacesInv, FrontInv, ComparedInv
  <2>4. StretchesInv' /\ BoundInv' /\ KeptInv'
    BY <1>0, <2>1, <2>2 DEF StretchesInv, BoundInv, KeptInv, SameOrder
  <2> QED BY <1>0, <2>1, <2>3, <2>4 DEF ServedInv
<1>5. CASE ReloadRemember
  <2>1. /\ UNCHANGED <<m3u8_content, todo, m_dqTsUrl, offered>> /\ todo = <<>>
        /\ reloadPc = "enqueue" /\ reloadPc' = "check" /\ m_strOldM3u8Content' = m3u8_content
    BY <1>5 DEF ReloadRemember
  <2>2. ServedInv'
    BY <1>0, <2>1 DEF ServedInv
  <2> QED BY <1>0, <2>1, <2>2 DEF PlacesInv, FrontInv, StretchesInv, BoundInv, ComparedInv, KeptInv
<1> QED BY <1>1, <1>2, <1>3, <1>4, <1>5 DEF Reload

(* Taken, m_dqTsUrl and todo stay one rising sequence that misses only what failed. *)
LEMMA AlwaysOrderInv == Spec => []OrderInv
<1>1. Init => OrderInv
  <2> SUFFICES ASSUME Init PROVE OrderInv
    OBVIOUS
  <2>1. PICK n \in 0 .. MaxSegments, e \in Endings :
          server = [first |-> IF n > Window /\ ~e THEN n - Window + 1 ELSE 1,
                    last |-> n, ended |-> e]
    BY DEF Init
  <2>2. server \in Playlist /\ m_strOldM3u8Content = server /\ m3u8_content = server
    <3> DEFINE f == IF n > Window /\ ~e THEN n - Window + 1 ELSE 1
    <3>1. /\ n \in Nat /\ e \in BOOLEAN /\ f \in Nat \ {0} /\ f <= n + 1
          /\ server = [first |-> f, last |-> n, ended |-> e]
      BY <2>1, WindowAssumption
    <3> HIDE DEF f
    <3>2. server \in Playlist
      BY <3>1 DEF Playlist
    <3> QED BY <3>2 DEF Init
  <2>3. ServedInv
    BY <2>2 DEF ServedInv, Playlist, NoOlder
  <2>4. Taken = <<>>
    BY DEF Init, Taken
  <2>5. PlacesInv /\ FrontInv /\ ComparedInv /\ KeptInv
    BY <2>4, EmptySeq DEF Init, PlacesInv, FrontInv, ComparedInv, Running, KeptInv
  <2>6. StretchesInv /\ BoundInv
    BY <2>4 DEF Init, StretchesInv, BoundInv, Rising, Ahead, UpTo
  <2> QED BY <2>3, <2>5, <2>6 DEF OrderInv
<1>2. OrderInv /\ [Next]_vars => OrderInv'
  <2> SUFFICES ASSUME OrderInv, [Next]_vars PROVE OrderInv'
    OBVIOUS
  <2>1. CASE StopFlag \/ Stop \/ Stopped \/ UNCHANGED vars
    <3>1. /\ UNCHANGED <<server, mainPc, reloadPc, m3u8_content, m_strOldM3u8Content, todo,
                         m_dqTsUrl, url, analysed, failed, skipped, offered>>
          /\ UNCHANGED Taken
      BY <2>1 DEF StopFlag, Stop, StopCancel, StopJoin, Stopped, otherThanApi, reload, vars,
                  results, expected, Taken
    <3> QED BY <3>1 DEF OrderInv, ServedInv, PlacesInv, FrontInv, StretchesInv, BoundInv,
                        ComparedInv, Running, KeptInv
  <2> QED BY <2>1, ServerOrder, MainOrder, ReloadOrder DEF Next
<1> QED BY <1>1, <1>2, PTL DEF Spec

(* Whatever order the three threads take their steps in, MainLoop analyses the
   segments in playlist order and each at most once. *)
THEOREM AnalysedInOrder == Spec => []SegmentsInOrder
<1>1. OrderInv => SegmentsInOrder
  <2> SUFFICES ASSUME OrderInv, NEW k \in 1 .. Len(analysed) - 1
               PROVE  analysed[k] < analysed[k + 1]
    BY DEF SegmentsInOrder
  <2>1. analysed \in Seq(Nat) /\ Rising(Taken)
    BY DEF OrderInv, PlacesInv, StretchesInv
  <2>2. /\ k \in 1 .. Len(analysed) /\ k + 1 \in 1 .. Len(analysed) /\ k < k + 1
        /\ Len(analysed) \in Nat
    BY <2>1, LenProperties
  <2>3. \A i \in 1 .. Len(analysed) : i \in DOMAIN Taken /\ Taken[i] = analysed[i]
    <3>1. CASE mainPc = "analyse"
      <4>1. Taken = Append(analysed, url) /\ Len(Taken) = Len(analysed) + 1 /\ Taken \in Seq(Nat)
        BY <2>1, <3>1, LenProperties DEF Taken, OrderInv, PlacesInv
      <4>2. DOMAIN Taken = 1 .. Len(analysed) + 1
        BY <4>1, LenProperties
      <4>3. \A i \in 1 .. Len(analysed) : Taken[i] = analysed[i]
        BY <2>1, <4>1
      <4> QED BY <2>2, <4>2, <4>3
    <3>2. CASE mainPc # "analyse"
      BY <2>1, <3>2, LenProperties DEF Taken
    <3> QED BY <3>1, <3>2
  <2> QED BY <2>1, <2>2, <2>3 DEF Rising
<1> QED BY <1>1, AlwaysOrderInv, PTL

(* Of the segments parsed playlists offered none disappears: each is analysed,
   was reported as a download error, or is still on its way. *)
THEOREM NothingDropped == Spec => []NoSegmentLost
<1>1. OrderInv => NoSegmentLost
  <2> SUFFICES ASSUME OrderInv PROVE NoSegmentLost
    OBVIOUS
  <2>1. ToSet(Taken) \subseteq ToSet(analysed) \cup InHand
    <3>1. CASE mainPc = "analyse"
      <4>1. analysed \in Seq(Nat) /\ Taken = Append(analysed, url) /\ Taken \in Seq(Nat)
        BY <3>1 DEF Taken, OrderInv, PlacesInv
      <4>2. \A i \in DOMAIN Taken : \/ i \in DOMAIN analysed /\ Taken[i] = analysed[i]
                                    \/ Taken[i] = url
        BY <4>1, LenProperties
      <4> QED BY <3>1, <4>2 DEF ToSet, InHand
    <3>2. CASE mainPc # "analyse"
      BY <3>2 DEF Taken
    <3> QED BY <3>1, <3>2
  <2> QED BY <2>1 DEF NoSegmentLost, OrderInv, KeptInv
<1> QED BY <1>1, AlwaysOrderInv, PTL
=============================================================================
