---------------------------- MODULE ArchifyProofs ---------------------------
(***************************************************************************)
(* Theorems about the vendored diagram tool: the capture of brand marks,   *)
(* the check of repository evidence, the review of a comparison, the guard *)
(* of the cache of the update check, the order of releases and the guard   *)
(* of the output, for every value of their constants but where it says so. *)
(* Each part is proved by itself; the last part carries the results to the *)
(* behaviours of Archify.  What it draws is in DiagramProofs.              *)
(***************************************************************************)
EXTENDS Archify, TLAPS, FiniteSetTheorems, SequenceTheorems, WellFoundedInduction

CaptureType ==
  [status : {"none", "running", "captured", "unavailable"}, icon : Nat,
   await : {"", "lookup", "response", "html", "image"}, redirects : Nat, icons : Nat, until : Nat,
   digest : Digests \cup {""}]

(* A capture that runs has not passed its limit, which is the deadline of  *)
(* the diagram, or a tick later once a request was sent.                   *)
Timely(c, t) ==
  c.status = "running" =>
    /\ t <= c.until /\ c.until <= Deadline + 1
    /\ c.await = "lookup" => c.until = Deadline

BrandTypeInv ==
  /\ now \in Nat /\ cursor \in 1 .. Len(Brands) + 1
  /\ worker \in [Workers -> Brand!Nodes \cup {Idle}]
  /\ capture \in [Urls -> CaptureType]

TimeInv == \A u \in Urls : Timely(capture[u], now)

Settled(n) ==
  /\ Brands[n].kind # "none" => n \in DOMAIN mark
  /\ Brands[n].kind = "pinned" => mark[n] = Brands[n].digest

(* A node that was taken has its mark, or a worker waits for it, or there  *)
(* is a fault; when the command is over nobody waits.                      *)
MarksInv ==
  /\ \A w \in Workers : worker[w] # Idle => worker[w] < cursor /\ Brands[worker[w]].kind = "pinned"
  /\ \A n \in Brand!Nodes : n < cursor => Settled(n) \/ (\E w \in Workers : worker[w] = n) \/ unknown # <<>>
  /\ unknown \in Seq(Brand!Nodes \X {"unpinned", "strange", "unavailable", "digest"})
  /\ outcome # "" => cursor \notin Brand!Nodes /\ \A w \in Workers : worker[w] = Idle
  /\ outcome = "drawn" => unknown = <<>>

(* The nodes are numbered from 1, and none is the place of an idle worker. *)
LEMMA NodesAreNumbers ==
  ASSUME Brand!CaptureAssumption
  PROVE  /\ Len(Brands) \in Nat /\ Brand!Nodes = 1 .. Len(Brands) /\ Idle \notin Nat
         /\ \A n \in Brand!Nodes : n \in Nat /\ n >= 1 /\ n <= Len(Brands) /\ n # Idle
<1>1. Len(Brands) \in Nat /\ Brand!Nodes = 1 .. Len(Brands) /\ Idle \notin Nat
  BY LenProperties DEF Brand!CaptureAssumption, Brand!Nodes
<1> QED BY <1>1

(* What each node has of a brand.                                          *)
LEMMA NodesAre ==
  ASSUME Brand!CaptureAssumption
  PROVE  /\ Len(Brands) \in Nat /\ Brand!Nodes = 1 .. Len(Brands) /\ Idle \notin Brand!Nodes
         /\ \A n \in Brand!Nodes : Brands[n] \in [kind : {"none", "preset", "unpinned", "strange"}]
                                     \cup [kind : {"pinned"}, url : Urls, digest : Digests]
<1>1. Len(Brands) \in Nat /\ Brand!Nodes = 1 .. Len(Brands)
  BY LenProperties DEF Brand!CaptureAssumption, Brand!Nodes
<1>2. \A n \in 1 .. Len(Brands) : Brands[n] \in [kind : {"none", "preset", "unpinned", "strange"}]
                                     \cup [kind : {"pinned"}, url : Urls, digest : Digests]
  BY ElementOfSeq DEF Brand!CaptureAssumption
<1> QED BY <1>1, <1>2 DEF Brand!CaptureAssumption

(* A capture that is given up is not late.                                 *)
LEMMA UnavailableTimely ==
  ASSUME NEW c \in CaptureType, NEW t
  PROVE  Brand!Unavailable(c) \in CaptureType /\ Timely(Brand!Unavailable(c), t)
<1>1. Brand!Unavailable(c) \in CaptureType /\ Brand!Unavailable(c).status = "unavailable"
  BY DEF CaptureType, Brand!Unavailable
<1> QED BY <1>1 DEF Timely

(* What the turns of a capture make of it.                                 *)
LEMMA AfterFailureTimely ==
  ASSUME Brand!CaptureAssumption, NEW c \in CaptureType, NEW t \in Nat
  PROVE  /\ Brand!AfterFailure(c, t) \in CaptureType
         /\ Timely(Brand!AfterFailure(c, t), t)
<1> DEFINE n == c.icon + 1
           d == [c EXCEPT !.icon = n, !.await = "lookup", !.redirects = 0, !.until = Deadline]
<1>1. CASE c.icon = 0 \/ c.icon = c.icons \/ t >= Deadline
  BY <1>1, UnavailableTimely DEF Brand!AfterFailure
<1>2. CASE ~(c.icon = 0 \/ c.icon = c.icons \/ t >= Deadline)
  <2>1. Brand!AfterFailure(c, t) = d
    BY <1>2 DEF CaptureType, Brand!AfterFailure
  <2>2. n \in Nat /\ Deadline \in Nat /\ t < Deadline
    <3>1. c.icon \in Nat /\ Deadline \in Nat
      BY DEF CaptureType, Brand!CaptureAssumption
    <3> QED BY <1>2, <3>1
  <2> HIDE DEF n
  <2>3. d \in CaptureType /\ d.until = Deadline
    BY <2>2 DEF CaptureType
  <2> HIDE DEF d
  <2> QED BY <2>1, <2>2, <2>3 DEF Timely
<1> QED BY <1>1, <1>2

(* A capture that asks for an address has until the deadline.              *)
LEMMA AskTimely ==
  ASSUME Brand!CaptureAssumption, NEW c \in CaptureType, NEW t \in Nat
  PROVE  Brand!Ask(c, t) \in CaptureType /\ Timely(Brand!Ask(c, t), t)
<1> DEFINE d == [c EXCEPT !.await = "lookup", !.until = Deadline]
<1>1. CASE t >= Deadline
  BY <1>1, UnavailableTimely DEF Brand!Ask
<1>2. CASE ~(t >= Deadline)
  <2>1. Deadline \in Nat /\ t < Deadline
    BY <1>2 DEF Brand!CaptureAssumption
  <2>2. d \in CaptureType /\ d.until = Deadline
    BY <2>1 DEF CaptureType
  <2>3. Brand!Ask(c, t) = d
    BY <1>2 DEF Brand!Ask
  <2> HIDE DEF d
  <2> QED BY <2>1, <2>2, <2>3 DEF Timely
<1> QED BY <1>1, <1>2

(* A request has its own limit, at most a tick past the deadline.          *)
LEMMA RequestedTimely ==
  ASSUME Brand!CaptureAssumption, NEW c \in CaptureType, NEW t \in Nat, Timely(c, t),
         c.status = "running", c.await = "lookup"
  PROVE  Brand!Requested(c, t) \in CaptureType /\ Timely(Brand!Requested(c, t), t)
<1> DEFINE m == IF t < Deadline THEN Brand!Least(t + Patience, Deadline) ELSE t + 1
           d == [c EXCEPT !.await = "response", !.until = m]
<1>1. m \in Nat /\ t <= m /\ m <= Deadline + 1
  BY DEF Brand!CaptureAssumption, Brand!Least, Timely
<1>2. Brand!Requested(c, t) = d
  BY DEF Brand!Requested
<1> HIDE DEF m
<1>3. d \in CaptureType /\ d.until = m /\ d.await = "response"
  BY <1>1 DEF CaptureType
<1> HIDE DEF d
<1> QED BY <1>1, <1>2, <1>3 DEF Timely

(* A turn of one capture.                                                  *)
LEMMA TurnIsTimely ==
  ASSUME BrandTypeInv, TimeInv, NEW u \in Urls, NEW c \in CaptureType, Timely(c, now),
         Brand!Until(u, c), Brand!Elsewhere
  PROVE  BrandTypeInv' /\ TimeInv'
<1>1. /\ capture'[u] = c /\ \A v \in Urls \ {u} : capture'[v] = capture[v]
      /\ capture' \in [Urls -> CaptureType]
  BY DEF BrandTypeInv, Brand!Until
<1>2. now' = now
  BY DEF Brand!Elsewhere
<1>3. TimeInv'
  BY <1>1, <1>2 DEF TimeInv, Timely
<1> QED BY <1>1, <1>3 DEF BrandTypeInv, Brand!Elsewhere, Brand!Nodes

(* Every turn of a capture is within its limit.                            *)
LEMMA TurnsKeepTime ==
  ASSUME Brand!CaptureAssumption, BrandTypeInv, TimeInv, NEW u \in Urls,
         \/ Brand!Looked(u) \/ Brand!Redirected(u) \/ Brand!Answered(u) \/ Brand!ReadImage(u)
         \/ Brand!ReadPage(u) \/ Brand!GiveUp(u)
  PROVE  BrandTypeInv' /\ TimeInv' /\ Brand!Elsewhere
<1> DEFINE c == capture[u]
           Good(d) == d \in CaptureType /\ Timely(d, now)
<1>0. c \in CaptureType /\ now \in Nat /\ Timely(c, now)
  BY DEF BrandTypeInv, TimeInv
<1>1. Good(Brand!AfterFailure(c, now))
  BY <1>0, AfterFailureTimely
<1>2. \A d \in CaptureType : Good(Brand!Ask(d, now))
  BY <1>0, AskTimely
<1>3. Good(Brand!Unavailable(c))
  BY <1>0, UnavailableTimely
<1>4. ASSUME NEW d, Good(d), Brand!Until(u, d), Brand!Elsewhere PROVE BrandTypeInv' /\ TimeInv' /\ Brand!Elsewhere
  BY <1>4, TurnIsTimely
<1>5. CASE Brand!Looked(u)
  <2>1. Good(Brand!Requested(c, now))
    BY <1>0, <1>5, RequestedTimely DEF Brand!Looked, Brand!Busy
  <2>2. PICK d \in {Brand!Requested(c, now), Brand!AfterFailure(c, now)} : Brand!Until(u, d)
    BY <1>5 DEF Brand!Looked
  <2>3. Brand!Elsewhere
    BY <1>5 DEF Brand!Looked
  <2> HIDE DEF c, Good
  <2> QED BY <1>1, <1>4, <2>1, <2>2, <2>3
<1>6. CASE Brand!Redirected(u)
  <2>1. [c EXCEPT !.redirects = @ + 1] \in CaptureType
    <3> HIDE DEF c
    <3>1. c.redirects \in Nat
      BY <1>0 DEF CaptureType
    <3>2. c.redirects + 1 \in Nat
      BY <3>1
    <3>3. [c EXCEPT !.redirects = @ + 1] = [c EXCEPT !.redirects = c.redirects + 1]
      BY <1>0 DEF CaptureType
    <3> QED BY <1>0, <3>2, <3>3 DEF CaptureType
  <2>2. PICK d \in {Brand!Ask([c EXCEPT !.redirects = @ + 1], now), Brand!AfterFailure(c, now)} : Brand!Until(u, d)
    BY <1>6 DEF Brand!Redirected
  <2>3. Brand!Elsewhere
    BY <1>6 DEF Brand!Redirected
  <2> HIDE DEF c, Good
  <2> QED BY <1>1, <1>2, <1>4, <2>1, <2>2, <2>3
<1>7. CASE Brand!Answered(u)
  <2>1. c.await = "response"
    BY <1>7 DEF Brand!Answered
  <2>2. Good([c EXCEPT !.await = "image"]) /\ Good([c EXCEPT !.await = "html"])
    BY <1>0, <2>1 DEF CaptureType, Timely
  <2>3. PICK d \in {[c EXCEPT !.await = "image"], [c EXCEPT !.await = "html"], Brand!AfterFailure(c, now)} :
          Brand!Until(u, d)
    BY <1>7 DEF Brand!Answered
  <2>4. Brand!Elsewhere
    BY <1>7 DEF Brand!Answered
  <2> HIDE DEF c, Good
  <2> QED BY <1>1, <1>4, <2>2, <2>3, <2>4
<1>8. CASE Brand!ReadImage(u)
  <2>1. Brand!Elsewhere
    BY <1>8 DEF Brand!ReadImage
  <2>2. \A x \in Digests : Good([c EXCEPT !.status = "captured", !.await = "", !.digest = x])
    BY <1>0 DEF CaptureType, Timely
  <2>3. \E d : Good(d) /\ Brand!Until(u, d)
    <3>1. CASE \E x \in Digests : Brand!Until(u, [c EXCEPT !.status = "captured", !.await = "", !.digest = x])
      BY Zenon, <2>2, <3>1
    <3>2. CASE Brand!Until(u, Brand!AfterFailure(c, now))
      BY <1>1, <3>2
    <3> QED BY <1>8, <3>1, <3>2 DEF Brand!ReadImage
  <2> HIDE DEF Good
  <2> QED BY <1>4, <2>1, <2>3
<1>9. CASE Brand!ReadPage(u)
  <2>1. Brand!Elsewhere
    BY <1>9 DEF Brand!ReadPage
  <2>2. ASSUME NEW n \in 1 .. MaxIcons PROVE [c EXCEPT !.icon = 1, !.icons = n, !.redirects = 0] \in CaptureType
    <3> HIDE DEF c
    <3>1. n \in Nat
      BY DEF Brand!CaptureAssumption
    <3> QED BY <1>0, <3>1 DEF CaptureType
  <2>3. \E d : Good(d) /\ Brand!Until(u, d)
    <3>1. ASSUME NEW n \in 1 .. MaxIcons,
                 Brand!Until(u, Brand!Ask([c EXCEPT !.icon = 1, !.icons = n, !.redirects = 0], now))
          PROVE  \E d : Good(d) /\ Brand!Until(u, d)
      BY <1>2, <2>2, <3>1
    <3>2. CASE Brand!Until(u, Brand!Unavailable(c))
      BY <1>3, <3>2
    <3> QED BY <1>9, <3>1, <3>2 DEF Brand!ReadPage
  <2> HIDE DEF Good
  <2> QED BY <1>4, <2>1, <2>3
<1>10. CASE Brand!GiveUp(u)
  BY <1>1, <1>4, <1>10 DEF Brand!GiveUp
<1> QED BY <1>5, <1>6, <1>7, <1>8, <1>9, <1>10

(* Every step keeps the captures within their limits.                      *)
LEMMA TimeStep ==
  ASSUME Brand!CaptureAssumption, BrandTypeInv, TimeInv, [Brand!Next]_Brand!vars
  PROVE  BrandTypeInv' /\ TimeInv'
<1>1. CASE Brand!Tick
  <2>1. now' = now + 1 /\ UNCHANGED <<cursor, worker, capture>>
    BY <1>1 DEF Brand!Tick
  <2>2. \A u \in Urls : capture[u].status = "running" => now < capture[u].until
    BY <1>1 DEF Brand!Tick, Brand!Busy
  <2>3. \A u \in Urls : capture[u].until \in Nat
    BY DEF BrandTypeInv, CaptureType
  <2>4. TimeInv'
    BY <2>1, <2>2, <2>3 DEF TimeInv, Timely, BrandTypeInv
  <2> QED BY <2>1, <2>4 DEF BrandTypeInv, Brand!Nodes
<1>2. CASE Brand!Finish \/ UNCHANGED Brand!vars
  BY <1>2 DEF Brand!Finish, Brand!vars, BrandTypeInv, TimeInv, Brand!Nodes
<1>3. ASSUME NEW w \in Workers, Brand!Resume(w) PROVE BrandTypeInv' /\ TimeInv'
  <2>1. worker' = [worker EXCEPT ![w] = Idle] /\ UNCHANGED <<now, cursor, capture>>
    BY <1>3 DEF Brand!Resume
  <2> QED BY <2>1 DEF BrandTypeInv, TimeInv, Brand!Nodes
<1>4. ASSUME NEW w \in Workers, Brand!Take(w) PROVE BrandTypeInv' /\ TimeInv'
  <2>1. cursor \in Brand!Nodes /\ cursor' = cursor + 1 /\ now' = now
    BY <1>4 DEF Brand!Take
  <2>2. cursor' \in 1 .. Len(Brands) + 1
    BY <2>1, NodesAre
  <2> DEFINE b == Brands[cursor]
             c == Brand!Ask([Brand!Uncaptured EXCEPT !.status = "running"], now)
  <2>3. c \in CaptureType /\ Timely(c, now)
    <3>1. [Brand!Uncaptured EXCEPT !.status = "running"] \in CaptureType
      BY DEF Brand!Uncaptured, CaptureType
    <3> QED BY <3>1, AskTimely DEF BrandTypeInv
  <2>4. CASE b.kind # "pinned"
    BY <1>4, <2>1, <2>2, <2>4 DEF Brand!Take, BrandTypeInv, TimeInv, Brand!Nodes
  <2>5. CASE b.kind = "pinned"
    <3>1. /\ worker' = [worker EXCEPT ![w] = cursor]
          /\ capture' = IF capture[b.url].status = "none" THEN [capture EXCEPT ![b.url] = c] ELSE capture
      BY <1>4, <2>5 DEF Brand!Take
    <3>2. b.url \in Urls
      BY <2>1, <2>5, NodesAre
    <3>3. worker' \in [Workers -> Brand!Nodes \cup {Idle}]
      BY <2>1, <3>1 DEF BrandTypeInv
    <3> HIDE DEF b, c
    <3>4. capture' \in [Urls -> CaptureType] /\ \A v \in Urls : capture'[v] = capture[v] \/ capture'[v] = c
      BY <2>3, <3>1, <3>2 DEF BrandTypeInv
    <3> QED BY <2>1, <2>2, <2>3, <3>3, <3>4 DEF BrandTypeInv, TimeInv, Timely, Brand!Nodes
  <2> QED BY <2>4, <2>5
<1>5. ASSUME NEW u \in Urls,
             \/ Brand!Looked(u) \/ Brand!Redirected(u) \/ Brand!Answered(u) \/ Brand!ReadImage(u)
             \/ Brand!ReadPage(u) \/ Brand!GiveUp(u)
      PROVE  BrandTypeInv' /\ TimeInv'
  BY <1>5, TurnsKeepTime
<1> QED BY <1>1, <1>2, <1>3, <1>4, <1>5 DEF Brand!Next

(* A fault that is noted is there.                                         *)
LEMMA FaultIsThere ==
  ASSUME NEW S, NEW s \in Seq(S), NEW x \in S
  PROVE  Append(s, x) \in Seq(S) /\ Append(s, x) # <<>>
<1>1. Append(s, x) \in Seq(S) /\ Len(Append(s, x)) = Len(s) + 1 /\ Len(s) \in Nat
  BY AppendProperties, LenProperties
<1>2. Len(<<>>) = 0
  OBVIOUS
<1>3. Len(Append(s, x)) # 0
  BY <1>1
<1> QED BY <1>1, <1>2, <1>3

(* Every step keeps the marks.                                             *)
LEMMA MarksStep ==
  ASSUME Brand!CaptureAssumption, BrandTypeInv, TimeInv, MarksInv, [Brand!Next]_Brand!vars
  PROVE  MarksInv'
<1>1. ASSUME UNCHANGED <<cursor, worker, unknown, mark, outcome>> PROVE MarksInv'
  BY <1>1 DEF MarksInv, Settled, Brand!Nodes
<1>2. CASE Brand!Tick \/ UNCHANGED Brand!vars
  BY <1>1, <1>2 DEF Brand!Tick, Brand!vars
<1>3. ASSUME NEW u \in Urls,
             \/ Brand!Looked(u) \/ Brand!Redirected(u) \/ Brand!Answered(u) \/ Brand!ReadImage(u)
             \/ Brand!ReadPage(u) \/ Brand!GiveUp(u)
      PROVE  MarksInv'
  <2>1. Brand!Elsewhere
    BY <1>3, TurnsKeepTime
  <2> QED BY <1>1, <2>1 DEF Brand!Elsewhere
<1>4. CASE Brand!Finish
  BY <1>4 DEF Brand!Finish, MarksInv, Settled, Brand!Nodes
<1>5. ASSUME NEW w \in Workers, Brand!Take(w) PROVE MarksInv'
  <2> DEFINE b == Brands[cursor]
  <2>1. /\ cursor \in Brand!Nodes /\ cursor' = cursor + 1 /\ outcome = "" /\ outcome' = ""
        /\ worker[w] = Idle
    BY <1>5 DEF Brand!Take
  <2>0. /\ cursor \in Nat /\ cursor # Idle /\ Len(Brands) \in Nat
        /\ \A n \in Brand!Nodes : n \in Nat /\ n # Idle
    BY <2>1, NodesAreNumbers
  <2>9. cursor \in Nat /\ cursor' \in Nat /\ cursor < cursor'
    <3>1. cursor \in Nat /\ cursor' = cursor + 1
      BY <2>0, <2>1
    <3> HIDE DEF b
    <3> QED BY <3>1
  <2>2. \A n \in Brand!Nodes \ {cursor} : Settled(n) => Settled(n)'
    <3>1. /\ DOMAIN mark \subseteq DOMAIN mark'
          /\ \A n \in DOMAIN mark \ {cursor} : mark'[n] = mark[n]
      BY <1>5 DEF Brand!Take
    <3> SUFFICES ASSUME NEW n \in Brand!Nodes \ {cursor}, Settled(n) PROVE Settled(n)'
      OBVIOUS
    <3>2. CASE Brands[n].kind = "none"
      BY <3>2 DEF Settled
    <3>3. CASE Brands[n].kind # "none"
      BY <3>1, <3>3 DEF Settled
    <3> QED BY <3>2, <3>3
  <2>3. \A n : n = cursor /\ b.kind \in {"none", "preset"} => Settled(n)'
    <3>1. b.kind = "preset" => cursor \in DOMAIN mark'
      BY <1>5 DEF Brand!Take
    <3> QED BY <3>1 DEF Settled
  <2>4. /\ unknown' \in Seq(Brand!Nodes \X {"unpinned", "strange", "unavailable", "digest"})
        /\ unknown # <<>> => unknown' # <<>>
        /\ b.kind \in {"unpinned", "strange"} => unknown' # <<>>
    <3>1. CASE b.kind \in {"unpinned", "strange"}
      <4>1. unknown' = Append(unknown, <<cursor, b.kind>>)
        BY <1>5, <3>1 DEF Brand!Take, Brand!Fault
      <4>2. <<cursor, b.kind>> \in Brand!Nodes \X {"unpinned", "strange", "unavailable", "digest"}
        BY <2>1, <3>1
      <4> HIDE DEF b
      <4> QED BY <4>1, <4>2, FaultIsThere DEF MarksInv
    <3>2. CASE b.kind \notin {"unpinned", "strange"}
      BY <1>5, <3>2 DEF Brand!Take, MarksInv
    <3> QED BY <3>1, <3>2
  <2>5. /\ \A v \in Workers \ {w} : worker'[v] = worker[v]
        /\ worker'[w] = IF b.kind = "pinned" THEN cursor ELSE Idle
    BY <1>5, <2>1 DEF Brand!Take, BrandTypeInv
  <2>6. b.kind \in {"none", "preset", "unpinned", "strange", "pinned"}
    BY <2>1, NodesAre
  <2>7. ASSUME NEW v \in Workers, worker'[v] # Idle
        PROVE  worker'[v] < cursor' /\ Brands[worker'[v]].kind = "pinned"
    <3>1. CASE v = w
      <4>1. worker'[v] = cursor /\ b.kind = "pinned"
        BY <2>5, <2>7, <3>1
      <4>2. cursor < cursor'
        BY <2>9
      <4> QED BY <4>1, <4>2
    <3>2. CASE v # w
      <4>1. worker'[v] = worker[v] /\ worker[v] # Idle
        BY <2>5, <2>7, <3>2
      <4>2. worker[v] < cursor /\ Brands[worker[v]].kind = "pinned"
        BY <4>1 DEF MarksInv
      <4>3. worker[v] \in Brand!Nodes
        BY <4>1 DEF BrandTypeInv
      <4>4. worker[v] < cursor'
        <5>1. worker[v] \in Nat
          BY <2>0, <4>3
        <5> QED BY <2>9, <4>2, <5>1
      <4> QED BY <4>1, <4>2, <4>4
    <3> QED BY <3>1, <3>2
  <2>8. ASSUME NEW n \in Brand!Nodes, n < cursor'
        PROVE  Settled(n)' \/ (\E v \in Workers : worker'[v] = n) \/ unknown' # <<>>
    <3>1. CASE n = cursor
      <4>1. CASE b.kind = "pinned"
        BY <2>5, <3>1, <4>1
      <4>2. CASE b.kind \in {"none", "preset"}
        BY <2>3, <3>1, <4>2
      <4>3. CASE b.kind \in {"unpinned", "strange"}
        BY <2>4, <4>3
      <4> QED BY <2>6, <4>1, <4>2, <4>3
    <3>2. CASE n # cursor
      <4>1. n < cursor
        <5>1. n \in Nat /\ cursor \in Nat /\ n < cursor + 1
          BY <2>0, <2>1, <2>8
        <5> QED BY <3>2, <5>1
      <4>2. CASE Settled(n)
        BY <2>2, <3>2, <4>2
      <4>3. ASSUME NEW v \in Workers, worker[v] = n PROVE worker'[v] = n
        BY <2>0, <2>1, <2>5, <4>3
      <4> QED BY <2>4, <4>1, <4>2, <4>3 DEF MarksInv
    <3> QED BY <3>1, <3>2
  <2> QED BY <2>1, <2>4, <2>7, <2>8 DEF MarksInv, Brand!Nodes
<1>6. ASSUME NEW w \in Workers, Brand!Resume(w) PROVE MarksInv'
  <2> DEFINE n == worker[w]
             c == capture[Brands[n].url]
  <2>1. /\ n \in Brand!Nodes /\ n # Idle /\ UNCHANGED <<cursor, outcome>>
        /\ \A v \in Workers \ {w} : worker'[v] = worker[v] /\ worker'[w] = Idle
        /\ worker'[w] = Idle
    BY <1>6, NodesAre DEF Brand!Resume, BrandTypeInv
  <2>2. outcome = ""
    BY <2>1 DEF MarksInv
  <2>3. CASE Brand!Settles(c, Brands[n]) = ""
    <3>1. unknown' = unknown /\ mark' = [m \in DOMAIN mark \cup {n} |-> IF m = n THEN c.digest ELSE mark[m]]
      BY <1>6, <2>3 DEF Brand!Resume
    <3>2. c.digest = Brands[n].digest
      BY <2>3 DEF Brand!Settles
    <3> HIDE DEF c, n
    <3>5. n \in DOMAIN mark' /\ mark'[n] = Brands[n].digest
      BY <3>1, <3>2
    <3>6. DOMAIN mark \subseteq DOMAIN mark' /\ \A m \in DOMAIN mark \ {n} : mark'[m] = mark[m]
      BY <3>1
    <3>3. \A m \in Brand!Nodes : m = n \/ Settled(m) => Settled(m)'
      <4>1. ASSUME NEW m, m = n PROVE Settled(m)'
        BY <3>5, <4>1 DEF Settled
      <4>2. ASSUME NEW m \in Brand!Nodes, Settled(m), m # n PROVE Settled(m)'
        <5>1. CASE Brands[m].kind = "none"
          BY <5>1 DEF Settled
        <5>2. CASE Brands[m].kind # "none"
          BY <3>6, <4>2, <5>2 DEF Settled
        <5> QED BY <5>1, <5>2
      <4> QED BY <4>1, <4>2
    <3>4. \A m \in Brand!Nodes : (\E v \in Workers : worker[v] = m) => m = n \/ (\E v \in Workers : worker'[v] = m)
      BY <2>1 DEF n
    <3>7. \A m \in Brand!Nodes : m < cursor' => Settled(m)' \/ (\E v \in Workers : worker'[v] = m) \/ unknown' # <<>>
      BY <2>1, <3>1, <3>3, <3>4 DEF MarksInv
    <3>8. \A v \in Workers : worker'[v] # Idle => worker'[v] < cursor' /\ Brands[worker'[v]].kind = "pinned"
      BY <2>1 DEF MarksInv
    <3> QED BY <2>1, <2>2, <3>1, <3>7, <3>8 DEF MarksInv, Brand!Nodes
  <2>4. CASE Brand!Settles(c, Brands[n]) # ""
    <3>1. unknown' = Append(unknown, <<n, Brand!Settles(c, Brands[n])>>)
      BY <1>6, <2>4 DEF Brand!Resume, Brand!Fault
    <3>2. <<n, Brand!Settles(c, Brands[n])>> \in Brand!Nodes \X {"unpinned", "strange", "unavailable", "digest"}
      BY <2>1, <2>4 DEF Brand!Settles
    <3> HIDE DEF c
    <3>3. unknown' # <<>> /\ unknown' \in Seq(Brand!Nodes \X {"unpinned", "strange", "unavailable", "digest"})
      BY <3>1, <3>2, FaultIsThere DEF MarksInv
    <3> QED BY <2>1, <2>2, <3>3 DEF MarksInv, Brand!Nodes
  <2> QED BY <2>3, <2>4
<1> QED BY <1>2, <1>3, <1>4, <1>5, <1>6 DEF Brand!Next

(* A diagram that is drawn has for every pinned brand the image that was   *)
(* pinned, and no capture runs for longer than a tick past the deadline.   *)
THEOREM BrandCorrect ==
  Brand!CaptureAssumption /\ Brand!Init /\ [][Brand!Next]_Brand!vars => [](Brand!DrawnIsPinned /\ Brand!InTime)
<1> SUFFICES ASSUME Brand!CaptureAssumption
             PROVE  Brand!Init /\ [][Brand!Next]_Brand!vars => [](Brand!DrawnIsPinned /\ Brand!InTime)
  OBVIOUS
<1> DEFINE Inv == BrandTypeInv /\ TimeInv /\ MarksInv
<1>1. Brand!Init => Inv
  <2> SUFFICES ASSUME Brand!Init PROVE Inv
    OBVIOUS
  <2>1. BrandTypeInv
    <3>1. Brand!Uncaptured \in CaptureType
      BY DEF Brand!Uncaptured, CaptureType
    <3>2. cursor = 1 /\ Len(Brands) \in Nat
      BY NodesAreNumbers DEF Brand!Init
    <3>3. cursor \in 1 .. Len(Brands) + 1
      BY <3>2
    <3> QED BY <3>1, <3>3 DEF Brand!Init, BrandTypeInv
  <2>2. TimeInv
    BY DEF Brand!Init, Brand!Uncaptured, TimeInv, Timely
  <2>3. MarksInv
    <3>1. \A n \in Brand!Nodes : ~(n < 1)
      BY NodesAre
    <3> QED BY <3>1, EmptySeq DEF Brand!Init, MarksInv
  <2> QED BY <2>1, <2>2, <2>3
<1>2. Inv /\ [Brand!Next]_Brand!vars => Inv'
  BY TimeStep, MarksStep
<1>3. Inv => Brand!DrawnIsPinned /\ Brand!InTime
  <2> SUFFICES ASSUME Inv PROVE Brand!DrawnIsPinned /\ Brand!InTime
    OBVIOUS
  <2>1. Brand!InTime
    <3> SUFFICES ASSUME NEW u \in Urls, capture[u].status = "running" PROVE now <= Deadline + 1
      BY DEF Brand!InTime, Brand!Busy
    <3>1. capture[u].until \in Nat /\ now \in Nat /\ Deadline \in Nat
      BY DEF BrandTypeInv, CaptureType, Brand!CaptureAssumption
    <3>2. now <= capture[u].until /\ capture[u].until <= Deadline + 1
      BY DEF TimeInv, Timely
    <3> QED BY <3>1, <3>2
  <2>2. ASSUME outcome = "drawn", NEW n \in Brand!Nodes PROVE Settled(n)
    <3>1. n < cursor
      BY <2>2, NodesAre DEF MarksInv, BrandTypeInv
    <3>2. unknown = <<>> /\ \A w \in Workers : worker[w] # n
      BY <2>2, NodesAre DEF MarksInv
    <3> QED BY <3>1, <3>2 DEF MarksInv
  <2> QED BY <2>1, <2>2 DEF Brand!DrawnIsPinned, Settled
<1> QED BY <1>1, <1>2, <1>3, PTL
-----------------------------------------------------------------------------
Token == {"w", "lf", "crlf", "cr"}
Broken(text) == {i \in DOMAIN text : Evidence!Break(text[i])}
Starts(text) == {i \in DOMAIN text : i = 1 \/ Evidence!Break(text[i - 1])}

(* What is true of a source once its type, and its lines, were asked for.  *)
IsThere(s) ==
  /\ Evidence!IsFile(Tree[request.revision][s.path]) /\ ".." \notin Evidence!Range(s.path)
  /\ Evidence!RangeIsSane(s)

HasLines(s) ==
  s.line = 0 \/ Evidence!Last1(s) <= Evidence!SourceLineCount(Tree[request.revision][s.path])

(* The sources before the current one are verified, in their order; the    *)
(* questions asked before were answered for the request, not the checkout. *)
EvidenceInv ==
  /\ request \in Requests /\ present \subseteq Commits
  /\ at \in Nat /\ at >= 1 /\ at <= Len(request.sources) + 1
  /\ verified \in Seq(Evidence!Cited) /\ Len(verified) = at - 1
  /\ \A i \in 1 .. at - 1 : verified[i] = request.sources[i] /\ IsThere(verified[i]) /\ HasLines(verified[i])
  /\ pc # "declared" /\ pc # "refused" => (request.link = "web" => Evidence!WebLinks(request.remote))
  /\ pc \in {"commit", "source", "lines", "verified"} => Evidence!Identity(origin) = Evidence!Identity(request.remote)
  /\ pc = "lines" => at <= Len(request.sources) /\ IsThere(request.sources[at])
  /\ pc = "verified" => at = Len(request.sources) + 1
  /\ at > 1 \/ pc = "lines" => request.revision \in Commits

(* What the module of the evidence counts with is the cardinality.         *)
LEMMA EvidenceCounts == \A S : Evidence!Cardinality(S) = Cardinality(S)
  BY DEF Evidence!Cardinality, Cardinality

(* The lines that are counted by their ends are those counted by their     *)
(* beginnings.                                                             *)
LEMMA LinesAreCounted ==
  ASSUME NEW text \in Seq(Token)
  PROVE  Evidence!SourceLineCount(text) = Evidence!Lines(text) /\ Evidence!Lines(text) \in Nat
<1> DEFINE n == Len(text)
           inner == {i \in 1 .. n - 1 : Evidence!Break(text[i])}
           after == {i \in 2 .. n : Evidence!Break(text[i - 1])}
<1>1. n \in Nat /\ DOMAIN text = 1 .. n
  BY LenProperties
<1>2. IsFiniteSet(1 .. n) /\ IsFiniteSet(1 .. n - 1) /\ IsFiniteSet(2 .. n)
  BY <1>1, FS_Interval
<1>3. IsFiniteSet(inner) /\ IsFiniteSet(after)
  BY <1>2, FS_Subset
<1>4. Cardinality(inner) = Cardinality(after) /\ Cardinality(inner) \in Nat
  <2> DEFINE next == [i \in inner |-> i + 1]
  <2>1. next \in Bijection(inner, after)
    <3>1. next \in [inner -> after]
      BY <1>1
    <3>2. \A i, j \in inner : next[i] = next[j] => i = j
      BY <1>1
    <3>3. \A j \in after : j - 1 \in inner /\ next[j - 1] = j
      BY <1>1
    <3> HIDE DEF next, inner, after
    <3>4. DOMAIN next = inner
      BY <3>1
    <3>5. next \in Injection(inner, after)
      BY <3>1, <3>2, <3>4 DEF Injection, IsInjective
    <3>6. next \in Surjection(inner, after)
      BY <3>1, <3>3 DEF Surjection
    <3> QED BY <3>5, <3>6 DEF Bijection
  <2> HIDE DEF next, inner, after
  <2> QED BY <1>3, <2>1, FS_Bijection, FS_CardinalityType DEF ExistsBijection
<1>5. CASE text = <<>>
  <2>1. Starts(text) = {}
    BY <1>5 DEF Starts
  <2>2. Evidence!Lines(text) = Cardinality(Starts(text))
    BY EvidenceCounts DEF Evidence!Lines, Starts
  <2> QED BY <1>5, <2>1, <2>2, FS_EmptySet DEF Evidence!SourceLineCount
<1>6. CASE text # <<>>
  <2>1. n >= 1
    BY <1>1, <1>6, EmptySeq
  <2>2. Starts(text) = after \cup {1} /\ 1 \notin after
    BY <1>1, <2>1 DEF Starts
  <2>3. Cardinality(Starts(text)) = Cardinality(after) + 1
    <3> HIDE DEF after
    <3> QED BY <1>3, <2>2, FS_AddElement
  <2>4. Cardinality(Broken(text)) = Cardinality(inner) + (IF Evidence!Break(text[n]) THEN 1 ELSE 0)
    <3>1. CASE Evidence!Break(text[n])
      <4>1. Broken(text) = inner \cup {n} /\ n \notin inner
        BY <1>1, <2>1, <3>1 DEF Broken
      <4> HIDE DEF inner, n
      <4> QED BY <1>3, <3>1, <4>1, FS_AddElement
    <3>2. CASE ~Evidence!Break(text[n])
      <4>1. Broken(text) = inner
        BY <1>1, <2>1, <3>2 DEF Broken
      <4> QED BY <1>4, <3>2, <4>1
    <3> QED BY <3>1, <3>2
  <2>5. /\ Evidence!Lines(text) = Cardinality(Starts(text))
        /\ Evidence!Cardinality({i \in DOMAIN text : Evidence!Break(text[i])}) = Cardinality(Broken(text))
        /\ Evidence!Last(text) = text[n]
    BY EvidenceCounts DEF Evidence!Lines, Starts, Broken, Evidence!Last
  <2>6. Evidence!SourceLineCount(text)
          = 1 + Cardinality(Broken(text)) - (IF Evidence!Break(text[n]) THEN 1 ELSE 0)
    BY <1>6, <2>5 DEF Evidence!SourceLineCount
  <2> HIDE DEF inner, after, n
  <2> QED BY <1>4, <2>3, <2>4, <2>5, <2>6
<1> QED BY <1>5, <1>6

(* Once a source is verified the next one is looked at.                    *)
LEMMA VerifiedStep ==
  ASSUME Evidence!EvidenceAssumption, EvidenceInv, at <= Len(request.sources), request.revision \in Commits,
         verified' = Append(verified, Evidence!Source), at' = at + 1, pc' = "source",
         UNCHANGED <<request, Evidence!checkout>>,
         pc \in {"source", "lines"}, IsThere(Evidence!Source), HasLines(Evidence!Source)
  PROVE  EvidenceInv'
<1> DEFINE s == request.sources[at]
<1>1. request.sources \in Seq(Evidence!Cited) /\ Len(request.sources) \in Nat
  BY LenProperties DEF Evidence!EvidenceAssumption, EvidenceInv
<1>2. s \in Evidence!Cited /\ Evidence!Source = s /\ at \in Nat /\ at >= 1
  BY <1>1, ElementOfSeq DEF Evidence!Source, EvidenceInv
<1> HIDE DEF s
<1>3. /\ verified' \in Seq(Evidence!Cited) /\ Len(verified') = at
      /\ \A i \in 1 .. at - 1 : verified'[i] = verified[i] /\ verified'[at] = s
      /\ verified'[at] = s
  BY <1>2, AppendProperties DEF EvidenceInv
<1>4. request' = request /\ origin' = origin /\ present' = present
  BY DEF Evidence!checkout
<1>5. ASSUME NEW i \in 1 .. at
      PROVE  verified'[i] = request.sources[i] /\ IsThere(verified'[i]) /\ HasLines(verified'[i])
  <2>1. CASE i = at
    BY <1>2, <1>3, <2>1 DEF s
  <2>2. CASE i # at
    <3>1. i \in 1 .. at - 1
      BY <1>2, <2>2
    <3> QED BY <1>3, <3>1 DEF EvidenceInv
  <2> QED BY <2>1, <2>2
<1>6. /\ at' \in Nat /\ at' >= 1 /\ at' <= Len(request.sources) + 1 /\ at' - 1 = at
  BY <1>1, <1>2
<1>7. \A i \in 1 .. at' - 1 : verified'[i] = request'.sources[i] /\ IsThere(verified[i])' /\ HasLines(verified[i])'
  BY <1>4, <1>5, <1>6 DEF IsThere, HasLines
<1> QED BY <1>3, <1>4, <1>6, <1>7 DEF EvidenceInv

(* Every step keeps it, also a checkout and a prune in between.            *)
LEMMA EvidenceStep ==
  ASSUME Evidence!EvidenceAssumption, EvidenceInv, [Evidence!Next]_Evidence!vars
  PROVE  EvidenceInv'
<1>1. CASE Evidence!Declared
  BY <1>1 DEF Evidence!Declared, Evidence!Refuse, Evidence!checkout, EvidenceInv, IsThere, HasLines
<1>2. CASE Evidence!CheckOrigin
  BY <1>2 DEF Evidence!CheckOrigin, Evidence!Refuse, Evidence!checkout, EvidenceInv, IsThere, HasLines
<1>3. CASE Evidence!CheckCommit
  BY <1>3 DEF Evidence!CheckCommit, Evidence!Refuse, Evidence!checkout, EvidenceInv, IsThere, HasLines
<1>4. CASE Evidence!Refuse
  BY <1>4 DEF Evidence!Refuse, Evidence!checkout, EvidenceInv, IsThere, HasLines
<1>5. CASE Evidence!CheckType
  <2> DEFINE s == Evidence!Source
  <2>1. CASE Evidence!Refuse
    BY <1>4, <2>1
  <2>2. CASE ~Evidence!Refuse
    <3>1. /\ Evidence!ValidPath(s.path) /\ Evidence!RangeIsSane(s) /\ request.revision \in present
          /\ Evidence!IsFile(Evidence!Object(s.path)) /\ pc = "source" /\ at <= Len(request.sources)
          /\ UNCHANGED <<request, Evidence!checkout>>
      BY <1>5, <2>2 DEF Evidence!CheckType
    <3>2. IsThere(s) /\ request.revision \in Commits
      BY <3>1 DEF IsThere, Evidence!ValidPath, Evidence!Object, EvidenceInv
    <3>3. CASE s.line = 0
      <4>1. verified' = Append(verified, s) /\ at' = at + 1 /\ pc' = "source"
        BY <1>5, <2>2, <3>3 DEF Evidence!CheckType
      <4> QED BY <3>1, <3>2, <3>3, <4>1, VerifiedStep DEF HasLines
    <3>4. CASE s.line # 0
      <4>1. pc' = "lines" /\ UNCHANGED <<at, verified>>
        BY <1>5, <2>2, <3>4 DEF Evidence!CheckType
      <4> QED BY <3>1, <3>2, <4>1 DEF EvidenceInv, IsThere, HasLines, Evidence!Source, Evidence!checkout
    <3> QED BY <3>3, <3>4
  <2> QED BY <2>1, <2>2
<1>6. CASE Evidence!ReadLines
  <2> DEFINE s == Evidence!Source
  <2>1. CASE Evidence!Refuse
    BY <1>4, <2>1
  <2>2. CASE ~Evidence!Refuse
    <3>1. /\ pc = "lines" /\ pc' = "source" /\ verified' = Append(verified, s) /\ at' = at + 1
          /\ UNCHANGED <<request, Evidence!checkout>>
          /\ Evidence!Last1(s) <= Evidence!SourceLineCount(Evidence!Object(s.path))
      BY <1>6, <2>2 DEF Evidence!ReadLines
    <3>2. /\ IsThere(s) /\ HasLines(s) /\ at <= Len(request.sources) /\ request.revision \in Commits
      BY <3>1 DEF EvidenceInv, HasLines, Evidence!Object, Evidence!Source
    <3> QED BY <3>1, <3>2, VerifiedStep
  <2> QED BY <2>1, <2>2
<1>7. CASE Evidence!Finish
  <2>1. CASE Evidence!Refuse
    BY <1>4, <2>1
  <2>2. CASE ~Evidence!Refuse
    <3>1. /\ pc = "source" /\ pc' = "verified" /\ at > Len(request.sources)
          /\ UNCHANGED <<request, Evidence!checkout, at, verified>>
      BY <1>7, <2>2 DEF Evidence!Finish
    <3>2. Len(request.sources) \in Nat
      BY LenProperties DEF Evidence!EvidenceAssumption, EvidenceInv
    <3>3. at = Len(request.sources) + 1
      BY <3>1, <3>2 DEF EvidenceInv
    <3> QED BY <3>1, <3>3 DEF EvidenceInv, IsThere, HasLines, Evidence!checkout
  <2> QED BY <2>1, <2>2
<1>8. CASE Evidence!Checkout \/ Evidence!Prune
  <2>1. present' \subseteq present /\ UNCHANGED <<request, origin, pc, at, verified>>
    BY <1>8 DEF Evidence!Checkout, Evidence!Prune
  <2> QED BY <2>1 DEF EvidenceInv, IsThere, HasLines
<1>9. CASE Evidence!Done \/ UNCHANGED Evidence!vars
  BY <1>9 DEF Evidence!Done, Evidence!vars, EvidenceInv, IsThere, HasLines
<1> QED BY <1>1, <1>2, <1>3, <1>5, <1>6, <1>7, <1>8, <1>9 DEF Evidence!Next

(* Verified evidence names lines of files as of the pinned commit, all that *)
(* was asked for, under the remote that was asked for.                     *)
THEOREM EvidenceHolds == Evidence!EvidenceAssumption /\ Evidence!Spec => []Evidence!EvidenceIsPinned
<1> SUFFICES ASSUME Evidence!EvidenceAssumption PROVE Evidence!Spec => []Evidence!EvidenceIsPinned
  OBVIOUS
<1>1. Evidence!Init => EvidenceInv
  <2> SUFFICES ASSUME Evidence!Init PROVE EvidenceInv
    OBVIOUS
  <2>1. Len(request.sources) \in Nat
    BY LenProperties DEF Evidence!EvidenceAssumption, Evidence!Init
  <2>2. verified = <<>> /\ at = 1 /\ pc = "declared" /\ request \in Requests /\ present = Commits
    BY DEF Evidence!Init
  <2>3. verified \in Seq(Evidence!Cited) /\ Len(verified) = 0
    BY <2>2, EmptySeq
  <2> QED BY <2>1, <2>2, <2>3 DEF EvidenceInv
<1>2. EvidenceInv /\ [Evidence!Next]_Evidence!vars => EvidenceInv'
  BY EvidenceStep
<1>3. EvidenceInv => Evidence!EvidenceIsPinned
  <2> SUFFICES ASSUME EvidenceInv, pc = "verified" PROVE
        /\ \A s \in Evidence!Range(verified) :
             /\ Evidence!IsFile(Tree[request.revision][s.path]) /\ ".." \notin Evidence!Range(s.path)
             /\ Evidence!Last1(s) <= Evidence!Lines(Tree[request.revision][s.path])
        /\ Evidence!Range(request.sources) = Evidence!Range(verified)
        /\ request.link = "web" => request.remote.form = "https" /\ origin.host = request.remote.host
             /\ origin.path = request.remote.path
    BY DEF Evidence!EvidenceIsPinned
  <2>1. /\ Len(request.sources) \in Nat /\ DOMAIN request.sources = 1 .. Len(request.sources)
        /\ DOMAIN verified = 1 .. Len(verified)
    BY LenProperties DEF Evidence!EvidenceAssumption, EvidenceInv
  <2>2. at = Len(request.sources) + 1 /\ at - 1 = Len(request.sources) /\ Len(verified) = Len(request.sources)
    BY <2>1 DEF EvidenceInv
  <2>3. \A i \in 1 .. Len(request.sources) :
          verified[i] = request.sources[i] /\ IsThere(verified[i]) /\ HasLines(verified[i])
    BY <2>2 DEF EvidenceInv
  <2>4. Evidence!Range(request.sources) = Evidence!Range(verified)
    BY <2>1, <2>2, <2>3 DEF Evidence!Range
  <2>5. ASSUME NEW i \in DOMAIN verified
        PROVE  /\ Evidence!IsFile(Tree[request.revision][verified[i].path])
               /\ ".." \notin Evidence!Range(verified[i].path)
               /\ Evidence!Last1(verified[i]) <= Evidence!Lines(Tree[request.revision][verified[i].path])
    <3> DEFINE s == verified[i]
               text == Tree[request.revision][s.path]
    <3>1. s \in Evidence!Cited /\ IsThere(s) /\ HasLines(s)
      BY <2>1, <2>2, <2>3, ElementOfSeq DEF EvidenceInv
    <3>2. request.revision \in Commits
      BY <2>1, <2>2 DEF EvidenceInv
    <3>3. s.line \in Nat /\ s.end \in Nat /\ text \in {Missing, Directory} \cup Seq(Token)
      BY <3>1, <3>2 DEF Evidence!EvidenceAssumption, Token
    <3> HIDE DEF s
    <3>4. text \in Seq(Token)
      BY <3>1, <3>3 DEF IsThere, Evidence!IsFile
    <3> HIDE DEF text
    <3>5. Evidence!SourceLineCount(text) = Evidence!Lines(text) /\ Evidence!Lines(text) \in Nat
      BY <3>4, LinesAreCounted
    <3>6. Evidence!Last1(s) <= Evidence!Lines(text)
      <4>1. CASE s.line = 0
        <5>1. s.end = 0
          BY <3>1, <4>1 DEF IsThere, Evidence!RangeIsSane
        <5>2. Evidence!Last1(s) = 0
          BY <4>1, <5>1 DEF Evidence!Last1
        <5> QED BY <3>5, <5>2
      <4>2. CASE s.line # 0
        BY <3>1, <3>5, <4>2 DEF HasLines, text
      <4> QED BY <4>1, <4>2
    <3> QED BY <3>1, <3>6 DEF IsThere, s, text
  <2>6. ASSUME request.link = "web"
        PROVE  /\ request.remote.form = "https" /\ origin.host = request.remote.host
               /\ origin.path = request.remote.path
    <3>1. Evidence!WebLinks(request.remote) /\ Evidence!Identity(origin) = Evidence!Identity(request.remote)
      BY <2>6 DEF EvidenceInv
    <3>2. \A r : Evidence!Identity(r).host = r.host /\ Evidence!Identity(r).path = r.path
      BY DEF Evidence!Identity
    <3>3. origin.host = request.remote.host /\ origin.path = request.remote.path
      BY <3>1, <3>2
    <3> QED BY <3>1, <3>3 DEF Evidence!WebLinks
  <2>7. ASSUME NEW s \in Evidence!Range(verified) PROVE \E i \in DOMAIN verified : s = verified[i]
    BY <2>7 DEF Evidence!Range
  <2> QED BY <2>4, <2>5, <2>6, <2>7
<1> QED BY <1>1, <1>2, <1>3, PTL DEF Evidence!Spec
-----------------------------------------------------------------------------
(* The state of the page as a record: its types, one timeout or none, one  *)
(* mark or none, and a playback that is on its way to the last change.     *)
PageType ==
  [available : BOOLEAN, activeIndex : Int, marked : SUBSET Int, shown : {"base", "delta", "head"},
   playing : BOOLEAN, token : Int, timers : SUBSET Int]

Marked(s) ==
  /\ s.activeIndex \in -1 .. Review!Last
  /\ s.marked = IF s.activeIndex >= 0 THEN {s.activeIndex} ELSE {}
  /\ ~s.available => s.activeIndex = -1 /\ ~s.playing

Sound(s) ==
  /\ Marked(s)
  /\ s.timers = IF s.playing THEN {s.token} ELSE {}
  /\ s.playing => s.activeIndex >= 0 /\ s.activeIndex < Review!Last

Stopped(s) == s \in PageType /\ Sound(s) /\ ~s.playing

PageInv == Review!Page \in PageType /\ Sound(Review!Page)

ReviewInv == PageInv /\ pressed \in Review!Buttons \cup {""}

(* The functions of the page keep the types of its record.                 *)
LEMMA Types == ASSUME NEW s \in PageType PROVE
  /\ Review!StopPlayback(s) \in PageType
  /\ [s EXCEPT !.available = FALSE, !.activeIndex = -1, !.marked = {}] \in PageType
  /\ [s EXCEPT !.activeIndex = -1, !.marked = {}, !.shown = "delta"] \in PageType
  /\ [s EXCEPT !.shown = "base"] \in PageType
<1>1. s.token + 1 \in Int /\ -1 \in Int
  BY DEF PageType
<1>2. Review!StopPlayback(s) \in PageType
  BY <1>1 DEF Review!StopPlayback, PageType
<1>3. [s EXCEPT !.available = FALSE, !.activeIndex = -1, !.marked = {}] \in PageType
  BY <1>1 DEF PageType
<1>4. [s EXCEPT !.activeIndex = -1, !.marked = {}, !.shown = "delta"] \in PageType
  BY <1>1 DEF PageType
<1>5. [s EXCEPT !.shown = "base"] \in PageType
  BY DEF PageType
<1> QED BY <1>2, <1>3, <1>4, <1>5

(* So does a change of a number in it.                                     *)
LEMMA NumberTypes == ASSUME NEW s \in PageType, NEW i \in Int PROVE
  /\ [s EXCEPT !.shown = "delta", !.activeIndex = i, !.marked = {i}] \in PageType
  /\ [s EXCEPT !.playing = TRUE, !.token = i] \in PageType
  /\ [s EXCEPT !.timers = s.timers \cup {i}] \in PageType
  /\ [s EXCEPT !.timers = s.timers \ {i}] \in PageType
<1>1. {i} \in SUBSET Int /\ s.timers \cup {i} \in SUBSET Int /\ s.timers \ {i} \in SUBSET Int
  BY DEF PageType
<1>2. [s EXCEPT !.shown = "delta", !.activeIndex = i, !.marked = {i}] \in PageType
  BY <1>1 DEF PageType
<1>3. [s EXCEPT !.playing = TRUE, !.token = i] \in PageType
  BY DEF PageType
<1>4. [s EXCEPT !.timers = s.timers \cup {i}] \in PageType
  BY <1>1 DEF PageType
<1>5. [s EXCEPT !.timers = s.timers \ {i}] \in PageType
  BY <1>1 DEF PageType
<1> QED BY <1>2, <1>3, <1>4, <1>5

(* A page whose playback is stopped has no timeout to come.                *)
LEMMA StopIsSound == ASSUME NEW s \in PageType, Marked(s) PROVE
  /\ Stopped(Review!StopPlayback(s))
  /\ Review!StopPlayback(s).available = s.available /\ Review!StopPlayback(s).activeIndex = s.activeIndex
<1> DEFINE t == Review!StopPlayback(s)
<1>1. t \in PageType
  BY Types
<1>2. /\ t.timers = {} /\ t.activeIndex = s.activeIndex /\ t.marked = s.marked
      /\ t.available = s.available /\ t.playing = FALSE
  BY DEF Review!StopPlayback, PageType
<1> HIDE DEF t
<1>3. Sound(t)
  BY <1>2 DEF Sound, Marked
<1> QED BY <1>1, <1>2, <1>3 DEF Stopped, t

(* Another view of a page that does not play.                              *)
LEMMA ShowIsSound == ASSUME NEW s, Stopped(s) PROVE Stopped([s EXCEPT !.shown = "base"])
<1> DEFINE t == [s EXCEPT !.shown = "base"]
<1>1. s \in PageType
  BY DEF Stopped
<1>2. /\ t \in PageType
      /\ t.timers = s.timers /\ t.activeIndex = s.activeIndex /\ t.marked = s.marked
      /\ t.available = s.available /\ t.playing = s.playing /\ t.token = s.token
  BY <1>1, Types DEF PageType
<1> HIDE DEF t
<1> QED BY <1>2 DEF Stopped, Sound, Marked, t

(* A review that fails leaves nothing marked and nothing to come.          *)
LEMMA FailIsSound == ASSUME Review!ReviewAssumption, NEW s \in PageType, Marked(s) PROVE Stopped(Review!FailReview(s))
<1> DEFINE t == Review!FailReview(s)
           u == Review!StopPlayback(s)
<1>1. Stopped(u)
  BY StopIsSound
<1>2. /\ t \in PageType /\ t.playing = FALSE /\ t.timers = {}
      /\ t.activeIndex = -1 /\ t.marked = {} /\ t.available = FALSE
  <2>1. u \in PageType /\ u.timers = {} /\ u.playing = FALSE
    BY <1>1, Types DEF Stopped, Sound, Marked, PageType
  <2>2. t = [u EXCEPT !.available = FALSE, !.activeIndex = -1, !.marked = {}]
    BY DEF Review!FailReview
  <2> HIDE DEF t, u
  <2> QED BY <2>1, <2>2, Types DEF PageType
<1>3. -1 \in -1 .. Review!Last
  BY DEF Review!ReviewAssumption, Review!Last
<1> HIDE DEF t
<1> QED BY <1>2, <1>3 DEF Stopped, Sound, Marked, t

(* The overview marks no change.                                           *)
LEMMA OverviewIsSound == ASSUME Review!ReviewAssumption, NEW s \in PageType, Sound(s) PROVE Stopped(Review!Overview(s))
<1>1. CASE ~s.available
  BY <1>1, FailIsSound DEF Review!Overview, Sound
<1>2. CASE s.available
  <2> DEFINE t == Review!Overview(s)
             u == Review!StopPlayback(s)
  <2>1. u \in PageType /\ u.timers = {} /\ u.playing = FALSE
    BY StopIsSound DEF Stopped, Sound, Marked, PageType
  <2>2. t = [u EXCEPT !.activeIndex = -1, !.marked = {}, !.shown = "delta"]
    BY <1>2 DEF Review!Overview
  <2> HIDE DEF t, u
  <2>3. t \in PageType /\ t.timers = {} /\ t.playing = FALSE /\ t.activeIndex = -1 /\ t.marked = {}
    BY <2>1, <2>2, Types DEF PageType
  <2>4. -1 \in -1 .. Review!Last
    BY DEF Review!ReviewAssumption, Review!Last
  <2> QED BY <2>3, <2>4 DEF Stopped, Sound, Marked, t
<1> QED BY <1>1, <1>2

(* A change that is selected while nothing plays.                          *)
LEMMA SelectIsSound == ASSUME Review!ReviewAssumption, NEW s, Stopped(s), NEW i \in Int PROVE
  /\ Stopped(Review!SelectChange(s, i))
  /\ Review!Selected(s, i) => /\ Review!SelectChange(s, i).available
                       /\ Review!SelectChange(s, i).activeIndex = i
                       /\ Review!SelectChange(s, i).token = s.token
                       /\ i \in 0 .. Review!Last
<1>0. s \in PageType /\ Sound(s)
  BY DEF Stopped
<1>1. CASE ~Review!Selectable(s, i)
  BY <1>1 DEF Review!SelectChange, Review!Selected
<1>2. CASE Review!Selectable(s, i) /\ i \in damaged
  BY <1>0, <1>2, FailIsSound DEF Review!SelectChange, Review!Selected, Sound
<1>3. CASE Review!Selectable(s, i) /\ i \notin damaged
  <2> DEFINE t == Review!SelectChange(s, i)
  <2>1. i \in 0 .. Review!Last /\ s.available /\ i \in -1 .. Review!Last /\ i >= 0
    BY <1>3 DEF Review!Selectable, Review!Last, Review!ReviewAssumption
  <2>2. t = [s EXCEPT !.shown = "delta", !.activeIndex = i, !.marked = {i}]
    BY <1>3 DEF Review!SelectChange
  <2> HIDE DEF t
  <2>3. /\ t \in PageType /\ t.activeIndex = i /\ t.marked = {i} /\ t.available = s.available
        /\ t.playing = s.playing /\ t.timers = s.timers /\ t.token = s.token
    BY <1>0, <2>2, NumberTypes DEF PageType
  <2>4. Stopped(t)
    BY <2>1, <2>3 DEF Stopped, Sound, Marked
  <2> QED BY <2>1, <2>3, <2>4 DEF t
<1> QED BY <1>1, <1>2, <1>3

(* A playback begins at the first change, with a timeout of its own.       *)
LEMMA StartIsSound == ASSUME Review!ReviewAssumption, NEW s \in PageType, Sound(s) PROVE
  Review!StartReview(s) \in PageType /\ Sound(Review!StartReview(s))
<1> DEFINE u == Review!StopPlayback(s)
           v == Review!SelectChange(u, 0)
           w == [v EXCEPT !.playing = TRUE, !.token = v.token + 1]
           n == v.token + 1
<1>1. CASE ~s.available
  BY <1>1 DEF Review!StartReview
<1>2. CASE s.available /\ s.playing
  BY <1>2, StopIsSound DEF Review!StartReview, Stopped, Sound
<1>3. CASE s.available /\ ~s.playing
  <2>1. Stopped(u) /\ u.available
    BY <1>3, StopIsSound DEF Sound
  <2>2. Stopped(v) /\ (Review!Selected(u, 0) => v.available /\ v.activeIndex = 0)
    <3> HIDE DEF u
    <3>1. 0 \in Int
      OBVIOUS
    <3> QED BY <2>1, <3>1, SelectIsSound
  <2>3. Review!Selected(s, 0) <=> Review!Selected(u, 0)
    BY <2>1, <1>3 DEF Review!Selected, Review!Selectable
  <2>4. CASE ~Review!Selected(s, 0) \/ reduced \/ Rows < 2
    <3>1. Review!StartReview(s) = v
      BY <1>3, <2>4 DEF Review!StartReview
    <3> HIDE DEF v
    <3> QED BY <2>2, <3>1 DEF Stopped
  <2>5. CASE ~(~Review!Selected(s, 0) \/ reduced \/ Rows < 2)
    <3>1. Review!StartReview(s) = Review!SchedulePlayback(w, n)
      BY <1>3, <2>5 DEF Review!StartReview
    <3>2. v \in PageType /\ v.activeIndex = 0 /\ v.available = TRUE /\ v.timers = {}
          /\ v.marked = {0} /\ 0 < Review!Last
      <4> HIDE DEF v
      <4>1. 0 < Review!Last
        BY <2>5 DEF Review!Last, Review!ReviewAssumption
      <4> QED BY <2>2, <2>3, <2>5, <4>1 DEF Stopped, Sound, Marked, PageType
    <3>3. w \in PageType /\ n \in Int /\ w.playing = TRUE /\ w.token = n /\ w.activeIndex = 0
          /\ w.available = TRUE /\ w.timers = {} /\ w.marked = {0}
      <4> HIDE DEF v
      <4>1. n \in Int
        BY <3>2 DEF PageType
      <4> QED BY <3>2, <4>1, NumberTypes DEF PageType
    <3> HIDE DEF w, n
    <3> HIDE DEF v
    <3>4. Review!SchedulePlayback(w, n) = [w EXCEPT !.timers = w.timers \cup {n}]
      <4>1. ~(w.activeIndex >= Review!Last)
        <5>1. Review!Last \in Int /\ 0 < Review!Last
          BY <3>2 DEF Review!Last, Review!ReviewAssumption
        <5> QED BY <3>3, <5>1
      <4> QED BY <3>3, <4>1 DEF Review!SchedulePlayback
    <3> DEFINE x == [w EXCEPT !.timers = w.timers \cup {n}]
    <3>5. x \in PageType /\ x.playing = TRUE /\ x.token = n /\ x.activeIndex = 0
          /\ x.available = TRUE /\ x.timers = {n} /\ x.marked = {0}
      <4>1. x \in PageType
        BY <3>3, NumberTypes
      <4>2. w.timers \cup {n} = {n}
        BY <3>3
      <4>3. x.timers = w.timers \cup {n}
        BY <3>3 DEF PageType
      <4> QED BY <3>3, <4>1, <4>2, <4>3 DEF PageType
    <3>6. 0 \in -1 .. Review!Last
      BY <3>2 DEF Review!Last, Review!ReviewAssumption
    <3> HIDE DEF x
    <3>7. Sound(x)
      BY <3>2, <3>5, <3>6 DEF Sound, Marked
    <3> QED BY <3>1, <3>4, <3>5, <3>7 DEF x
  <2> QED BY <2>4, <2>5
<1> QED BY <1>1, <1>2, <1>3 DEF PageType

(* The page after the timeout of a playback that was not stopped.          *)
LEMMA TickIsSound ==
  ASSUME Review!ReviewAssumption, NEW s \in PageType, Marked(s), s.playing, s.timers = {},
         s.activeIndex >= 0, s.activeIndex < Review!Last
  PROVE  LET i == s.activeIndex + 1
             t == IF ~Review!Selected(s, i) THEN Review!SelectChange(s, i)
                  ELSE Review!SchedulePlayback(Review!SelectChange(s, i), s.token)
         IN  t \in PageType /\ Sound(t)
<1> DEFINE i == s.activeIndex + 1
           v == Review!SelectChange(s, i)
           x == Review!SchedulePlayback(v, s.token)
<1>1. i \in 0 .. Review!Last /\ i \in Int /\ s.available /\ s.token \in Int
  BY DEF PageType, Marked, Review!Last, Review!ReviewAssumption
<1>2. CASE i \in damaged
  <2>1. ~Review!Selected(s, i) /\ v = Review!FailReview(s)
    BY <1>1, <1>2 DEF Review!Selected, Review!SelectChange, Review!Selectable
  <2> HIDE DEF v, i
  <2> QED BY <2>1, FailIsSound DEF Stopped, v, i
<1>3. CASE i \notin damaged
  <2>1. Review!Selected(s, i) /\ v = [s EXCEPT !.shown = "delta", !.activeIndex = i, !.marked = {i}]
    BY <1>1, <1>3 DEF Review!Selected, Review!SelectChange, Review!Selectable
  <2>2. /\ v \in PageType /\ v.activeIndex = i /\ v.marked = {i} /\ v.available = s.available
        /\ v.playing = s.playing /\ v.timers = {} /\ v.token = s.token
    <3> HIDE DEF v, i
    <3> QED BY <1>1, <2>1, NumberTypes DEF PageType
  <2>3. Marked(v) /\ i >= 0
    <3>1. i >= 0 /\ i \in -1 .. Review!Last
      BY <1>1 DEF Review!Last, Review!ReviewAssumption
    <3> HIDE DEF v, i
    <3> QED BY <1>1, <2>2, <3>1 DEF Marked
  <2>4. CASE v.activeIndex >= Review!Last
    <3>1. x = Review!StopPlayback(v)
      BY <2>4 DEF Review!SchedulePlayback
    <3> HIDE DEF v, i
    <3>2. x \in PageType /\ Sound(x)
      BY <2>2, <2>3, <3>1, StopIsSound DEF Stopped
    <3> QED BY <2>1, <3>2 DEF v, i
  <2>5. CASE ~(v.activeIndex >= Review!Last)
    <3>1. x = [v EXCEPT !.timers = v.timers \cup {s.token}]
      <4>1. v.playing /\ s.token = v.token
        BY <2>2
      <4> HIDE DEF v, i
      <4> QED BY <2>5, <4>1 DEF Review!SchedulePlayback, x
    <3>2. /\ x \in PageType /\ x.activeIndex = i /\ x.marked = {i} /\ x.available = s.available
          /\ x.playing = s.playing /\ x.timers = {s.token} /\ x.token = s.token
      <4> HIDE DEF v, i, x
      <4>1. x \in PageType
        BY <1>1, <2>2, <3>1, NumberTypes
      <4>2. v.timers \cup {s.token} = {s.token}
        BY <2>2
      <4>3. x.timers = v.timers \cup {s.token}
        BY <2>2, <3>1 DEF PageType
      <4> QED BY <2>2, <3>1, <4>1, <4>2, <4>3 DEF PageType
    <3>3. i < Review!Last
      BY <1>1, <2>2, <2>5 DEF Review!Last, Review!ReviewAssumption
    <3>4. Sound(x)
      <4> HIDE DEF v, i, x
      <4> QED BY <1>1, <2>2, <2>3, <3>2, <3>3 DEF Sound, Marked
    <3> QED BY <2>1, <3>2, <3>4
  <2> QED BY <2>4, <2>5
<1> QED BY <1>2, <1>3

(* Every event and every tick keeps the page sound.                        *)
LEMMA PageStep == ASSUME ReviewInv, [Review!Next]_Review!vars, Review!ReviewAssumption PROVE PageInv'
<1> DEFINE Fit(s) == s \in PageType /\ Sound(s)
<1>0. Fit(Review!Page) /\ Marked(Review!Page)
  BY DEF ReviewInv, PageInv, Sound
<1>1. ASSUME NEW s, s \in PageType, Sound(s), Review!Becomes(s) PROVE PageInv'
  <2>1. Review!Page' = [available |-> s.available, activeIndex |-> s.activeIndex, marked |-> s.marked,
                 shown |-> s.shown, playing |-> s.playing, token |-> s.token, timers |-> s.timers]
    BY <1>1 DEF Review!Becomes, Review!Page
  <2>2. Review!Page' = s
    BY <1>1, <2>1 DEF PageType
  <2> QED BY <1>1, <2>2 DEF PageInv
<1>2. Fit(Review!StopPlayback(Review!Page)) /\ Stopped(Review!StopPlayback(Review!Page))
  BY <1>0, StopIsSound DEF Stopped
<1>3. ASSUME UNCHANGED Review!page PROVE PageInv'
  BY <1>3 DEF Review!page, ReviewInv, PageInv, Review!Page
<1>4. CASE Review!Tick
  <2>1. PICK t \in timers :
          LET fired == [Review!Page EXCEPT !.timers = Review!Page.timers \ {t}]
          IN Review!Becomes(IF ~playing \/ t # token THEN fired
                     ELSE IF ~Review!Selected(fired, activeIndex + 1)
                          THEN Review!SelectChange(fired, activeIndex + 1)
                          ELSE Review!SchedulePlayback(Review!SelectChange(fired, activeIndex + 1), t))
    BY <1>4 DEF Review!Tick
  <2> DEFINE fired == [Review!Page EXCEPT !.timers = Review!Page.timers \ {t}]
  <2>2. playing /\ t = token /\ t \in Int /\ activeIndex >= 0 /\ activeIndex < Review!Last /\ timers = {t}
    BY <1>0 DEF Sound, Review!Page, PageType
  <2>3. /\ fired \in PageType /\ fired.timers = {} /\ fired.playing /\ fired.token = t
        /\ fired.activeIndex = activeIndex /\ fired.marked = marked /\ fired.available = available
    <3>1. fired \in PageType
      BY <1>0, <2>2, NumberTypes
    <3>2. fired.timers = {}
      BY <2>2 DEF Review!Page
    <3> QED BY <2>2, <3>1, <3>2 DEF Review!Page
  <2>4. Marked(fired)
    <3> HIDE DEF fired
    <3>1. Marked([Review!Page EXCEPT !.timers = {}])
      BY <1>0 DEF Marked, Review!Page
    <3> QED BY <1>0, <2>2, <2>3 DEF Marked, Review!Page
  <2> DEFINE goal == IF ~Review!Selected(fired, activeIndex + 1) THEN Review!SelectChange(fired, activeIndex + 1)
                     ELSE Review!SchedulePlayback(Review!SelectChange(fired, activeIndex + 1), t)
  <2>5. goal \in PageType /\ Sound(goal)
    <3> HIDE DEF fired
    <3> QED BY <2>2, <2>3, <2>4, TickIsSound
  <2>6. Review!Becomes(goal)
    BY <2>1, <2>2
  <2> HIDE DEF goal
  <2> QED BY <1>1, <2>5, <2>6
<1>5. ASSUME NEW b \in Review!Buttons, Review!Press(b) PROVE PageInv'
  BY <1>0, <1>1, <1>2, <1>5 DEF Review!Press
<1>6. CASE Review!Click
  <2>1. pressed = "tab" => Fit([Review!StopPlayback(Review!Page) EXCEPT !.shown = "base"])
    BY <1>2, ShowIsSound DEF Stopped
  <2>2. Fit(Review!StartReview(Review!Page)) /\ Fit(Review!Overview(Review!Page))
    BY <1>0, StartIsSound, OverviewIsSound DEF Stopped
  <2>3. activeIndex + 1 \in Int /\ activeIndex - 1 \in Int
    BY <1>0 DEF PageType, Review!Page
  <2>4. /\ Fit(Review!SelectChange(Review!StopPlayback(Review!Page), activeIndex + 1))
        /\ Fit(Review!SelectChange(Review!StopPlayback(Review!Page), activeIndex - 1))
    BY <1>2, <2>3, SelectIsSound DEF Stopped
  <2>5. ASSUME Review!Becomes(Review!Page) PROVE PageInv'
    BY <1>0, <1>1, <2>5
  <2>6. Review!Becomes(IF available \/ pressed = "tab" THEN Review!Handled(pressed) ELSE Review!Page)
    BY <1>6 DEF Review!Click
  <2>7. CASE ~(available \/ pressed = "tab")
    BY <2>5, <2>6, <2>7
  <2>8. CASE available \/ pressed = "tab"
    <3>1. Review!Becomes(Review!Handled(pressed))
      BY <2>6, <2>8
    <3>2. CASE pressed = "play"
      BY <1>1, <2>2, <3>1, <3>2 DEF Review!Handled
    <3>3. CASE pressed = "next"
      BY <1>1, <2>4, <2>5, <3>1, <3>3 DEF Review!Handled
    <3>4. CASE pressed = "previous"
      BY <1>1, <2>4, <2>5, <3>1, <3>4 DEF Review!Handled
    <3>5. CASE pressed = "overview"
      BY <1>1, <2>2, <2>5, <3>1, <3>5 DEF Review!Handled
    <3>6. CASE pressed = "tab"
      BY <1>1, <2>1, <3>1, <3>6 DEF Review!Handled
    <3>7. pressed \in Review!Buttons
      BY <1>6 DEF ReviewInv, Review!Click
    <3> QED BY <3>2, <3>3, <3>4, <3>5, <3>6, <3>7 DEF Review!Buttons
  <2> QED BY <2>7, <2>8
<1>7. ASSUME NEW i \in 0 .. Review!Last, Review!ClickRow(i) PROVE PageInv'
  <2>1. Fit(Review!SelectChange(Review!StopPlayback(Review!Page), i))
    BY <1>2, SelectIsSound DEF Stopped
  <2> QED BY <1>1, <1>7, <2>1 DEF Review!ClickRow
<1>8. CASE Review!Interrupt
  BY <1>1, <1>2, <1>8 DEF Review!Interrupt
<1>9. CASE Review!Escape \/ Review!BeforePrint
  <2>1. Fit(Review!Overview(Review!Page))
    BY <1>0, OverviewIsSound DEF Stopped
  <2> QED BY <1>1, <1>9, <2>1 DEF Review!Escape, Review!BeforePrint
<1>10. CASE Review!PreferReducedMotion
  BY <1>0, <1>1, <1>2, <1>10 DEF Review!PreferReducedMotion
<1>11. CASE Review!Blur \/ \E i \in 0 .. Review!Last : Review!Damage(i)
  BY <1>3, <1>11 DEF Review!Blur, Review!Damage
<1>12. CASE UNCHANGED Review!vars
  BY <1>3, <1>12 DEF Review!vars
<1> QED BY <1>4, <1>5, <1>6, <1>7, <1>8, <1>9, <1>10, <1>11, <1>12 DEF Review!Next

(* Whatever the reader clicks, whatever else happens on the page, and      *)
(* whenever the timeout fires: there is a timeout to come exactly while a  *)
(* playback is on, and the one change that is marked is the one shown.     *)
THEOREM ReviewHolds == Review!ReviewAssumption /\ Review!Init /\ [][Review!Next]_Review!vars => []Review!ReviewIsSingle
<1> SUFFICES ASSUME Review!ReviewAssumption PROVE Review!Init /\ [][Review!Next]_Review!vars => []Review!ReviewIsSingle
  OBVIOUS
<1>1. ASSUME Review!Init PROVE ReviewInv
  <2>0. -1 \in Int /\ 0 \in Int
    OBVIOUS
  <2>1. -1 \in -1 .. Review!Last
    BY DEF Review!Last, Review!ReviewAssumption
  <2>2. Review!Page \in PageType
    BY <1>1, <2>0 DEF Review!Init, Review!Page, PageType
  <2>3. Review!Page.activeIndex = -1 /\ Review!Page.marked = {} /\ Review!Page.playing = FALSE /\ Review!Page.timers = {}
    BY <1>1 DEF Review!Init, Review!Page
  <2>4. ~(Review!Page.activeIndex >= 0)
    BY <2>3
  <2>5. Marked(Review!Page)
    BY <2>1, <2>3, <2>4 DEF Marked
  <2>6. Sound(Review!Page)
    BY <2>3, <2>5 DEF Sound
  <2>7. pressed \in Review!Buttons \cup {""}
    BY <1>1 DEF Review!Init
  <2> QED BY <2>2, <2>6, <2>7 DEF ReviewInv, PageInv
<1>2. ReviewInv /\ [Review!Next]_Review!vars => ReviewInv'
  <2> SUFFICES ASSUME ReviewInv, [Review!Next]_Review!vars PROVE ReviewInv'
    OBVIOUS
  <2>1. PageInv'
    BY PageStep
  <2>2. pressed' \in Review!Buttons \cup {""}
    BY DEF ReviewInv, Review!Next, Review!Tick, Review!Press, Review!Click, Review!ClickRow, Review!Blur, Review!Interrupt, Review!Escape, Review!BeforePrint,
           Review!PreferReducedMotion, Review!Damage, Review!vars, Review!world
  <2> QED BY <2>1, <2>2 DEF ReviewInv
<1>3. ReviewInv => Review!ReviewIsSingle
  BY DEF ReviewInv, PageInv, Sound, Marked, Review!Page, Review!ReviewIsSingle, Review!OneTimeout, Review!OneMark
<1> QED BY <1>1, <1>2, <1>3, PTL
-----------------------------------------------------------------------------
Made == {"mkdir", "write"}
Guarded == Made \cup {"rename", "remove", "read"}
Mutations == {"create", "rename", "remove", "read"}

(* The place of the mutation among the calls of an operation, and what it  *)
(* is called; the paths it acts on.                                        *)
MutationAt(o) ==
  CASE o = "rename" -> 14 [] o = "remove" -> 15 [] o = "read" -> 5 [] OTHER -> 8
Mutation(o) == IF o \in Made THEN "create" ELSE o
ActsOn(o) ==
  CASE o = "rename" -> {"root", "parent", "source"} [] o = "read" -> {"root", "source"}
    [] OTHER -> {"root", "parent"}

(* Where what it acted on is afterwards, and the call that looks at it.    *)
Location(o, p) == IF o = "rename" /\ p = "source" THEN "dest" ELSE p
LookAt(o, p) ==
  MutationAt(o) + (CASE p = "root" -> IF o = "read" THEN 2 ELSE 1
                     [] p = "parent" -> 2
                     [] OTHER -> IF o = "read" THEN 1 ELSE 5)

(* The call that notes a path of the operation.                            *)
NoteAt(o, p) ==
  CASE p = "root" -> 0 [] p = "parent" -> 2 [] OTHER -> IF o = "read" THEN 2 ELSE 5

(* What the proofs need of the calls of a guarded operation: it begins at  *)
(* the root, notes a path once and before the mutation, mutates once, and  *)
(* looks at everything it acted on before its last call.                   *)
Shape(o) ==
  LET P == Cache!Program(o)
  IN  /\ Len(P) \in Nat /\ P[1] = "root"
      /\ \A k \in 1 .. Len(P) :
           /\ P[k] \notin {"makeRoot", "noteRoot"}
           /\ P[k] \in Mutations <=> k = MutationAt(o)
           /\ P[k] \in {"noteParent", "noteSource"} => 1 < k /\ k < MutationAt(o)
      /\ MutationAt(o) \in Nat /\ 1 < MutationAt(o) /\ MutationAt(o) < Len(P)
      /\ P[MutationAt(o)] = Mutation(o)
      /\ \A p \in ActsOn(o) :
           /\ NoteAt(o, p) \in Nat /\ NoteAt(o, p) < MutationAt(o) /\ (NoteAt(o, p) = 0 => p = "root")
           /\ p = "parent" => P[NoteAt(o, p)] = "noteParent"
           /\ p = "source" => P[NoteAt(o, p)] = "noteSource"
           /\ LookAt(o, p) \in Nat /\ MutationAt(o) < LookAt(o, p) /\ LookAt(o, p) < Len(P)
           /\ P[LookAt(o, p)] = Location(o, p)

(* Every guarded operation has this shape.                                 *)
LEMMA ShapeOfAll == \A o \in Guarded : Shape(o)
<1> USE DEF Shape, Cache!Program, Cache!Stable, Cache!Capture, Cache!Context, MutationAt, Mutation, ActsOn,
            Location, LookAt, NoteAt, Made, Mutations
<1>1. Shape("mkdir")
  OBVIOUS
<1>2. Shape("write")
  OBVIOUS
<1>3. Shape("rename")
  OBVIOUS
<1>4. Shape("remove")
  OBVIOUS
<1>5. Shape("read")
  OBVIOUS
<1> HIDE DEF Shape
<1> QED BY <1>1, <1>2, <1>3, <1>4, <1>5 DEF Guarded

(* The calls of the preparation.                                           *)
LEMMA Preparation ==
  LET P == Cache!Program("prepare")
  IN  Len(P) = 3 /\ P[1] = "makeRoot" /\ P[2] = "noteRoot" /\ P[3] = "root"
  BY DEF Cache!Program

Begun == Cache!Running /\ Cache!Current # "prepare"

QueueInv ==
  /\ queue \in Seq({"prepare"} \cup Guarded)
  /\ \A i \in 2 .. Len(queue) : queue[i] # "prepare"
  /\ step \in Nat /\ swaps \in Nat
  /\ Cache!Running => step < Len(Cache!Program(Cache!Current))
  /\ disk \in [Cache!Paths -> Cache!Objects] /\ snap \in [Cache!Paths -> Cache!Objects]

TrustInv == Begun /\ step >= 1 => trusted

(* While nothing was replaced from outside, what the command noted is what *)
(* is there: the root since the preparation, the rest up to the mutation.  *)
NotedInv ==
  swaps = 0 =>
    /\ Cache!Running /\ Cache!Current = "prepare" =>
         /\ disk["root"] \in {"own", "none"} /\ (step >= 1 => disk["root"] = "own")
         /\ step >= 2 => snap["root"] = disk["root"]
    /\ Begun => snap["root"] = disk["root"]
    /\ Begun /\ step < MutationAt(Cache!Current) =>
         \A p \in ActsOn(Cache!Current) : NoteAt(Cache!Current, p) <= step => snap[p] = disk[p]

(* Afterwards what it acted on is what it had noted, or there was a        *)
(* replacement, so that there is none to come, and the look at it will     *)
(* tell.                                                                   *)
Told(o, p) ==
  \/ acted[p] = snap[p]
  \/ /\ step < LookAt(o, p) /\ swaps >= 1
     /\ disk[Location(o, p)] = acted[p] /\ snap[Location(o, p)] = snap[p]

ActedInv ==
  /\ Cache!Running /\ Cache!Current = "prepare" => DOMAIN acted = {}
  /\ Begun /\ step >= MutationAt(Cache!Current) =>
       /\ DOMAIN acted = ActsOn(Cache!Current)
       /\ \A p \in ActsOn(Cache!Current) : Told(Cache!Current, p)
  /\ Cache!DoneMeansInspected

GuardInv == QueueInv /\ TrustInv /\ NotedInv /\ ActedInv

(* The next operation is not a preparation.                                *)
LEMMA NextOperation ==
  ASSUME QueueInv, Cache!Running, queue' = Tail(queue)
  PROVE  /\ queue' \in Seq({"prepare"} \cup Guarded)
         /\ \A i \in 1 .. Len(queue') : queue'[i] # "prepare"
         /\ Cache!Running' => Cache!Current' \in Guarded /\ Cache!Current' # "prepare"
<1>1. /\ queue \in Seq({"prepare"} \cup Guarded) /\ queue # <<>>
      /\ \A i \in 2 .. Len(queue) : queue[i] # "prepare"
  BY DEF QueueInv, Cache!Running
<1>2. /\ queue' \in Seq({"prepare"} \cup Guarded) /\ Len(queue') = Len(queue) - 1 /\ Len(queue) \in Nat
      /\ \A i \in 1 .. Len(queue') : queue'[i] = queue[i + 1]
  BY <1>1, HeadTailProperties, LenProperties
<1>3. \A i \in 1 .. Len(queue') : queue'[i] # "prepare"
  BY <1>1, <1>2
<1>4. queue' # <<>> => Head(queue') = queue'[1] /\ 1 \in 1 .. Len(queue') /\ Head(queue') \in {"prepare"} \cup Guarded
  BY <1>2, HeadTailProperties, LenProperties, EmptySeq
<1> QED BY <1>2, <1>3, <1>4 DEF Cache!Running, Cache!Current

(* The operation that runs, and its next call.                             *)
LEMMA CurrentOperation ==
  ASSUME QueueInv, Cache!Running
  PROVE  /\ Cache!Current \in {"prepare"} \cup Guarded
         /\ step + 1 \in 1 .. Len(Cache!Program(Cache!Current))
         /\ Len(Cache!Program(Cache!Current)) \in Nat
         /\ Begun => Cache!Current \in Guarded /\ Shape(Cache!Current)
         /\ Cache!Current # "prepare" => Begun
<1>1. Cache!Current \in {"prepare"} \cup Guarded
  BY HeadTailProperties DEF QueueInv, Cache!Running, Cache!Current
<1>2. Begun => Cache!Current \in Guarded /\ Shape(Cache!Current)
  BY <1>1, ShapeOfAll DEF Begun
<1>3. Len(Cache!Program(Cache!Current)) \in Nat
  BY <1>1, <1>2, Preparation DEF Shape, Begun
<1> QED BY <1>1, <1>2, <1>3 DEF QueueInv, Begun

(* An operation that is over leaves the next one to begin.                 *)
LEMMA EndKeeps ==
  ASSUME GuardInv, Cache!Running, queue' = Tail(queue), step' = 0,
         UNCHANGED <<disk, snap, acted, swaps>>,
         swaps = 0 => snap["root"] = disk["root"],
         ending' = "done" => \A p \in DOMAIN acted : acted[p] = snap[p]
  PROVE  GuardInv'
<1>1. /\ queue' \in Seq({"prepare"} \cup Guarded)
      /\ \A i \in 1 .. Len(queue') : queue'[i] # "prepare"
      /\ Cache!Running' => Cache!Current' \in Guarded /\ Cache!Current' # "prepare"
  BY NextOperation DEF GuardInv
<1>2. PICK o : o = Cache!Current'
  OBVIOUS
<1>3. Cache!Running' =>
        /\ 0 < MutationAt(o) /\ MutationAt(o) \in Nat /\ Len(Cache!Program(o)) \in Nat /\ 0 < Len(Cache!Program(o))
        /\ \A p \in ActsOn(o) : NoteAt(o, p) \in Nat /\ (NoteAt(o, p) <= 0 => p = "root")
  BY <1>1, <1>2, ShapeOfAll DEF Shape
<1>4. /\ MutationAt(Cache!Current)' = MutationAt(o) /\ ActsOn(Cache!Current)' = ActsOn(o)
      /\ Len(Cache!Program(Cache!Current))' = Len(Cache!Program(o))
      /\ \A p : NoteAt(Cache!Current, p)' = NoteAt(o, p)
  BY <1>2 DEF MutationAt, ActsOn, Cache!Program, NoteAt
<1>5. QueueInv'
  BY <1>1, <1>3, <1>4 DEF GuardInv, QueueInv
<1>6. TrustInv'
  BY DEF TrustInv
<1>7. NotedInv'
  BY <1>1, <1>3, <1>4 DEF NotedInv, Begun
<1>8. ActedInv'
  BY <1>1, <1>3, <1>4 DEF ActedInv, Begun, Cache!DoneMeansInspected
<1> QED BY <1>5, <1>6, <1>7, <1>8 DEF GuardInv

(* The names of what the operation does stay with it.                      *)
LEMMA SameOperation ==
  ASSUME queue' = queue, NEW o, o = Cache!Current
  PROVE  /\ Cache!Current' = o /\ (Cache!Running' <=> Cache!Running) /\ (Begun' <=> Begun)
         /\ MutationAt(Cache!Current)' = MutationAt(o) /\ ActsOn(Cache!Current)' = ActsOn(o)
         /\ Len(Cache!Program(Cache!Current))' = Len(Cache!Program(o))
  BY DEF Cache!Current, Cache!Running, Begun, MutationAt, ActsOn, Cache!Program

(* A call that looks at something and is content.                          *)
LEMMA LookKeeps ==
  ASSUME GuardInv, Begun, Cache!Pass, UNCHANGED <<disk, snap, acted, swaps, trusted>>,
         step = 0 => trusted, Cache!Call \notin Mutations \cup {"noteParent", "noteSource"},
         Cache!Call \in Cache!Paths => Cache!Same(Cache!Call)
  PROVE  GuardInv'
<1>0. PICK o : o = Cache!Current
  OBVIOUS
<1>1. /\ o \in Guarded /\ Shape(o) /\ Cache!Running /\ o # "prepare"
      /\ step \in Nat /\ step + 1 \in 1 .. Len(Cache!Program(o)) /\ Len(Cache!Program(o)) \in Nat
  BY <1>0, CurrentOperation DEF GuardInv, Begun, QueueInv
<1>2. Cache!Call = Cache!Program(o)[step + 1]
  BY <1>0 DEF Cache!Call
<1>3. step + 1 # MutationAt(o)
  BY <1>1, <1>2 DEF Shape
<1>4. CASE step + 1 = Len(Cache!Program(o))
  <2>1. queue' = Tail(queue) /\ step' = 0
    BY <1>0, <1>4 DEF Cache!Pass, Cache!End
  <2>2. \A p \in DOMAIN acted : acted[p] = snap[p]
    <3>1. step >= MutationAt(o)
      BY <1>1, <1>4 DEF Shape
    <3>2. DOMAIN acted = ActsOn(o) /\ \A p \in ActsOn(o) : Told(o, p)
      BY <1>0, <3>1 DEF GuardInv, ActedInv
    <3>3. \A p \in ActsOn(o) : ~(step < LookAt(o, p))
      BY <1>1, <1>4 DEF Shape
    <3> QED BY <3>2, <3>3 DEF Told
  <2>3. swaps = 0 => snap["root"] = disk["root"]
    BY DEF GuardInv, NotedInv
  <2> QED BY <1>1, <2>1, <2>2, <2>3, EndKeeps
<1>5. CASE step + 1 # Len(Cache!Program(o))
  <2>1. queue' = queue /\ step' = step + 1 /\ ending' = ending
    BY <1>0, <1>5 DEF Cache!Pass
  <2>2. /\ Cache!Current' = o /\ (Cache!Running' <=> Cache!Running) /\ (Begun' <=> Begun)
        /\ MutationAt(Cache!Current)' = MutationAt(o) /\ ActsOn(Cache!Current)' = ActsOn(o)
        /\ Len(Cache!Program(Cache!Current))' = Len(Cache!Program(o))
    BY <1>0, <2>1, SameOperation
  <2>3. QueueInv'
    <3>1. step + 1 < Len(Cache!Program(o)) /\ step + 1 \in Nat
      BY <1>1, <1>5
    <3> QED BY <1>0, <2>1, <2>2, <3>1 DEF GuardInv, QueueInv
  <2>4. TrustInv'
    BY <1>1 DEF GuardInv, TrustInv
  <2>5. \A p : NoteAt(Cache!Current, p)' = NoteAt(o, p) /\ LookAt(Cache!Current, p)' = LookAt(o, p)
               /\ Location(Cache!Current, p)' = Location(o, p)
    BY <2>2 DEF NoteAt, LookAt, Location, MutationAt
  <2>6. NotedInv'
    <3>1. \A p \in ActsOn(o) : NoteAt(o, p) <= step + 1 => NoteAt(o, p) <= step
      <4> SUFFICES ASSUME NEW p \in ActsOn(o), NoteAt(o, p) = step + 1 PROVE FALSE
        BY <1>1 DEF Shape
      <4>1. p \in {"root", "parent", "source"}
        BY DEF ActsOn
      <4>2. CASE p = "root"
        BY <1>1, <4>2 DEF NoteAt
      <4> QED BY <1>1, <1>2, <4>1, <4>2 DEF Shape
    <3>2. swaps = 0 => snap["root"] = disk["root"]
                       /\ (step < MutationAt(o) => \A p \in ActsOn(o) : NoteAt(o, p) <= step => snap[p] = disk[p])
      BY <1>0 DEF GuardInv, NotedInv
    <3> QED BY <1>1, <2>1, <2>2, <2>5, <3>1, <3>2 DEF NotedInv, Shape
  <2>7. ActedInv'
    <3>1. Cache!DoneMeansInspected'
      BY <1>1, <2>1 DEF Cache!DoneMeansInspected
    <3>2. ASSUME step + 1 >= MutationAt(o)
          PROVE  DOMAIN acted = ActsOn(o) /\ \A p \in ActsOn(o) : Told(o, p)'
      <4>1. step >= MutationAt(o)
        BY <1>1, <1>3, <3>2 DEF Shape
      <4>2. DOMAIN acted = ActsOn(o) /\ \A p \in ActsOn(o) : Told(o, p)
        BY <1>0, <4>1 DEF GuardInv, ActedInv
      <4>3. ASSUME NEW p \in ActsOn(o) PROVE Told(o, p)'
        <5>1. LookAt(o, p)' = LookAt(o, p) /\ Location(o, p)' = Location(o, p) /\ Location(o, p) \in Cache!Paths
          BY DEF LookAt, MutationAt, Location, ActsOn, Cache!Paths
        <5>2. Cache!Program(o)[LookAt(o, p)] = Location(o, p) /\ LookAt(o, p) \in Nat
          BY <1>1 DEF Shape
        <5>3. CASE acted[p] = snap[p]
          BY <5>3 DEF Told
        <5>4. CASE step + 1 = LookAt(o, p) /\ acted[p] # snap[p]
          BY <1>2, <4>2, <5>1, <5>2, <5>4 DEF Told, Cache!Same
        <5>5. CASE step + 1 # LookAt(o, p) /\ acted[p] # snap[p]
          BY <1>1, <2>1, <4>2, <5>1, <5>2, <5>5 DEF Told
        <5> QED BY <5>3, <5>4, <5>5
      <4> QED BY <4>2, <4>3
    <3> QED BY <1>1, <2>1, <2>2, <3>1, <3>2 DEF ActedInv, Told, LookAt, Location, MutationAt
  <2> QED BY <2>3, <2>4, <2>6, <2>7 DEF GuardInv
<1> QED BY <1>4, <1>5

(* A call that takes note of a path.                                       *)
LEMMA NoteKeeps ==
  ASSUME GuardInv, Begun, Cache!Pass, UNCHANGED <<disk, acted, swaps, trusted>>,
         NEW q \in {"parent", "source"}, snap' = [snap EXCEPT ![q] = disk[q]],
         Cache!Call = IF q = "parent" THEN "noteParent" ELSE "noteSource"
  PROVE  GuardInv'
<1>0. PICK o : o = Cache!Current
  OBVIOUS
<1>1. /\ o \in Guarded /\ Shape(o) /\ Cache!Running /\ o # "prepare"
      /\ step \in Nat /\ step + 1 \in 1 .. Len(Cache!Program(o)) /\ Len(Cache!Program(o)) \in Nat
  BY <1>0, CurrentOperation DEF GuardInv, Begun, QueueInv
<1>2. Cache!Call = Cache!Program(o)[step + 1]
  BY <1>0 DEF Cache!Call
<1>3. 1 < step + 1 /\ step + 1 < MutationAt(o) /\ MutationAt(o) < Len(Cache!Program(o)) /\ MutationAt(o) \in Nat
  BY <1>1, <1>2 DEF Shape
<1>4. queue' = queue /\ step' = step + 1 /\ ending' = ending
  BY <1>0, <1>1, <1>3 DEF Cache!Pass
<1>5. /\ Cache!Current' = o /\ (Cache!Running' <=> Cache!Running) /\ (Begun' <=> Begun)
      /\ MutationAt(Cache!Current)' = MutationAt(o) /\ ActsOn(Cache!Current)' = ActsOn(o)
      /\ Len(Cache!Program(Cache!Current))' = Len(Cache!Program(o))
  BY <1>0, <1>4, SameOperation
<1>6. /\ snap'[q] = disk[q] /\ \A p \in Cache!Paths \ {q} : snap'[p] = snap[p]
      /\ snap' \in [Cache!Paths -> Cache!Objects]
  BY DEF GuardInv, QueueInv, Cache!Paths
<1>7. QueueInv'
  <2>1. step + 1 < Len(Cache!Program(o)) /\ step + 1 \in Nat
    BY <1>1, <1>3
  <2> QED BY <1>0, <1>4, <1>5, <1>6, <2>1 DEF GuardInv, QueueInv
<1>8. TrustInv'
  <2>1. step >= 1
    BY <1>1, <1>3
  <2> QED BY <2>1 DEF GuardInv, TrustInv
<1>9. NotedInv'
  <2>1. \A p \in ActsOn(o) : NoteAt(o, p) <= step + 1 => p = q \/ NoteAt(o, p) <= step
    <3> SUFFICES ASSUME NEW p \in ActsOn(o), NoteAt(o, p) = step + 1, p # q PROVE FALSE
      BY <1>1 DEF Shape
    <3>1. p \in {"root", "parent", "source"}
      BY DEF ActsOn
    <3>2. CASE p = "root"
      BY <1>1, <3>2 DEF NoteAt
    <3> QED BY <1>1, <1>2, <3>1, <3>2 DEF Shape
  <2>2. swaps = 0 => snap["root"] = disk["root"]
                     /\ \A p \in ActsOn(o) : NoteAt(o, p) <= step => snap[p] = disk[p]
    BY <1>0, <1>1, <1>3 DEF GuardInv, NotedInv
  <2>3. ActsOn(o) \subseteq Cache!Paths /\ "root" \in Cache!Paths
    BY DEF ActsOn, Cache!Paths
  <2>4. \A p : NoteAt(Cache!Current, p)' = NoteAt(o, p)
    BY <1>5 DEF NoteAt
  <2>5. swaps = 0 => snap'["root"] = disk["root"]
                     /\ \A p \in ActsOn(o) : NoteAt(o, p) <= step + 1 => snap'[p] = disk[p]
    BY <1>6, <2>1, <2>2, <2>3
  <2> QED BY <1>1, <1>4, <1>5, <2>4, <2>5 DEF NotedInv
<1>10. ActedInv'
  <2>1. ~(step' >= MutationAt(o)) /\ step' # 0
    BY <1>1, <1>3, <1>4
  <2> QED BY <1>1, <1>5, <2>1 DEF ActedInv, Cache!DoneMeansInspected
<1> QED BY <1>7, <1>8, <1>9, <1>10 DEF GuardInv

(* The mutation of an operation.                                           *)
LEMMA MutationKeeps ==
  ASSUME GuardInv, Begun, Cache!Pass, UNCHANGED <<swaps, trusted>>,
         Cache!Call \in Mutations,
         disk' \in [Cache!Paths -> Cache!Objects], snap' \in [Cache!Paths -> Cache!Objects],
         acted' = [p \in ActsOn(Cache!Current) |-> disk[p]],
         \A p \in ActsOn(Cache!Current) :
           /\ snap'[p] = snap[p] /\ snap'[Location(Cache!Current, p)] = snap[p]
           /\ disk'[Location(Cache!Current, p)] = disk[p],
         disk'["root"] = disk["root"], snap'["root"] = snap["root"]
  PROVE  GuardInv'
<1>0. PICK o : o = Cache!Current
  OBVIOUS
<1>1. /\ o \in Guarded /\ Shape(o) /\ Cache!Running /\ o # "prepare"
      /\ step \in Nat /\ step + 1 \in 1 .. Len(Cache!Program(o)) /\ Len(Cache!Program(o)) \in Nat
  BY <1>0, CurrentOperation DEF GuardInv, Begun, QueueInv
<1>2. step + 1 = MutationAt(o) /\ step + 1 < Len(Cache!Program(o)) /\ step >= 1
  <2>1. Cache!Call = Cache!Program(o)[step + 1]
    BY <1>0 DEF Cache!Call
  <2> QED BY <1>1, <2>1 DEF Shape
<1>3. queue' = queue /\ step' = step + 1 /\ ending' = ending
  BY <1>0, <1>1, <1>2 DEF Cache!Pass
<1>4. /\ Cache!Current' = o /\ (Cache!Running' <=> Cache!Running) /\ (Begun' <=> Begun)
      /\ MutationAt(Cache!Current)' = MutationAt(o) /\ ActsOn(Cache!Current)' = ActsOn(o)
      /\ Len(Cache!Program(Cache!Current))' = Len(Cache!Program(o))
  BY <1>0, <1>3, SameOperation
<1>5. QueueInv'
  <2>1. step + 1 \in Nat
    BY <1>1
  <2> QED BY <1>2, <1>3, <1>4, <2>1 DEF GuardInv, QueueInv
<1>6. TrustInv'
  BY <1>2 DEF GuardInv, TrustInv
<1>7. swaps = 0 => snap["root"] = disk["root"] /\ \A p \in ActsOn(o) : snap[p] = disk[p]
  <2>1. \A p \in ActsOn(o) : NoteAt(o, p) <= step /\ step < MutationAt(o)
    BY <1>1, <1>2 DEF Shape
  <2>2. step < MutationAt(o)
    BY <1>1, <1>2
  <2> QED BY <1>0, <2>1, <2>2 DEF GuardInv, NotedInv
<1>8. NotedInv'
  <2>1. ~(step' < MutationAt(o))
    BY <1>1, <1>2, <1>3
  <2> QED BY <1>1, <1>4, <1>7, <2>1 DEF NotedInv
<1>9. ActedInv'
  <2>1. ASSUME NEW p \in ActsOn(o) PROVE Told(o, p)'
    <3>1. LookAt(o, p)' = LookAt(o, p) /\ Location(o, p)' = Location(o, p)
      BY DEF LookAt, MutationAt, Location
    <3>2. acted'[p] = disk[p] /\ snap'[p] = snap[p]
      BY <1>0
    <3>3. CASE swaps = 0
      BY <1>7, <3>2, <3>3 DEF Told
    <3>4. CASE swaps # 0
      <4>1. swaps >= 1
        BY <3>4 DEF GuardInv, QueueInv
      <4>2. step' < LookAt(o, p)
        BY <1>1, <1>2, <1>3 DEF Shape
      <4> QED BY <1>0, <3>1, <3>2, <4>1, <4>2 DEF Told
    <3> QED BY <3>3, <3>4
  <2>2. step' # 0 /\ DOMAIN acted' = ActsOn(o)
    BY <1>0, <1>1, <1>3
  <2>3. \A p : (Told(o, p))' <=> Told(Cache!Current, p)'
    BY <1>4 DEF Told, LookAt, MutationAt, Location
  <2> QED BY <1>1, <1>4, <2>1, <2>2, <2>3 DEF ActedInv, Cache!DoneMeansInspected
<1> QED BY <1>5, <1>6, <1>8, <1>9 DEF GuardInv

(* The preparation makes the directory and takes note of it.               *)
LEMMA PrepareKeeps ==
  ASSUME GuardInv, Cache!Running, Cache!Current = "prepare",
         Cache!MakeRoot \/ Cache!NoteRoot \/ Cache!VerifyRoot
  PROVE  GuardInv'
<1>1. /\ step \in {0, 1, 2} /\ ~Begun
      /\ Cache!Call = IF step = 0 THEN "makeRoot" ELSE IF step = 1 THEN "noteRoot" ELSE "root"
  <2>1. step \in Nat /\ step < 3
    BY Preparation DEF GuardInv, QueueInv
  <2>2. step = 0 \/ step = 1 \/ step = 2
    BY <2>1
  <2> QED BY <2>2, Preparation DEF Cache!Call, Begun
<1>2. \A s \in {0, 1} : step = s /\ Cache!Pass => queue' = queue /\ step' = s + 1 /\ ending' = ending
  BY Preparation DEF Cache!Pass
<1>3. step = 2 /\ Cache!Pass => queue' = Tail(queue) /\ step' = 0 /\ ending' = "done"
  BY Preparation DEF Cache!Pass, Cache!End
<1>4. "root" \in Cache!Paths /\ "parent" \in Cache!Paths /\ "source" \in Cache!Paths
  BY DEF Cache!Paths
<1>5. ASSUME queue' = queue, step' \in {1, 2}, ending' = ending, acted' = acted, swaps' = swaps,
             disk' \in [Cache!Paths -> Cache!Objects], snap' \in [Cache!Paths -> Cache!Objects],
             swaps = 0 => disk'["root"] = "own" /\ (step' = 2 => snap'["root"] = disk'["root"])
      PROVE  GuardInv'
  <2>1. /\ Cache!Current' = "prepare" /\ Cache!Running' /\ ~Begun'
        /\ Len(Cache!Program(Cache!Current))' = 3
    BY <1>5, Preparation DEF Cache!Current, Cache!Running, Begun
  <2>2. QueueInv'
    <3>1. step' \in Nat /\ step' < 3
      BY <1>5
    <3> QED BY <1>5, <2>1, <3>1 DEF GuardInv, QueueInv
  <2>3. TrustInv' /\ NotedInv'
    BY <1>5, <2>1 DEF TrustInv, NotedInv
  <2>4. ActedInv'
    BY <1>5, <2>1 DEF GuardInv, ActedInv, Cache!DoneMeansInspected
  <2> QED BY <2>2, <2>3, <2>4 DEF GuardInv
<1>6. CASE Cache!MakeRoot
  <2>1. step = 0
    BY <1>1, <1>6 DEF Cache!MakeRoot
  <2>2. /\ snap' = snap /\ acted' = acted /\ swaps' = swaps /\ disk' \in [Cache!Paths -> Cache!Objects]
        /\ swaps = 0 => disk'["root"] = "own"
    BY <1>4, <1>6 DEF Cache!MakeRoot, GuardInv, QueueInv, NotedInv, Cache!Objects
  <2> QED BY <1>2, <1>5, <1>6, <2>1, <2>2 DEF Cache!MakeRoot, GuardInv, QueueInv
<1>7. CASE Cache!NoteRoot
  <2>1. step = 1 /\ disk' = disk /\ acted' = acted /\ swaps' = swaps
    BY <1>1, <1>7 DEF Cache!NoteRoot
  <2>2. swaps = 0 => disk["root"] = "own"
    BY <2>1 DEF GuardInv, NotedInv
  <2>3. CASE Cache!Safe("root")
    <3>1. snap' = [snap EXCEPT !["root"] = disk["root"]] /\ Cache!Pass
      BY <1>7, <2>3 DEF Cache!NoteRoot, Cache!Note
    <3>2. snap' \in [Cache!Paths -> Cache!Objects] /\ snap'["root"] = disk["root"]
      BY <1>4, <3>1 DEF GuardInv, QueueInv
    <3> QED BY <1>2, <1>5, <2>1, <2>2, <3>1, <3>2 DEF GuardInv, QueueInv
  <2>4. CASE ~Cache!Safe("root")
    <3>1. Cache!End("failed") /\ snap' = snap
      BY <1>7, <2>4 DEF Cache!NoteRoot
    <3>2. swaps # 0
      BY <2>2, <2>4 DEF Cache!Safe
    <3> QED BY <2>1, <3>1, <3>2, EndKeeps DEF Cache!End
  <2> QED BY <2>3, <2>4
<1>8. CASE Cache!VerifyRoot
  <2>1. step = 2 /\ disk' = disk /\ snap' = snap /\ acted' = acted /\ swaps' = swaps
    BY <1>1, <1>8 DEF Cache!VerifyRoot
  <2>2. swaps = 0 => snap["root"] = disk["root"]
    BY <2>1 DEF GuardInv, NotedInv
  <2>3. DOMAIN acted = {}
    BY DEF GuardInv, ActedInv
  <2>4. queue' = Tail(queue) /\ step' = 0
    BY <1>3, <1>8, <2>1 DEF Cache!VerifyRoot, Cache!Distrust, Cache!End
  <2> QED BY <2>1, <2>2, <2>3, <2>4, EndKeeps
<1> QED BY <1>6, <1>7, <1>8

(* An operation that ends with an error.                                   *)
LEMMA ErrorKeeps ==
  ASSUME GuardInv, Begun, UNCHANGED <<disk, snap, acted, swaps>>,
         NEW result \in {"untrusted", "raced", "missing", "failed"}, Cache!End(result)
  PROVE  GuardInv'
<1>1. Cache!Running /\ queue' = Tail(queue) /\ step' = 0 /\ ending' # "done"
  BY DEF Begun, Cache!End
<1>2. swaps = 0 => snap["root"] = disk["root"]
  BY DEF GuardInv, NotedInv
<1> QED BY <1>1, <1>2, EndKeeps

(* A mutation comes late enough for the command to trust its directory.    *)
LEMMA MutationTrusts ==
  ASSUME QueueInv, TrustInv, Begun, Cache!Call \in Mutations
  PROVE  /\ trusted /\ Cache!Call = Mutation(Cache!Current)
         /\ Cache!Current \in Guarded
<1>0. PICK o : o = Cache!Current
  OBVIOUS
<1>1. o \in Guarded /\ Shape(o) /\ step + 1 \in 1 .. Len(Cache!Program(o)) /\ step \in Nat
  BY <1>0, CurrentOperation DEF Begun, QueueInv
<1>2. Cache!Call = Cache!Program(o)[step + 1]
  BY <1>0 DEF Cache!Call
<1>3. step + 1 = MutationAt(o) /\ step >= 1
  BY <1>1, <1>2 DEF Shape
<1> QED BY <1>0, <1>1, <1>2, <1>3 DEF TrustInv, Shape

(* The first call of an operation looks at the root.                       *)
LEMMA FirstLooksAtRoot ==
  ASSUME QueueInv, Begun, Cache!Call # "root"
  PROVE  step # 0
<1>1. Shape(Cache!Current)
  BY CurrentOperation DEF Begun
<1> QED BY <1>1 DEF Shape, Cache!Call

(* A replacement is the only one.                                          *)
LEMMA SwapKeeps ==
  ASSUME GuardInv, Cache!GuardAssumption, MaxSwaps <= 1, NEW p \in Cache!Paths, Cache!Swap(p)
  PROVE  GuardInv'
<1>1. /\ swaps = 0 /\ swaps' = 1
      /\ UNCHANGED <<trusted, snap, queue, step, acted, ending>>
  BY DEF Cache!Swap, GuardInv, QueueInv, Cache!GuardAssumption
<1>2. disk' \in [Cache!Paths -> Cache!Objects]
  <2>1. PICK o \in {"foreign", "unsafe", "none"} :
          disk' = [q \in Cache!Paths |->
                     IF q = p THEN o
                     ELSE IF q \in Cache!Below(p) /\ disk[q] # "none"
                          THEN (IF o = "foreign" THEN "foreign" ELSE "none") ELSE disk[q]]
    BY DEF Cache!Swap
  <2>2. \A q \in Cache!Paths : disk[q] \in Cache!Objects
    BY DEF GuardInv, QueueInv
  <2>3. {"foreign", "unsafe", "none"} \subseteq Cache!Objects
    BY DEF Cache!Objects
  <2> QED BY <2>1, <2>2, <2>3
<1>3. PICK o : o = Cache!Current
  OBVIOUS
<1>4. /\ Cache!Current' = o /\ (Cache!Running' <=> Cache!Running) /\ (Begun' <=> Begun)
      /\ MutationAt(Cache!Current)' = MutationAt(o) /\ ActsOn(Cache!Current)' = ActsOn(o)
      /\ Len(Cache!Program(Cache!Current))' = Len(Cache!Program(o))
  BY <1>1, <1>3, SameOperation
<1>5. QueueInv'
  BY <1>1, <1>2, <1>3, <1>4 DEF GuardInv, QueueInv
<1>6. TrustInv' /\ NotedInv'
  BY <1>1, <1>4 DEF GuardInv, TrustInv, NotedInv
<1>7. ActedInv'
  <2>1. \A q : Told(o, q) => acted'[q] = snap'[q]
    BY <1>1 DEF Told
  <2>2. \A q : acted'[q] = snap'[q] => Told(Cache!Current, q)'
    BY DEF Told
  <2> QED BY <1>1, <1>3, <1>4, <2>1, <2>2 DEF GuardInv, ActedInv, Cache!DoneMeansInspected
<1> QED BY <1>5, <1>6, <1>7 DEF GuardInv

(* The calls of an operation after the preparation that look at something. *)
LEMMA LooksKeep ==
  ASSUME GuardInv, Begun,
         Cache!VerifyRoot \/ Cache!VerifyParent \/ Cache!VerifySource \/ Cache!VerifyGone \/ Cache!VerifyDest
  PROVE  GuardInv'
<1>0. Cache!Call # "root" => step # 0
  BY FirstLooksAtRoot DEF GuardInv
<1>1. CASE Cache!VerifyRoot
  <2>1. CASE trusted /\ Cache!Safe("root") /\ Cache!Same("root")
    BY <1>1, <2>1, LookKeeps DEF Cache!VerifyRoot, Cache!Trusting, Mutations
  <2>2. CASE ~(trusted /\ Cache!Safe("root") /\ Cache!Same("root"))
    <3>1. Cache!End("untrusted") /\ UNCHANGED <<disk, snap, acted, swaps>>
      BY <1>1, <2>2 DEF Cache!VerifyRoot, Cache!Distrust
    <3> QED BY <3>1, ErrorKeeps
  <2> QED BY <2>1, <2>2
<1>2. CASE Cache!VerifyParent
  <2>1. Cache!Call = "parent" /\ UNCHANGED <<disk, snap, acted, swaps, trusted>>
    BY <1>2 DEF Cache!VerifyParent, Cache!Trusting
  <2>2. CASE Cache!Safe("parent") /\ Cache!Same("parent")
    <3>1. Cache!Pass
      BY <1>2, <2>2 DEF Cache!VerifyParent
    <3> QED BY <1>0, <2>1, <2>2, <3>1, LookKeeps DEF Mutations
  <2>3. CASE ~(Cache!Safe("parent") /\ Cache!Same("parent"))
    <3>1. Cache!End("raced")
      BY <1>2, <2>3 DEF Cache!VerifyParent
    <3> QED BY <2>1, <3>1, ErrorKeeps
  <2> QED BY <2>2, <2>3
<1>3. CASE Cache!VerifySource
  <2>1. Cache!Call = "source" /\ UNCHANGED <<disk, snap, acted, swaps>>
    BY <1>3 DEF Cache!VerifySource
  <2>2. \/ Cache!End("missing") \/ Cache!End("untrusted")
        \/ Cache!Same("source") /\ Cache!Pass /\ trusted' = trusted
    BY <1>3 DEF Cache!VerifySource, Cache!Distrust, Cache!Trusting
  <2>3. CASE Cache!End("missing") \/ Cache!End("untrusted")
    BY <2>1, <2>3, ErrorKeeps
  <2>4. CASE Cache!Same("source") /\ Cache!Pass /\ trusted' = trusted
    BY <1>0, <2>1, <2>4, LookKeeps DEF Mutations
  <2> QED BY <2>2, <2>3, <2>4
<1>4. CASE Cache!VerifyGone
  <2>1. Cache!Call = "sourceGone" /\ UNCHANGED <<disk, snap, acted, swaps>>
    BY <1>4 DEF Cache!VerifyGone
  <2>2. \/ Cache!End("untrusted")
        \/ Cache!Pass /\ trusted' = trusted
    BY <1>4 DEF Cache!VerifyGone, Cache!Distrust, Cache!Trusting
  <2>3. CASE Cache!End("untrusted")
    BY <2>1, <2>3, ErrorKeeps
  <2>4. CASE Cache!Pass /\ trusted' = trusted
    BY <1>0, <2>1, <2>4, LookKeeps DEF Mutations, Cache!Paths
  <2> QED BY <2>2, <2>3, <2>4
<1>5. CASE Cache!VerifyDest
  <2>1. Cache!Call \in {"dest", "safeDest"} /\ UNCHANGED <<disk, snap, acted, swaps>>
    BY <1>5 DEF Cache!VerifyDest
  <2>2. \/ Cache!End("untrusted")
        \/ Cache!Pass /\ trusted' = trusted /\ (Cache!Call = "dest" => Cache!Same("dest"))
    BY <1>5 DEF Cache!VerifyDest, Cache!Distrust, Cache!Trusting
  <2>3. CASE Cache!End("untrusted")
    BY <2>1, <2>3, ErrorKeeps
  <2>4. CASE Cache!Pass /\ trusted' = trusted /\ (Cache!Call = "dest" => Cache!Same("dest"))
    BY <1>0, <2>1, <2>4, LookKeeps DEF Mutations, Cache!Paths
  <2> QED BY <2>2, <2>3, <2>4
<1> QED BY <1>1, <1>2, <1>3, <1>4, <1>5

(* The calls of an operation that take note of a path.                     *)
LEMMA NotesKeep ==
  ASSUME GuardInv, Begun, Cache!NoteParent \/ Cache!NoteSource
  PROVE  GuardInv'
<1>1. CASE Cache!NoteParent
  <2>1. Cache!Call = "noteParent" /\ UNCHANGED <<disk, acted, swaps>>
    BY <1>1 DEF Cache!NoteParent
  <2>2. \/ Cache!End("untrusted") /\ snap' = snap
        \/ Cache!Pass /\ trusted' = trusted /\ snap' = [snap EXCEPT !["parent"] = disk["parent"]]
    BY <1>1 DEF Cache!NoteParent, Cache!Distrust, Cache!Trusting, Cache!Note
  <2>3. CASE Cache!End("untrusted") /\ snap' = snap
    BY <2>1, <2>3, ErrorKeeps
  <2>4. CASE Cache!Pass /\ trusted' = trusted /\ snap' = [snap EXCEPT !["parent"] = disk["parent"]]
    BY <2>1, <2>4, NoteKeeps
  <2> QED BY <2>2, <2>3, <2>4
<1>2. CASE Cache!NoteSource
  <2>1. Cache!Call = "noteSource" /\ UNCHANGED <<disk, acted, swaps>>
    BY <1>2 DEF Cache!NoteSource
  <2>2. \/ (Cache!End("untrusted") \/ Cache!End("missing")) /\ snap' = snap
        \/ Cache!Pass /\ trusted' = trusted /\ snap' = [snap EXCEPT !["source"] = disk["source"]]
    BY <1>2 DEF Cache!NoteSource, Cache!Distrust, Cache!Trusting, Cache!Note
  <2>3. CASE (Cache!End("untrusted") \/ Cache!End("missing")) /\ snap' = snap
    BY <2>1, <2>3, ErrorKeeps
  <2>4. CASE Cache!Pass /\ trusted' = trusted /\ snap' = [snap EXCEPT !["source"] = disk["source"]]
    BY <2>1, <2>4, NoteKeeps
  <2> QED BY <2>2, <2>3, <2>4
<1> QED BY <1>1, <1>2

(* The mutations, and those that fail.                                     *)
LEMMA MutationsKeep ==
  ASSUME GuardInv, Begun, Cache!Create \/ Cache!Rename \/ Cache!Remove \/ Cache!ReadEntry
  PROVE  GuardInv'
<1>0. PICK o : o = Cache!Current
  OBVIOUS
<1>1. /\ disk \in [Cache!Paths -> Cache!Objects] /\ snap \in [Cache!Paths -> Cache!Objects]
      /\ Cache!Paths = {"root", "parent", "source", "dest"} /\ "own" \in Cache!Objects /\ "none" \in Cache!Objects
  BY DEF GuardInv, QueueInv, Cache!Paths, Cache!Objects
<1>2. Cache!Call \in Mutations => o \in Guarded /\ Cache!Call = Mutation(o)
  BY <1>0, MutationTrusts DEF GuardInv
<1>3. ASSUME Cache!FailMutation, swaps' = swaps PROVE GuardInv'
  <2>1. /\ UNCHANGED <<disk, snap, acted>>
        /\ Cache!End("untrusted") \/ Cache!End("raced") \/ Cache!End("failed")
    BY <1>3 DEF Cache!FailMutation, Cache!Distrust
  <2> QED BY <1>3, <2>1, ErrorKeeps
<1>4. CASE Cache!Create
  <2>1. o \in Made /\ Cache!Call \in Mutations
    BY <1>2, <1>4 DEF Cache!Create, Mutations, Mutation, Guarded
  <2>2. CASE Cache!Safe("root") /\ Cache!Safe("parent") /\ disk["dest"] = "none"
    <3>1. /\ acted' = [p \in {"root", "parent"} |-> disk[p]]
          /\ disk' = [disk EXCEPT !["dest"] = "own"] /\ snap' = [snap EXCEPT !["dest"] = "own"]
          /\ Cache!Pass /\ UNCHANGED <<swaps, trusted>>
      BY <1>4, <2>2 DEF Cache!Create, Cache!Acts, Cache!Trusting
    <3>2. ActsOn(o) = {"root", "parent"} /\ \A p \in ActsOn(o) : Location(o, p) = p
      BY <2>1 DEF ActsOn, Location, Made
    <3>3. /\ disk' \in [Cache!Paths -> Cache!Objects] /\ snap' \in [Cache!Paths -> Cache!Objects]
          /\ \A p \in {"root", "parent"} : disk'[p] = disk[p] /\ snap'[p] = snap[p]
      BY <1>1, <3>1
    <3> QED BY <1>0, <2>1, <3>1, <3>2, <3>3, MutationKeeps
  <2>3. CASE ~(Cache!Safe("root") /\ Cache!Safe("parent") /\ disk["dest"] = "none")
    BY <1>3, <1>4, <2>3 DEF Cache!Create
  <2> QED BY <2>2, <2>3
<1>5. CASE Cache!Rename
  <2>1. o = "rename" /\ Cache!Call \in Mutations
    BY <1>2, <1>5 DEF Cache!Rename, Mutations, Mutation, Guarded, Made
  <2>2. CASE disk["source"] # "none"
    <3>1. /\ acted' = [p \in {"root", "parent", "source"} |-> disk[p]]
          /\ disk' = [disk EXCEPT !["dest"] = disk["source"], !["source"] = "none"]
          /\ snap' = [snap EXCEPT !["dest"] = snap["source"]]
          /\ Cache!Pass /\ UNCHANGED <<swaps, trusted>>
      BY <1>5, <2>2 DEF Cache!Rename, Cache!Acts, Cache!Trusting
    <3>2. /\ ActsOn(o) = {"root", "parent", "source"} /\ Location(o, "root") = "root"
          /\ Location(o, "parent") = "parent" /\ Location(o, "source") = "dest"
      BY <2>1 DEF ActsOn, Location
    <3>3. /\ disk' \in [Cache!Paths -> Cache!Objects] /\ snap' \in [Cache!Paths -> Cache!Objects]
          /\ disk'["root"] = disk["root"] /\ disk'["parent"] = disk["parent"] /\ disk'["dest"] = disk["source"]
          /\ snap'["root"] = snap["root"] /\ snap'["parent"] = snap["parent"]
          /\ snap'["source"] = snap["source"] /\ snap'["dest"] = snap["source"]
      BY <1>1, <3>1
    <3> QED BY <1>0, <2>1, <3>1, <3>2, <3>3, MutationKeeps
  <2>3. CASE disk["source"] = "none"
    BY <1>3, <1>5, <2>3 DEF Cache!Rename
  <2> QED BY <2>2, <2>3
<1>6. CASE Cache!Remove
  <2>1. o = "remove" /\ Cache!Call \in Mutations
    BY <1>2, <1>6 DEF Cache!Remove, Mutations, Mutation, Guarded, Made
  <2>2. CASE disk["source"] # "none"
    <3>1. /\ acted' = [p \in {"root", "parent"} |-> disk[p]]
          /\ disk' = [disk EXCEPT !["source"] = "none"]
          /\ Cache!Pass /\ UNCHANGED <<snap, swaps, trusted>>
      BY <1>6, <2>2 DEF Cache!Remove, Cache!Acts, Cache!Trusting
    <3>2. ActsOn(o) = {"root", "parent"} /\ \A p \in ActsOn(o) : Location(o, p) = p
      BY <2>1 DEF ActsOn, Location
    <3>3. /\ disk' \in [Cache!Paths -> Cache!Objects]
          /\ \A p \in {"root", "parent"} : disk'[p] = disk[p]
      BY <1>1, <3>1
    <3> QED BY <1>0, <1>1, <2>1, <3>1, <3>2, <3>3, MutationKeeps
  <2>3. CASE disk["source"] = "none"
    BY <1>3, <1>6, <2>3 DEF Cache!Remove
  <2> QED BY <2>2, <2>3
<1>7. CASE Cache!ReadEntry
  <2>1. o = "read" /\ Cache!Call \in Mutations
    BY <1>2, <1>7 DEF Cache!ReadEntry, Mutations, Mutation, Guarded, Made
  <2>2. /\ acted' = [p \in {"root", "source"} |-> disk[p]]
        /\ Cache!Pass /\ UNCHANGED <<disk, snap, swaps, trusted>>
    BY <1>7 DEF Cache!ReadEntry, Cache!Acts, Cache!Trusting
  <2>3. ActsOn(o) = {"root", "source"} /\ \A p \in ActsOn(o) : Location(o, p) = p
    BY <2>1 DEF ActsOn, Location
  <2> QED BY <1>0, <1>1, <2>1, <2>2, <2>3, MutationKeeps
<1> QED BY <1>4, <1>5, <1>6, <1>7

(* Every step keeps the invariant.                                         *)
LEMMA GuardKeeps ==
  ASSUME Cache!GuardAssumption, MaxSwaps <= 1, GuardInv, [Cache!Next]_Cache!vars
  PROVE  GuardInv'
<1>1. CASE UNCHANGED Cache!vars
  <2>1. UNCHANGED <<disk, trusted, snap, queue, step, acted, ending, swaps>>
    BY <1>1 DEF Cache!vars
  <2>2. QueueInv' /\ TrustInv'
    BY <2>1 DEF GuardInv, QueueInv, TrustInv, Begun, Cache!Running, Cache!Current, Cache!Program
  <2>3. NotedInv'
    BY <2>1 DEF GuardInv, NotedInv, Begun, Cache!Running, Cache!Current, MutationAt, ActsOn, NoteAt
  <2>4. ActedInv'
    BY <2>1 DEF GuardInv, ActedInv, Begun, Told, Cache!Running, Cache!Current, MutationAt, ActsOn, Location, LookAt,
         Cache!DoneMeansInspected
  <2> QED BY <2>2, <2>3, <2>4 DEF GuardInv
<1>2. CASE Cache!Running /\ ~Begun
  <2>1. Cache!Current = "prepare"
    BY <1>2 DEF Begun
  <2>2. Cache!Call \in {"makeRoot", "noteRoot", "root"}
    <3>1. step \in Nat /\ step < 3
      BY <1>2, <2>1, Preparation DEF GuardInv, QueueInv
    <3>2. step = 0 \/ step = 1 \/ step = 2
      BY <3>1
    <3> QED BY <2>1, <3>2, Preparation DEF Cache!Call
  <2>3. CASE Cache!MakeRoot \/ Cache!NoteRoot \/ Cache!VerifyRoot
    BY <1>2, <2>1, <2>3, PrepareKeeps
  <2>4. CASE \E p \in Cache!Paths : Cache!Swap(p)
    BY <2>4, SwapKeeps
  <2>5. ~(Cache!NoteParent \/ Cache!VerifyParent \/ Cache!NoteSource \/ Cache!VerifySource \/ Cache!Create
          \/ Cache!Rename \/ Cache!Remove \/ Cache!ReadEntry \/ Cache!VerifyGone \/ Cache!VerifyDest)
    BY <2>2 DEF Cache!NoteParent, Cache!VerifyParent, Cache!NoteSource, Cache!VerifySource, Cache!Create,
         Cache!Rename, Cache!Remove, Cache!ReadEntry, Cache!VerifyGone, Cache!VerifyDest
  <2> QED BY <1>1, <2>3, <2>4, <2>5 DEF Cache!Next
<1>3. CASE Begun
  <2>1. Cache!Call \notin {"makeRoot", "noteRoot"}
    <3>1. Shape(Cache!Current) /\ step + 1 \in 1 .. Len(Cache!Program(Cache!Current))
      BY <1>3, CurrentOperation DEF GuardInv, Begun
    <3> QED BY <3>1 DEF Shape, Cache!Call
  <2>2. ~(Cache!MakeRoot \/ Cache!NoteRoot)
    BY <2>1 DEF Cache!MakeRoot, Cache!NoteRoot
  <2>3. CASE \E p \in Cache!Paths : Cache!Swap(p)
    BY <2>3, SwapKeeps
  <2> QED BY <1>1, <1>3, <2>2, <2>3, LooksKeep, NotesKeep, MutationsKeep DEF Cache!Next
<1>4. CASE ~Cache!Running
  <2>1. CASE \E p \in Cache!Paths : Cache!Swap(p)
    BY <2>1, SwapKeeps
  <2> QED BY <1>1, <1>4, <2>1 DEF Cache!Next, Cache!VerifyRoot, Cache!MakeRoot, Cache!NoteRoot, Cache!NoteParent,
        Cache!VerifyParent, Cache!NoteSource, Cache!VerifySource, Cache!Create, Cache!Rename, Cache!Remove,
        Cache!ReadEntry, Cache!VerifyGone, Cache!VerifyDest
<1> QED BY <1>2, <1>3, <1>4 DEF Begun

(* A command begins with the preparation.                                  *)
LEMMA GuardBegins ==
  ASSUME Cache!GuardAssumption, Cache!Init
  PROVE  GuardInv
<1>1. /\ queue \in Seq({"prepare"} \cup Guarded) /\ \A i \in 1 .. Len(queue) : queue[i] = "prepare" => i = 1
      /\ queue # <<>> => queue[1] = "prepare"
  BY LenProperties, EmptySeq DEF Cache!GuardAssumption, Cache!Init, Guarded, Made
<1>2. Cache!Running => Cache!Current = "prepare"
  BY <1>1, HeadTailProperties DEF Cache!Running, Cache!Current
<1>3. disk \in [Cache!Paths -> Cache!Objects] /\ snap \in [Cache!Paths -> Cache!Objects]
      /\ disk["root"] \in {"own", "none"}
  BY DEF Cache!Init, Cache!Paths, Cache!Objects
<1>4. step = 0 /\ swaps = 0 /\ DOMAIN acted = {} /\ ending = "none"
  BY DEF Cache!Init
<1>5. QueueInv
  <2>1. Len(queue) \in Nat /\ 0 \in Nat /\ \A i \in 2 .. Len(queue) : i \in 1 .. Len(queue) /\ i # 1
    BY <1>1, LenProperties
  <2> QED BY <1>1, <1>2, <1>3, <1>4, <2>1, Preparation DEF QueueInv
<1>6. TrustInv /\ NotedInv /\ ActedInv
  BY <1>2, <1>3, <1>4 DEF TrustInv, NotedInv, ActedInv, Begun, Cache!DoneMeansInspected
<1> QED BY <1>5, <1>6 DEF GuardInv

(* If at most one thing is replaced from outside, an operation on the      *)
(* cache that reports success acted on what the command had inspected.     *)
THEOREM OneSwapIsSeen ==
  ASSUME Cache!GuardAssumption, MaxSwaps <= 1
  PROVE  Cache!Spec => []Cache!DoneMeansInspected
<1>1. Cache!Init => GuardInv
  BY GuardBegins
<1>2. GuardInv /\ [Cache!Next]_Cache!vars => GuardInv'
  BY GuardKeeps
<1>3. GuardInv => Cache!DoneMeansInspected
  BY DEF GuardInv, ActedInv
<1> QED BY <1>1, <1>2, <1>3, PTL DEF Cache!Spec

(* How far a step moves in the queue, whatever is replaced around it.      *)
LEMMA StepMoves ==
  ASSUME QueueInv, [Cache!Next]_Cache!vars
  PROVE  \/ UNCHANGED <<queue, step>> /\ trusted' = trusted /\ acted' = acted
         \/ /\ Cache!Running /\ queue' = Tail(queue) /\ step' = 0
            /\ acted' # acted => Cache!Call \in Mutations
         \/ /\ Cache!Running /\ queue' = queue /\ step' = step + 1 /\ trusted' = trusted
            /\ step + 1 # Len(Cache!Program(Cache!Current))
            /\ Cache!Call = "root" => trusted
            /\ acted' # acted => Cache!Call \in Mutations
<1> USE DEF Cache!Pass, Cache!End, Cache!Distrust, Cache!Trusting
<1>1. CASE Cache!VerifyRoot
  BY <1>1 DEF Cache!VerifyRoot
<1>2. CASE Cache!MakeRoot
  BY <1>2 DEF Cache!MakeRoot
<1>3. CASE Cache!NoteRoot
  BY <1>3 DEF Cache!NoteRoot, Cache!Note
<1>4. CASE Cache!NoteParent
  BY <1>4 DEF Cache!NoteParent, Cache!Note
<1>5. CASE Cache!VerifyParent
  BY <1>5 DEF Cache!VerifyParent
<1>6. CASE Cache!NoteSource
  BY <1>6 DEF Cache!NoteSource, Cache!Note
<1>7. CASE Cache!VerifySource
  BY <1>7 DEF Cache!VerifySource
<1>8. CASE Cache!Create
  BY <1>8 DEF Cache!Create, Cache!FailMutation, Mutations
<1>9. CASE Cache!Rename
  BY <1>9 DEF Cache!Rename, Cache!FailMutation, Mutations
<1>10. CASE Cache!Remove
  BY <1>10 DEF Cache!Remove, Cache!FailMutation, Mutations
<1>11. CASE Cache!ReadEntry
  BY <1>11 DEF Cache!ReadEntry, Mutations
<1>12. CASE Cache!VerifyGone
  BY <1>12 DEF Cache!VerifyGone
<1>13. CASE Cache!VerifyDest
  BY <1>13 DEF Cache!VerifyDest
<1>14. CASE \E p \in Cache!Paths : Cache!Swap(p)
  BY <1>14 DEF Cache!Swap
<1>15. CASE UNCHANGED Cache!vars
  BY <1>15 DEF Cache!vars
<1> QED BY <1>1, <1>2, <1>3, <1>4, <1>5, <1>6, <1>7, <1>8, <1>9, <1>10, <1>11, <1>12, <1>13, <1>14, <1>15
        DEF Cache!Next

(* An operation is beyond its first call only if the command trusts.       *)
LEMMA PlaceKeeps ==
  ASSUME QueueInv, TrustInv, [Cache!Next]_Cache!vars
  PROVE  TrustInv'
<1>1. CASE UNCHANGED <<queue, step>> /\ trusted' = trusted
  BY <1>1 DEF TrustInv, Begun, Cache!Running, Cache!Current
<1>2. CASE step' = 0
  BY <1>2 DEF TrustInv
<1>3. CASE /\ Cache!Running /\ queue' = queue /\ step' = step + 1 /\ trusted' = trusted
           /\ Cache!Call = "root" => trusted
  <2>1. Begun' <=> Begun
    BY <1>3 DEF Begun, Cache!Running, Cache!Current
  <2>2. Begun /\ step = 0 => trusted
    BY <1>3, FirstLooksAtRoot
  <2>3. step # 0 => step >= 1
    BY DEF QueueInv
  <2> QED BY <1>3, <2>1, <2>2, <2>3 DEF TrustInv
<1> QED BY <1>1, <1>2, <1>3, StepMoves

(* What is there and what was noted stay well-typed.                       *)
LEMMA DiskKeeps ==
  ASSUME QueueInv, [Cache!Next]_Cache!vars
  PROVE  /\ swaps' \in Nat
         /\ disk' \in [Cache!Paths -> Cache!Objects] /\ snap' \in [Cache!Paths -> Cache!Objects]
<1> DEFINE Known == [Cache!Paths -> Cache!Objects]
<1>1. /\ disk \in Known /\ snap \in Known /\ swaps \in Nat
      /\ Cache!Paths = {"root", "parent", "source", "dest"}
      /\ Cache!Objects = {"own", "foreign", "unsafe", "none"}
  BY DEF QueueInv, Cache!Paths, Cache!Objects
<1>2. \A p \in Cache!Paths : Cache!Note(p) => snap' \in Known
  BY <1>1 DEF Cache!Note
<1>3. CASE UNCHANGED <<disk, snap, swaps>>
  BY <1>1, <1>3
<1>4. CASE Cache!MakeRoot
  BY <1>1, <1>4 DEF Cache!MakeRoot
<1>5. CASE Cache!NoteRoot \/ Cache!NoteParent \/ Cache!NoteSource
  BY <1>1, <1>2, <1>5 DEF Cache!NoteRoot, Cache!NoteParent, Cache!NoteSource
<1>6. CASE Cache!Create
  BY <1>1, <1>6 DEF Cache!Create, Cache!FailMutation
<1>7. CASE Cache!Rename
  BY <1>1, <1>7 DEF Cache!Rename, Cache!FailMutation
<1>8. CASE Cache!Remove
  BY <1>1, <1>8 DEF Cache!Remove, Cache!FailMutation
<1>9. ASSUME NEW p \in Cache!Paths, Cache!Swap(p)
      PROVE  swaps' \in Nat /\ disk' \in Known /\ snap' \in Known
  <2>1. PICK o \in {"foreign", "unsafe", "none"} :
          disk' = [q \in Cache!Paths |->
                     IF q = p THEN o
                     ELSE IF q \in Cache!Below(p) /\ disk[q] # "none"
                          THEN (IF o = "foreign" THEN "foreign" ELSE "none") ELSE disk[q]]
    BY <1>9 DEF Cache!Swap
  <2>2. disk' \in Known
    BY <1>1, <2>1
  <2> QED BY <1>1, <1>9, <2>2 DEF Cache!Swap
<1> QED
  BY <1>3, <1>4, <1>5, <1>6, <1>7, <1>8, <1>9
  DEF Cache!Next, Cache!vars, Cache!VerifyRoot, Cache!VerifyParent, Cache!VerifySource, Cache!VerifyGone,
      Cache!VerifyDest, Cache!ReadEntry

(* The queue gets shorter and an operation goes on to its next call.       *)
LEMMA QueueKeeps ==
  ASSUME QueueInv, [Cache!Next]_Cache!vars
  PROVE  QueueInv'
<1>1. CASE UNCHANGED <<queue, step>>
  BY <1>1, DiskKeeps DEF QueueInv, Cache!Running, Cache!Current, Cache!Program
<1>2. CASE Cache!Running /\ queue' = Tail(queue) /\ step' = 0
  <2>1. /\ queue' \in Seq({"prepare"} \cup Guarded)
        /\ \A i \in 1 .. Len(queue') : queue'[i] # "prepare"
        /\ Cache!Running' => Cache!Current' \in Guarded
    BY <1>2, NextOperation
  <2>2. PICK o : o = Cache!Current'
    OBVIOUS
  <2>3. Cache!Running' => Len(Cache!Program(o)) \in Nat /\ 0 < Len(Cache!Program(o))
    BY <2>1, <2>2, ShapeOfAll DEF Shape
  <2>4. Len(Cache!Program(Cache!Current))' = Len(Cache!Program(o))
    BY <2>2 DEF Cache!Program
  <2> QED BY <1>2, <2>1, <2>3, <2>4, DiskKeeps DEF QueueInv
<1>3. CASE /\ Cache!Running /\ queue' = queue /\ step' = step + 1
           /\ step + 1 # Len(Cache!Program(Cache!Current))
  <2>1. /\ step + 1 \in 1 .. Len(Cache!Program(Cache!Current)) /\ step \in Nat
        /\ Len(Cache!Program(Cache!Current)) \in Nat
    BY <1>3, CurrentOperation DEF QueueInv
  <2>2. step + 1 < Len(Cache!Program(Cache!Current)) /\ step + 1 \in Nat
    BY <1>3, <2>1
  <2>3. Cache!Current' = Cache!Current /\ Len(Cache!Program(Cache!Current))' = Len(Cache!Program(Cache!Current))
    BY <1>3 DEF Cache!Current, Cache!Program
  <2> QED BY <1>3, <2>2, <2>3, DiskKeeps DEF QueueInv
<1> QED BY <1>1, <1>2, <1>3, StepMoves

(* Once the command has distrusted its cache directory it mutates nothing  *)
(* in it, however often things are replaced: every operation looks at the  *)
(* root, and with it at the trust, before it does anything.                *)
THEOREM DistrustCorrect ==
  ASSUME Cache!GuardAssumption
  PROVE  Cache!Spec => Cache!NoMutationAfterDistrust
<1>1. Cache!Init => QueueInv /\ TrustInv
  BY GuardBegins DEF GuardInv
<1>2. QueueInv /\ TrustInv /\ [Cache!Next]_Cache!vars => (QueueInv /\ TrustInv)'
  BY QueueKeeps, PlaceKeeps
<1>3. QueueInv /\ TrustInv /\ [Cache!Next]_Cache!vars => [acted' # acted => trusted]_Cache!vars
  <2> SUFFICES ASSUME QueueInv, TrustInv, [Cache!Next]_Cache!vars, acted' # acted PROVE trusted
    OBVIOUS
  <2>1. Cache!Running /\ Cache!Call \in Mutations
    BY StepMoves
  <2>2. CASE Begun
    BY <2>1, <2>2, MutationTrusts
  <2>3. CASE ~Begun
    <3>1. step \in Nat /\ step < 3 /\ Cache!Current = "prepare"
      BY <2>1, <2>3, Preparation DEF QueueInv, Begun
    <3>2. step = 0 \/ step = 1 \/ step = 2
      BY <3>1
    <3> QED BY <2>1, <3>1, <3>2, Preparation DEF Cache!Call, Mutations
  <2> QED BY <2>2, <2>3
<1> QED BY <1>1, <1>2, <1>3, PTL DEF Cache!Spec, Cache!NoMutationAfterDistrust
-----------------------------------------------------------------------------
(* The order of releases.  The value of a number is read digit by digit,   *)
(* so the rule of induction and recursion over numbers come first.         *)

(* The order of the natural numbers, as a set of pairs.                    *)
Less == OpToRel(<, Nat)

(* The order has a smallest element in every set of numbers that is not    *)
(* empty: the rule of induction is drawn from it.                          *)
LEMMA LessIs == Less = {ss \in Nat \X Nat : ss[1] < ss[2]} /\ IsWellFoundedOn(Less, Nat)
BY NatLessThanWellFounded DEF OpToRel, Less

(* A set of numbers that is not empty has a least one.                     *)
LEMMA NatMin == ASSUME NEW T \in SUBSET Nat, T # {} PROVE \E m \in T : \A n \in T : m <= n
<1>2. \E x \in T : \A y \in T : ~ (<<y, x>> \in Less)
  BY LessIs, WFMin
<1>3. ASSUME NEW x \in Nat, NEW y \in Nat, <<y, x>> \notin Less PROVE x <= y
  <2> <<y, x>> \in Nat \X Nat /\ <<y, x>>[1] = y /\ <<y, x>>[2] = x OBVIOUS
  <2> QED BY <1>3, LessIs
<1> QED BY <1>2, <1>3

(* Induction: what holds of 0 and goes from n to n + 1 holds of all.       *)
LEMMA NatInd == ASSUME NEW S, 0 \in S, \A n \in Nat : n \in S => n + 1 \in S PROVE Nat \subseteq S
<1> SUFFICES ASSUME Nat \ S # {} PROVE FALSE OBVIOUS
<1>1. PICK m \in Nat \ S : \A n \in Nat \ S : m <= n
  BY NatMin
<1>2. m # 0 /\ m - 1 \in Nat /\ m - 1 < m OBVIOUS
<1>3. m - 1 \in S BY <1>1, <1>2
<1> QED BY <1>2, <1>3

(* A function by recursion over the numbers up to n.                       *)
Recurs(f, n, A, base, h) ==
  f \in [0 .. n -> A] /\ f[0] = base /\ \A k \in 1 .. n : f[k] = h[<<f[k - 1], k>>]

(* There is such a function.                                               *)
LEMMA RecursionExists ==
  ASSUME NEW n \in Nat, NEW A, NEW base \in A, NEW h \in [A \X (1 .. n) -> A]
  PROVE  \E f : Recurs(f, n, A, base, h)
<1> DEFINE S == {m \in Nat : m <= n => \E f \in [0 .. m -> A] :
                               f[0] = base /\ \A k \in 1 .. m : f[k] = h[<<f[k - 1], k>>]}
<1>1. 0 \in S
  <2> DEFINE f == [k \in 0 .. 0 |-> base]
  <2>1. f \in [0 .. 0 -> A] /\ f[0] = base /\ 1 .. 0 = {} OBVIOUS
  <2> HIDE DEF f
  <2> QED BY <2>1
<1>2. ASSUME NEW m \in Nat, m \in S PROVE m + 1 \in S
  <2> SUFFICES ASSUME m + 1 <= n
      PROVE  \E f \in [0 .. m + 1 -> A] : f[0] = base /\ \A k \in 1 .. m + 1 : f[k] = h[<<f[k - 1], k>>]
    OBVIOUS
  <2>1. PICK f \in [0 .. m -> A] : f[0] = base /\ \A k \in 1 .. m : f[k] = h[<<f[k - 1], k>>]
    BY <1>2
  <2> DEFINE g == [k \in 0 .. m + 1 |-> IF k = m + 1 THEN h[<<f[m], m + 1>>] ELSE f[k]]
  <2>2. h[<<f[m], m + 1>>] \in A
    <3>1. f[m] \in A /\ m + 1 \in 1 .. n BY <2>1
    <3> QED BY <3>1
  <2>3. g \in [0 .. m + 1 -> A] /\ \A k \in 0 .. m : g[k] = f[k] BY <2>2
  <2>4. g[m + 1] = h[<<g[m], m + 1>>]
    <3>1. m + 1 \in 0 .. m + 1 /\ m \in 0 .. m OBVIOUS
    <3>2. g[m + 1] = h[<<f[m], m + 1>>] BY <3>1
    <3> HIDE DEF g
    <3> QED BY <2>3, <3>1, <3>2
  <2>5. g[0] = base BY <2>1, <2>3
  <2> HIDE DEF g
  <2>6. ASSUME NEW k \in 1 .. m + 1 PROVE g[k] = h[<<g[k - 1], k>>]
    <3>1. CASE k = m + 1 
      <4>1. k - 1 = m BY <3>1
      <4> QED BY <2>4, <3>1, <4>1
    <3>2. CASE k # m + 1
      <4>1. k \in 1 .. m /\ k \in 0 .. m /\ k - 1 \in 0 .. m BY <3>2
      <4> QED BY <2>1, <2>3, <4>1
    <3> QED BY <3>1, <3>2
  <2> QED BY <2>3, <2>5, <2>6
<1> HIDE DEF S
<1>3. n \in S BY <1>1, <1>2, NatInd
<1> QED BY <1>3 DEF S, Recurs

(* One more digit.                                                         *)
LEMMA OneMoreDigit ==
  ASSUME NEW x \in Nat, NEW d \in 0 .. 9
  PROVE  /\ 10 * x + d \in Nat
         /\ x > 0 => 10 * x + d > 0
         /\ \A y \in Nat, e \in 0 .. 9 : x < y => 10 * x + d < 10 * y + e
  OBVIOUS

(* The number that the first k digits are.                                 *)
Reads(f, digits) ==
  /\ f \in [0 .. Len(digits) -> Nat] /\ f[0] = 0
  /\ \A k \in 1 .. Len(digits) : f[k] = 10 * f[k - 1] + digits[k]

(* The value of a numeral is read digit by digit.                          *)
LEMMA ValueIsRead ==
  ASSUME NEW digits \in Seq(0 .. 9)
  PROVE  \E f : Reads(f, digits) /\ Release!Value(digits) = f[Len(digits)]
<1> DEFINE n == Len(digits)
           Eq(f) == f = [k \in 0 .. n |-> IF k = 0 THEN 0 ELSE 10 * f[k - 1] + digits[k]]
           h == [x \in Nat \X (1 .. n) |-> 10 * x[1] + digits[x[2]]]
<1>1. n \in Nat /\ \A k \in 1 .. n : digits[k] \in 0 .. 9 OBVIOUS
<1>2. Release!Value(digits) = (CHOOSE f : Eq(f))[n] BY DEF Release!Value
<1> HIDE DEF n
<1>3. h \in [Nat \X (1 .. n) -> Nat]
  <2>1. \A x \in Nat, k \in 1 .. n : 10 * x + digits[k] \in Nat
    <3> TAKE x \in Nat, k \in 1 .. n
    <3>1. digits[k] \in 0 .. 9 BY <1>1
    <3> QED BY <3>1, OneMoreDigit
  <2> QED BY <2>1
<1>4. ASSUME NEW x \in Nat, NEW k \in 1 .. n PROVE h[<<x, k>>] = 10 * x + digits[k] OBVIOUS
<1> HIDE DEF h
<1>5. PICK f \in [0 .. n -> Nat] : f[0] = 0 /\ \A k \in 1 .. n : f[k] = h[<<f[k - 1], k>>]
  <2>1. n \in Nat /\ 0 \in Nat BY <1>1
  <2>2. \E f : Recurs(f, n, Nat, 0, h)
    BY <1>3, <2>1, RecursionExists
  <2> QED BY <2>2 DEF Recurs
<1>6. \A k \in 1 .. n : f[k] = 10 * f[k - 1] + digits[k]
  <2> TAKE k \in 1 .. n
  <2>1. f[k - 1] \in Nat BY <1>1, <1>5
  <2> QED BY <1>4, <1>5, <2>1
<1>7. Eq(f) BY <1>1, <1>5, <1>6
<1> DEFINE F == CHOOSE g : Eq(g)
<1>8. Eq(F) BY <1>7
<1> HIDE DEF F
<1>9. F[0] = 0 /\ \A k \in 1 .. n : F[k] = 10 * F[k - 1] + digits[k]
  <2> 0 \in 0 .. n /\ \A k \in 1 .. n : k \in 0 .. n /\ k # 0 BY <1>1
  <2> QED BY <1>8
<1> DEFINE J == {k \in Nat : k <= n => F[k] \in Nat}
<1>10. 0 \in J BY <1>9
<1>11. ASSUME NEW k \in Nat, k \in J PROVE k + 1 \in J
  <2> SUFFICES ASSUME k + 1 <= n PROVE F[k + 1] \in Nat OBVIOUS
  <2>1. F[k] \in Nat /\ digits[k + 1] \in 0 .. 9 BY <1>1, <1>11
  <2>2. k + 1 \in 1 .. n /\ (k + 1) - 1 = k BY <1>1
  <2>3. F[k + 1] = 10 * F[k] + digits[k + 1] BY <1>9, <2>2
  <2> QED BY <2>1, <2>3, OneMoreDigit
<1> HIDE DEF J
<1>12. Nat \subseteq J BY <1>10, <1>11, NatInd
<1>13. \A k \in 0 .. n : F[k] \in Nat BY <1>1, <1>12 DEF J
<1>14. F \in [0 .. n -> Nat] BY <1>8, <1>13
<1>15. Reads(F, digits) BY <1>9, <1>14 DEF Reads, n
<1> QED BY <1>2, <1>15 DEF F, n

(* Once the front of one numeral is smaller than that of another, and as   *)
(* many digits are left of both, the whole is smaller.                     *)
LEMMA SmallerStays ==
  ASSUME NEW a \in Seq(0 .. 9), NEW b \in Seq(0 .. 9), NEW f, NEW g, Reads(f, a), Reads(g, b),
         NEW i \in 0 .. Len(a), NEW j \in 0 .. Len(b), Len(a) - i = Len(b) - j, f[i] < g[j]
  PROVE  f[Len(a)] < g[Len(b)]
<1> DEFINE m == Len(a)
           n == Len(b)
           J == {k \in Nat : k <= m - i => f[i + k] < g[j + k]}
<1>1. m \in Nat /\ n \in Nat /\ m - i \in Nat /\ m - i = n - j /\ i \in Nat /\ j \in Nat OBVIOUS
<1>2. 0 \in J OBVIOUS
<1>3. ASSUME NEW k \in Nat, k \in J PROVE k + 1 \in J
  <2> SUFFICES ASSUME k + 1 <= m - i PROVE f[i + (k + 1)] < g[j + (k + 1)] OBVIOUS
  <2>1. f[i + k] < g[j + k] BY <1>1, <1>3
  <2>2. i + (k + 1) \in 1 .. m /\ j + (k + 1) \in 1 .. n /\ i + k \in 0 .. m /\ j + k \in 0 .. n BY <1>1
  <2>3. f[i + k] \in Nat /\ g[j + k] \in Nat BY <2>2 DEF Reads
  <2>4. a[i + (k + 1)] \in 0 .. 9 /\ b[j + (k + 1)] \in 0 .. 9 BY <2>2
  <2>5. (i + (k + 1)) - 1 = i + k /\ (j + (k + 1)) - 1 = j + k BY <1>1
  <2>6. f[i + (k + 1)] = 10 * f[i + k] + a[i + (k + 1)] BY <2>2, <2>5 DEF Reads
  <2>7. g[j + (k + 1)] = 10 * g[j + k] + b[j + (k + 1)] BY <2>2, <2>5 DEF Reads
  <2> QED BY <2>1, <2>3, <2>4, <2>6, <2>7, OneMoreDigit
<1> HIDE DEF J
<1>4. m - i \in J BY <1>1, <1>2, <1>3, NatInd
<1>5. f[i + (m - i)] < g[j + (m - i)]
  <2>1. m - i <= m - i BY <1>1
  <2> QED BY <1>4, <2>1 DEF J
<1> HIDE DEF m, n
<1>6. i + (m - i) = m /\ j + (m - i) = n BY <1>1
<1> QED BY <1>5, <1>6 DEF m, n

(* The front of a numeral of more than one digit is a positive number.     *)
LEMMA FrontIsPositive ==
  ASSUME NEW b \in Seq(0 .. 9), NEW g, Reads(g, b), Len(b) > 0, b[1] # 0, NEW j \in 1 .. Len(b)
  PROVE  g[j] > 0
<1> DEFINE n == Len(b)
           J == {k \in Nat : k + 1 <= n => g[k + 1] > 0}
<1>1. n \in Nat /\ \A k \in 1 .. n : b[k] \in 0 .. 9 OBVIOUS
<1>2. 0 \in J
  <2>1. 1 \in 1 .. n /\ b[1] \in 1 .. 9 /\ 1 - 1 = 0 /\ 0 + 1 = 1 BY <1>1
  <2>2. g[1] = 10 * g[0] + b[1] /\ g[0] = 0 BY <2>1 DEF Reads
  <2>3. g[1] > 0 BY <2>1, <2>2
  <2> QED BY <2>1, <2>3
<1>3. ASSUME NEW k \in Nat, k \in J PROVE k + 1 \in J
  <2> SUFFICES ASSUME (k + 1) + 1 <= n PROVE g[(k + 1) + 1] > 0 OBVIOUS
  <2>1. g[k + 1] > 0 BY <1>1, <1>3
  <2>2. (k + 1) + 1 \in 1 .. n /\ ((k + 1) + 1) - 1 = k + 1 /\ k + 1 \in 0 .. n BY <1>1
  <2>3. g[k + 1] \in Nat BY <2>2 DEF Reads
  <2>4. g[(k + 1) + 1] = 10 * g[k + 1] + b[(k + 1) + 1] BY <2>2 DEF Reads
  <2>5. b[(k + 1) + 1] \in 0 .. 9 BY <1>1, <2>2
  <2> HIDE DEF n
  <2> QED BY <2>1, <2>3, <2>4, <2>5, OneMoreDigit
<1>4. j - 1 \in Nat /\ (j - 1) + 1 = j /\ j <= n BY <1>1
<1> HIDE DEF J
<1>5. j - 1 \in J BY <1>2, <1>3, <1>4, NatInd
<1> QED BY <1>4, <1>5 DEF J

(* Equal digits make equal numbers.                                        *)
LEMMA SameFront ==
  ASSUME NEW a \in Seq(0 .. 9), NEW b \in Seq(0 .. 9), NEW f, NEW g, Reads(f, a), Reads(g, b),
         NEW i \in Nat, i <= Len(a), i <= Len(b), \A k \in 1 .. i : a[k] = b[k]
  PROVE  f[i] = g[i]
<1> DEFINE J == {k \in Nat : k <= i => f[k] = g[k]}
<1>1. 0 \in J BY DEF Reads
<1>2. ASSUME NEW k \in Nat, k \in J PROVE k + 1 \in J
  <2> SUFFICES ASSUME k + 1 <= i PROVE f[k + 1] = g[k + 1] OBVIOUS
  <2>1. f[k] = g[k] BY <1>2
  <2>2. k + 1 \in 1 .. Len(a) /\ k + 1 \in 1 .. Len(b) /\ (k + 1) - 1 = k /\ k + 1 \in 1 .. i OBVIOUS
  <2> QED BY <2>1, <2>2 DEF Reads
<1> HIDE DEF J
<1>3. i \in J BY <1>1, <1>2, NatInd
<1> QED BY <1>3 DEF J

(* Longer numerals are greater numbers, and equally long ones are ordered  *)
(* by their first difference.                                              *)
LEMMA NumbersCompare ==
  ASSUME NEW a \in Release!Numerals, NEW b \in Release!Numerals
  PROVE  /\ Release!Value(a) \in Nat /\ Release!Value(b) \in Nat
         /\ Release!CompareNumeric(a, b) = Release!Sign(Release!Value(a) - Release!Value(b))
<1>1. a \in Seq(0 .. 9) /\ b \in Seq(0 .. 9) /\ Len(a) > 0 /\ Len(b) > 0
      /\ (a[1] = 0 => Len(a) = 1) /\ (b[1] = 0 => Len(b) = 1)
  BY DEF Release!Numerals
<1>2. PICK f : Reads(f, a) /\ Release!Value(a) = f[Len(a)] BY <1>1, ValueIsRead
<1>3. PICK g : Reads(g, b) /\ Release!Value(b) = g[Len(b)] BY <1>1, ValueIsRead
<1>4. Release!Value(a) \in Nat /\ Release!Value(b) \in Nat
  <2>1. Len(a) \in 0 .. Len(a) /\ Len(b) \in 0 .. Len(b) BY <1>1
  <2> QED BY <1>2, <1>3, <2>1 DEF Reads
<1>5. CASE Len(a) < Len(b)
  <2>1. Len(b) - Len(a) \in 1 .. Len(b) /\ b[1] # 0 BY <1>1, <1>5
  <2>2. g[Len(b) - Len(a)] > 0 BY <1>1, <1>3, <2>1, FrontIsPositive
  <2>3. f[0] = 0 BY <1>2 DEF Reads
  <2>4. 0 \in 0 .. Len(a) /\ Len(b) - Len(a) \in 0 .. Len(b) /\ Len(a) - 0 = Len(b) - (Len(b) - Len(a))
    BY <1>1, <1>5
  <2>5. f[0] < g[Len(b) - Len(a)] BY <2>2, <2>3
  <2>6. f[Len(a)] < g[Len(b)] BY <1>1, <1>2, <1>3, <2>4, <2>5, SmallerStays
  <2>7. Release!Value(a) - Release!Value(b) < 0 /\ Len(a) - Len(b) < 0 BY <1>1, <1>2, <1>3, <1>4, <1>5, <2>6
  <2> QED BY <1>4, <1>5, <2>7 DEF Release!CompareNumeric, Release!Sign
<1>6. CASE Len(b) < Len(a)
  <2>1. Len(a) - Len(b) \in 1 .. Len(a) /\ a[1] # 0 BY <1>1, <1>6
  <2>2. f[Len(a) - Len(b)] > 0 BY <1>1, <1>2, <2>1, FrontIsPositive
  <2>3. g[0] = 0 BY <1>3 DEF Reads
  <2>4. 0 \in 0 .. Len(b) /\ Len(a) - Len(b) \in 0 .. Len(a) /\ Len(b) - 0 = Len(a) - (Len(a) - Len(b))
    BY <1>1, <1>6
  <2>5. g[0] < f[Len(a) - Len(b)] BY <2>2, <2>3
  <2>6. g[Len(b)] < f[Len(a)] BY <1>1, <1>2, <1>3, <2>4, <2>5, SmallerStays
  <2>7. Release!Value(a) - Release!Value(b) > 0 /\ Len(a) - Len(b) > 0 BY <1>1, <1>2, <1>3, <1>4, <1>6, <2>6
  <2> QED BY <1>4, <1>6, <2>7 DEF Release!CompareNumeric, Release!Sign
<1>7. CASE Len(a) = Len(b)
  <2> DEFINE n == Len(a)
             differ == {i \in DOMAIN a \cap DOMAIN b : a[i] # b[i]}
             first == CHOOSE j \in differ : \A k \in differ : j <= k
  <2>1. n \in Nat /\ DOMAIN a = 1 .. n /\ DOMAIN b = 1 .. n /\ Len(b) = n BY <1>1, <1>7
  <2>2. Release!CompareNumeric(a, b) = IF differ = {} THEN Release!Sign(0) ELSE Release!Sign(a[first] - b[first])
    BY <1>7, <2>1 DEF Release!CompareNumeric, Release!TextOrder
  <2>3. CASE differ = {}
    <3>1. \A k \in 1 .. n : a[k] = b[k] BY <2>1, <2>3
    <3>2. f[n] = g[n] BY <1>1, <1>2, <1>3, <2>1, <3>1, SameFront
    <3>3. Release!Value(a) - Release!Value(b) = 0 BY <1>2, <1>3, <1>4, <2>1, <3>2
    <3> QED BY <1>4, <2>2, <2>3, <3>3
  <2>4. CASE differ # {}
    <3>1. differ \in SUBSET Nat BY <2>1
    <3>2. first \in differ /\ \A k \in differ : first <= k
      <4> HIDE DEF differ
      <4>1. \E j \in differ : \A k \in differ : j <= k BY <2>4, <3>1, NatMin
      <4> QED BY <4>1
    <3> HIDE DEF first
    <3>3. first \in 1 .. n /\ a[first] # b[first] BY <2>1, <3>2
    <3>4. first - 1 \in Nat /\ first - 1 <= n /\ \A k \in 1 .. first - 1 : a[k] = b[k]
      BY <2>1, <3>2, <3>3
    <3>5. f[first - 1] = g[first - 1] BY <1>1, <1>2, <1>3, <2>1, <3>4, SameFront
    <3>6. f[first - 1] \in Nat /\ f[first] \in Nat /\ g[first] \in Nat
      <4> first - 1 \in 0 .. n /\ first \in 0 .. n BY <3>3, <2>1
      <4> QED BY <1>2, <1>3, <2>1 DEF Reads
    <3>7. f[first] = 10 * f[first - 1] + a[first] /\ g[first] = 10 * f[first - 1] + b[first]
      BY <1>2, <1>3, <2>1, <3>3, <3>5 DEF Reads
    <3>8. a[first] \in 0 .. 9 /\ b[first] \in 0 .. 9 BY <1>1, <2>1, <3>3
    <3>9. first \in 0 .. Len(a) /\ first \in 0 .. Len(b) /\ Len(a) - first = Len(b) - first BY <2>1, <3>3
    <3>10. CASE a[first] < b[first]
      <4>1. f[first] < g[first] BY <3>6, <3>7, <3>8, <3>10
      <4>2. f[Len(a)] < g[Len(b)] BY <1>1, <1>2, <1>3, <3>9, <4>1, SmallerStays
      <4>3. Release!Value(a) - Release!Value(b) < 0 /\ a[first] - b[first] < 0
        <5>1. Release!Value(a) < Release!Value(b) BY <1>2, <1>3, <4>2
        <5> QED BY <1>4, <3>8, <3>10, <5>1
      <4> HIDE DEF differ
      <4>4. Release!CompareNumeric(a, b) = Release!Sign(a[first] - b[first]) BY <2>2, <2>4 DEF first
      <4> QED BY <1>4, <3>8, <4>3, <4>4 DEF Release!Sign
    <3>11. CASE b[first] < a[first]
      <4>1. g[first] < f[first] BY <3>6, <3>7, <3>8, <3>11
      <4>2. g[Len(b)] < f[Len(a)] BY <1>1, <1>2, <1>3, <3>9, <4>1, SmallerStays
      <4>3. Release!Value(a) - Release!Value(b) > 0 /\ a[first] - b[first] > 0
        <5>1. Release!Value(b) < Release!Value(a) BY <1>2, <1>3, <4>2
        <5> QED BY <1>4, <3>8, <3>11, <5>1
      <4> HIDE DEF differ
      <4>4. Release!CompareNumeric(a, b) = Release!Sign(a[first] - b[first]) BY <2>2, <2>4 DEF first
      <4> QED BY <1>4, <3>8, <4>3, <4>4 DEF Release!Sign
    <3> QED BY <3>3, <3>8, <3>10, <3>11
  <2> HIDE DEF differ, first
  <2> QED BY <2>3, <2>4, <1>4
<1>8. Len(a) \in Nat /\ Len(b) \in Nat BY <1>1
<1> QED BY <1>5, <1>6, <1>7, <1>8

(* How two places of versions compare.                                     *)
Compared(x, y) == IF Release!Below(x, y) THEN -1 ELSE IF x = y THEN 0 ELSE 1

(* Places are ordered.                                                     *)
LEMMA PlacesAreOrdered ==
  ASSUME NEW x \in Nat \X Nat, NEW y \in Nat \X Nat
  PROVE  /\ Release!Below(x, y) \/ x = y \/ Release!Below(y, x)
         /\ ~(Release!Below(x, y) /\ Release!Below(y, x)) /\ ~Release!Below(x, x)
         /\ \A z \in Nat \X Nat : Release!Below(x, y) /\ Release!Below(y, z) => Release!Below(x, z)
<1>1. x[1] \in Nat /\ x[2] \in Nat /\ y[1] \in Nat /\ y[2] \in Nat /\ x = <<x[1], x[2]>> /\ y = <<y[1], y[2]>>
  OBVIOUS
<1>2. \A z \in Nat \X Nat : z[1] \in Nat /\ z[2] \in Nat OBVIOUS
<1> QED BY <1>1, <1>2 DEF Release!Below

(* Pairs of one rank compare as their numbers do.                          *)
LEMMA NumbersDecide ==
  ASSUME NEW r \in Nat, NEW m \in Nat, NEW n \in Nat
  PROVE  /\ <<r, m>> \in Nat \X Nat
         /\ Release!Sign(m - n) = Compared(<<r, m>>, <<r, n>>)
         /\ Compared(<<r, m>>, <<r, n>>) = 0 => <<r, m>> = <<r, n>>
<1>1. Release!Below(<<r, m>>, <<r, n>>) <=> m < n BY DEF Release!Below
<1>2. <<r, m>> = <<r, n>> <=> m = n OBVIOUS
<1> QED BY <1>1, <1>2 DEF Compared, Release!Sign

(* The place an identifier takes.                                          *)
Entry(x) == IF Release!Numeric(x) THEN <<1, Release!Value(x.digits)>> ELSE <<2, x.word>>

(* An identifier is a number or a word.                                    *)
LEMMA EntryIs ==
  ASSUME NEW x \in Release!Identifiers
  PROVE  /\ Entry(x) \in Nat \X Nat /\ Entry(x)[1] \in {1, 2}
         /\ Release!Numeric(x) => x.digits \in Release!Numerals
         /\ ~Release!Numeric(x) => x.word \in Nat
<1>1. CASE x \in [digits : Release!Numerals]
  <2>1. x.digits \in Release!Numerals /\ Release!Numeric(x) BY <1>1 DEF Release!Numeric
  <2>2. Release!Value(x.digits) \in Nat BY <2>1, NumbersCompare
  <2> QED BY <2>1, <2>2 DEF Entry
<1>2. CASE x \in [word : Nat]
  <2>1. x.word \in Nat /\ ~Release!Numeric(x) BY <1>2 DEF Release!Numeric
  <2> QED BY <2>1 DEF Entry
<1> QED BY <1>1, <1>2 DEF Release!Identifiers

(* Identifiers compare as the places they take.                            *)
LEMMA IdentifiersCompare ==
  ASSUME NEW x \in Release!Identifiers, NEW y \in Release!Identifiers
  PROVE  Release!CompareIdentifier(x, y) = Compared(Entry(x), Entry(y))
<1>1. CASE Release!Numeric(x) /\ Release!Numeric(y)
  <2>1. x.digits \in Release!Numerals /\ y.digits \in Release!Numerals BY <1>1, EntryIs
  <2>2. Release!CompareIdentifier(x, y) = Release!CompareNumeric(x.digits, y.digits)
    BY <1>1 DEF Release!CompareIdentifier
  <2>3. Entry(x) = <<1, Release!Value(x.digits)>> /\ Entry(y) = <<1, Release!Value(y.digits)>> BY <1>1 DEF Entry
  <2> QED BY <2>1, <2>2, <2>3, NumbersCompare, NumbersDecide
<1>2. CASE Release!Numeric(x) /\ ~Release!Numeric(y)
  <2>1. Entry(x)[1] = 1 /\ Entry(y)[1] = 2 BY <1>2 DEF Entry
  <2> QED BY <1>2, <2>1 DEF Compared, Release!Below, Release!CompareIdentifier
<1>3. CASE ~Release!Numeric(x) /\ Release!Numeric(y)
  <2>1. Entry(x)[1] = 2 /\ Entry(y)[1] = 1 BY <1>3 DEF Entry
  <2>2. ~Release!Below(Entry(x), Entry(y)) /\ Entry(x) # Entry(y) BY <2>1 DEF Release!Below
  <2> QED BY <1>3, <2>2 DEF Compared, Release!CompareIdentifier
<1>4. CASE ~Release!Numeric(x) /\ ~Release!Numeric(y)
  <2>1. x.word \in Nat /\ y.word \in Nat BY <1>4, EntryIs
  <2>2. Entry(x) = <<2, x.word>> /\ Entry(y) = <<2, y.word>> BY <1>4 DEF Entry
  <2>3. Release!CompareIdentifier(x, y) = Release!Sign(x.word - y.word) BY <1>4 DEF Release!CompareIdentifier
  <2> QED BY <2>1, <2>2, <2>3, NumbersDecide
<1> QED BY <1>1, <1>2, <1>3, <1>4

(* The first result that is not zero decides.                              *)
LEMMA FirstDecides ==
  ASSUME NEW n \in Nat, NEW r, DOMAIN r = 1 .. n, NEW otherwise
  PROVE  \/ /\ \A i \in 1 .. n : r[i] = 0
            /\ Release!FirstDifference(r, otherwise) = otherwise
         \/ \E i \in 1 .. n : /\ r[i] # 0 /\ \A j \in 1 .. i - 1 : r[j] = 0
                             /\ Release!FirstDifference(r, otherwise) = r[i]
<1> DEFINE some == {i \in 1 .. n : r[i] # 0}
           first == CHOOSE i \in some : \A j \in some : i <= j
<1>1. Release!FirstDifference(r, otherwise) = IF some = {} THEN otherwise ELSE r[first]
  BY DEF Release!FirstDifference
<1>2. CASE some = {} BY <1>1, <1>2
<1>3. CASE some # {}
  <2>1. some \in SUBSET Nat OBVIOUS
  <2> HIDE DEF some
  <2>2. \E i \in some : \A j \in some : i <= j BY <1>3, <2>1, NatMin
  <2>3. first \in some /\ \A j \in some : first <= j BY <2>2
  <2> HIDE DEF first
  <2> USE DEF some
  <2>4. first \in 1 .. n /\ r[first] # 0 BY <2>3
  <2>5. \A j \in 1 .. first - 1 : r[j] = 0
    <3> SUFFICES ASSUME NEW j \in 1 .. first - 1, r[j] # 0 PROVE FALSE OBVIOUS
    <3>1. j \in some /\ j < first BY <2>4
    <3>2. first <= j BY <2>3, <3>1
    <3> QED BY <2>4, <3>1, <3>2
  <2> HIDE DEF some
  <2> QED BY <1>1, <1>3, <2>4, <2>5
<1> HIDE DEF some, first
<1> QED BY <1>2, <1>3

(* The parts of a version.                                                 *)
LEMMA SemverIs ==
  ASSUME NEW v \in Release!Semver
  PROVE  /\ \A i \in 1 .. 3 : v.core[i] \in Release!Numerals
         /\ v.pre # None => /\ v.pre \in Seq(Release!Identifiers) /\ Len(v.pre) \in Nat \ {0}
                            /\ DOMAIN v.pre = 1 .. Len(v.pre)
                            /\ \A i \in 1 .. Len(v.pre) : v.pre[i] \in Release!Identifiers
<1>1. v.core \in Seq(Release!Numerals) /\ Len(v.core) = 3 /\ v.pre \in {None} \cup (Seq(Release!Identifiers) \ {<<>>})
  BY DEF Release!Semver
<1>2. \A i \in 1 .. 3 : v.core[i] \in Release!Numerals BY <1>1
<1>3. ASSUME v.pre # None
      PROVE  /\ v.pre \in Seq(Release!Identifiers) /\ Len(v.pre) \in Nat \ {0}
             /\ DOMAIN v.pre = 1 .. Len(v.pre)
             /\ \A i \in 1 .. Len(v.pre) : v.pre[i] \in Release!Identifiers
  <2> DEFINE p == v.pre
             S == Release!Identifiers
  <2>1. p \in Seq(S) /\ p # <<>> BY <1>1, <1>3
  <2> HIDE DEF p, S
  <2>2. Len(p) \in Nat \ {0} /\ DOMAIN p = 1 .. Len(p) /\ \A i \in 1 .. Len(p) : p[i] \in S BY <2>1
  <2> QED BY <2>1, <2>2 DEF p, S
<1> QED BY <1>2, <1>3

(* What is at each place of a version.                                     *)
LEMMA PlaceIs ==
  ASSUME NEW v \in Release!Semver, NEW i \in Nat \ {0}
  PROVE  /\ Release!Place(v, i) \in Nat \X Nat
         /\ i <= 3 => Release!Place(v, i) = <<1, Release!Value(v.core[i])>>
         /\ i > 3 /\ v.pre = None => Release!Place(v, i) = <<3, 0>>
         /\ i > 3 /\ v.pre # None /\ i - 3 > Len(v.pre) => Release!Place(v, i) = <<0, 0>>
         /\ i > 3 /\ v.pre # None /\ i - 3 <= Len(v.pre) =>
              /\ v.pre[i - 3] \in Release!Identifiers /\ Release!Place(v, i) = Entry(v.pre[i - 3])
              /\ Release!Place(v, i)[1] \in {1, 2}
<1>1. CASE i <= 3
  <2>1. i \in 1 .. 3 BY <1>1
  <2>2. v.core[i] \in Release!Numerals BY <2>1, SemverIs
  <2>3. Release!Value(v.core[i]) \in Nat BY <2>2, NumbersCompare
  <2>4. Release!Place(v, i) = <<1, Release!Value(v.core[i])>> BY <1>1 DEF Release!Place
  <2> QED BY <1>1, <2>3, <2>4
<1>2. CASE i > 3 /\ v.pre = None
  <2>1. Release!Place(v, i) = <<3, 0>> BY <1>2 DEF Release!Place
  <2> QED BY <1>2, <2>1
<1>3. CASE i > 3 /\ v.pre # None
  <2>1. DOMAIN v.pre = 1 .. Len(v.pre) /\ Len(v.pre) \in Nat /\ \A k \in 1 .. Len(v.pre) : v.pre[k] \in Release!Identifiers
    BY <1>3, SemverIs
  <2>2. CASE i - 3 > Len(v.pre)
    <3>1. i - 3 \notin DOMAIN v.pre BY <2>1, <2>2
    <3>2. Release!Place(v, i) = <<0, 0>> BY <1>3, <3>1 DEF Release!Place
    <3> QED BY <1>3, <2>1, <2>2, <3>2
  <2>3. CASE i - 3 <= Len(v.pre)
    <3>1. i - 3 \in 1 .. Len(v.pre) BY <1>3, <2>1, <2>3
    <3>2. v.pre[i - 3] \in Release!Identifiers BY <2>1, <3>1
    <3>3. Release!Place(v, i) = Entry(v.pre[i - 3]) BY <1>3, <2>1, <3>1 DEF Release!Place, Entry
    <3>4. Entry(v.pre[i - 3]) \in Nat \X Nat /\ Entry(v.pre[i - 3])[1] \in {1, 2} BY <3>2, EntryIs
    <3> QED BY <1>3, <2>1, <2>3, <3>2, <3>3, <3>4
  <2> QED BY <2>1, <2>2, <2>3
<1> QED BY <1>1, <1>2, <1>3

(* c is what the first different place says, or 0 when there is none.      *)
SamePlace(v, w, i) == Release!Place(v, i) = Release!Place(w, i)
Decides(v, w, c) ==
  \/ c = 0 /\ \A i \in Nat \ {0} : SamePlace(v, w, i)
  \/ \E i \in Nat \ {0} : /\ ~SamePlace(v, w, i) /\ \A j \in 1 .. i - 1 : SamePlace(v, w, j)
                        /\ c = Compared(Release!Place(v, i), Release!Place(w, i))

(* A place decides when the places before it are the same.                 *)
LEMMA ThisDecides ==
  ASSUME NEW v \in Release!Semver, NEW w \in Release!Semver, NEW i \in Nat \ {0},
         \A j \in 1 .. i - 1 : SamePlace(v, w, j), NEW c, c # 0,
         c = Compared(Release!Place(v, i), Release!Place(w, i))
  PROVE  Decides(v, w, c)
<1>1. ~SamePlace(v, w, i)
  <2>1. Release!Place(v, i) \in Nat \X Nat /\ Release!Place(w, i) \in Nat \X Nat BY PlaceIs
  <2> QED BY <2>1, PlacesAreOrdered DEF SamePlace, Compared
<1> QED BY <1>1 DEF Decides

(* The lists of identifiers decide when the numbers are the same.          *)
LEMMA PrereleasesCompare ==
  ASSUME NEW v \in Release!Semver, NEW w \in Release!Semver, \A j \in 1 .. 3 : SamePlace(v, w, j)
  PROVE  Decides(v, w, Release!ComparePrerelease(v.pre, w.pre))
<1> DEFINE a == v.pre
           b == w.pre
           c == Release!ComparePrerelease(a, b)
<1>1. CASE a = None /\ b = None
  <2>1. c = 0 BY <1>1 DEF Release!ComparePrerelease
  <2>2. \A i \in Nat \ {0} : i > 3 => SamePlace(v, w, i) BY <1>1, PlaceIs DEF SamePlace
  <2>3. \A i \in Nat \ {0} : i > 3 \/ i \in 1 .. 3 OBVIOUS
  <2> HIDE DEF c
  <2>4. Decides(v, w, c) BY <2>1, <2>2, <2>3 DEF Decides
  <2> QED BY <2>4 DEF c
<1>2. CASE a = None /\ b # None
  <2>1. c = 1 BY <1>2 DEF Release!ComparePrerelease
  <2>2. Len(b) \in Nat \ {0} BY <1>2, SemverIs
  <2>3. Release!Place(v, 4) = <<3, 0>> BY <1>2, PlaceIs
  <2>4. Release!Place(w, 4)[1] \in {1, 2}
    <3>1. 4 \in Nat \ {0} /\ 4 > 3 /\ 4 - 3 <= Len(b) BY <2>2
    <3> QED BY <1>2, <3>1, PlaceIs
  <2>5. Compared(Release!Place(v, 4), Release!Place(w, 4)) = 1
    BY <2>3, <2>4 DEF Compared, Release!Below
  <2>6. 4 \in Nat \ {0} /\ 4 - 1 = 3 OBVIOUS
  <2> HIDE DEF c
  <2>7. Decides(v, w, c) BY <2>1, <2>5, <2>6, ThisDecides
  <2> QED BY <2>7 DEF c
<1>3. CASE a # None /\ b = None
  <2>1. c = -1 BY <1>3 DEF Release!ComparePrerelease
  <2>2. Len(a) \in Nat \ {0} BY <1>3, SemverIs
  <2>3. Release!Place(w, 4) = <<3, 0>> BY <1>3, PlaceIs
  <2>4. Release!Place(v, 4)[1] \in {1, 2}
    <3>1. 4 \in Nat \ {0} /\ 4 > 3 /\ 4 - 3 <= Len(a) BY <2>2
    <3> QED BY <1>3, <3>1, PlaceIs
  <2>5. Compared(Release!Place(v, 4), Release!Place(w, 4)) = -1
    BY <2>3, <2>4 DEF Compared, Release!Below
  <2>6. 4 \in Nat \ {0} /\ 4 - 1 = 3 OBVIOUS
  <2> HIDE DEF c
  <2>7. Decides(v, w, c) BY <2>1, <2>5, <2>6, ThisDecides
  <2> QED BY <2>7 DEF c
<1>4. CASE a # None /\ b # None
  <2> DEFINE n == IF Len(a) < Len(b) THEN Len(a) ELSE Len(b)
             r == [i \in 1 .. n |-> Release!CompareIdentifier(a[i], b[i])]
             rest == Release!Sign(Len(a) - Len(b))
  <2>1. c = Release!FirstDifference(r, rest) BY <1>4 DEF Release!ComparePrerelease
  <2>2. Len(a) \in Nat \ {0} /\ Len(b) \in Nat \ {0} BY <1>4, SemverIs
  <2>3. n \in Nat /\ n <= Len(a) /\ n <= Len(b) /\ (n = Len(a) \/ n = Len(b)) BY <2>2
  <2>4. ASSUME NEW i \in 1 .. n
        PROVE  r[i] = Compared(Release!Place(v, i + 3), Release!Place(w, i + 3))
    <3> HIDE DEF n
    <3>1. i + 3 \in Nat \ {0} /\ i + 3 > 3 /\ (i + 3) - 3 = i /\ i <= Len(a) /\ i <= Len(b) BY <2>2, <2>3
    <3>2. a[i] \in Release!Identifiers /\ Release!Place(v, i + 3) = Entry(a[i]) BY <1>4, <3>1, PlaceIs
    <3>3. b[i] \in Release!Identifiers /\ Release!Place(w, i + 3) = Entry(b[i]) BY <1>4, <3>1, PlaceIs
    <3> QED BY <3>2, <3>3, IdentifiersCompare
  <2>5. DOMAIN r = 1 .. n OBVIOUS
  <2> HIDE DEF n, r, c
  <2>6. ASSUME NEW i \in 1 .. n, r[i] = 0 PROVE SamePlace(v, w, i + 3)
    BY <2>4, <2>6 DEF Compared, SamePlace
  <2>7. ASSUME NEW m \in Nat, m <= n, \A i \in 1 .. m : r[i] = 0
        PROVE  \A j \in 1 .. m + 3 : SamePlace(v, w, j)
    <3> TAKE j \in 1 .. m + 3
    <3>1. CASE j <= 3 BY <3>1
    <3>2. CASE j > 3
      <4>1. j - 3 \in 1 .. m /\ j - 3 \in 1 .. n /\ (j - 3) + 3 = j BY <2>3, <2>7, <3>2
      <4>2. r[j - 3] = 0 BY <2>7, <4>1
      <4>3. SamePlace(v, w, (j - 3) + 3) BY <2>6, <4>1, <4>2
      <4> QED BY <4>1, <4>3
    <3> QED BY <3>1, <3>2
  <2>8. CASE \E i \in 1 .. n : /\ r[i] # 0 /\ \A j \in 1 .. i - 1 : r[j] = 0
                             /\ Release!FirstDifference(r, rest) = r[i]
    <3>1. PICK i \in 1 .. n : /\ r[i] # 0 /\ \A j \in 1 .. i - 1 : r[j] = 0
                             /\ Release!FirstDifference(r, rest) = r[i]
      BY <2>8
    <3>2. i - 1 \in Nat /\ i - 1 <= n /\ (i - 1) + 3 = (i + 3) - 1 /\ i + 3 \in Nat \ {0} BY <2>3
    <3>3. \A j \in 1 .. (i + 3) - 1 : SamePlace(v, w, j) BY <2>7, <3>1, <3>2
    <3>4. c = Compared(Release!Place(v, i + 3), Release!Place(w, i + 3)) /\ c # 0 BY <2>1, <2>4, <3>1
    <3>5. Decides(v, w, c) BY <3>2, <3>3, <3>4, ThisDecides
    <3> QED BY <3>5 DEF c
  <2>9. CASE /\ \A i \in 1 .. n : r[i] = 0
             /\ Release!FirstDifference(r, rest) = rest
    <3>1. \A j \in 1 .. n + 3 : SamePlace(v, w, j) BY <2>3, <2>7, <2>9
    <3>2. n + 4 \in Nat \ {0} /\ (n + 4) - 1 = n + 3 /\ n + 4 > 3 /\ (n + 4) - 3 = n + 1 BY <2>3
    <3>3. CASE Len(a) < Len(b)
      <4>1. n + 1 > Len(a) /\ n + 1 <= Len(b) BY <2>2, <2>3, <3>3 DEF n
      <4>2. Release!Place(v, n + 4) = <<0, 0>> BY <1>4, <3>2, <4>1, PlaceIs
      <4>3. Release!Place(w, n + 4)[1] \in {1, 2} BY <1>4, <3>2, <4>1, PlaceIs
      <4>4. Compared(Release!Place(v, n + 4), Release!Place(w, n + 4)) = -1
        BY <4>2, <4>3 DEF Compared, Release!Below
      <4>5. rest = -1
        <5>1. \A x, y \in Nat : x < y => Release!Sign(x - y) = -1 BY DEF Release!Sign
        <5> QED BY <2>2, <3>3, <5>1
      <4>6. c = -1 BY <2>1, <2>9, <4>5
      <4>7. Decides(v, w, c) BY <3>1, <3>2, <4>4, <4>6, ThisDecides
      <4> QED BY <4>7 DEF c
    <3>4. CASE Len(b) < Len(a)
      <4>1. n + 1 > Len(b) /\ n + 1 <= Len(a) BY <2>2, <2>3, <3>4 DEF n
      <4>2. Release!Place(w, n + 4) = <<0, 0>> BY <1>4, <3>2, <4>1, PlaceIs
      <4>3. Release!Place(v, n + 4)[1] \in {1, 2} BY <1>4, <3>2, <4>1, PlaceIs
      <4>4. Compared(Release!Place(v, n + 4), Release!Place(w, n + 4)) = 1
        BY <4>2, <4>3 DEF Compared, Release!Below
      <4>5. rest = 1
        <5>1. \A x, y \in Nat : y < x => Release!Sign(x - y) = 1 BY DEF Release!Sign
        <5> QED BY <2>2, <3>4, <5>1
      <4>6. c = 1 BY <2>1, <2>9, <4>5
      <4>7. Decides(v, w, c) BY <3>1, <3>2, <4>4, <4>6, ThisDecides
      <4> QED BY <4>7 DEF c
    <3>5. CASE Len(a) = Len(b)
      <4>1. c = 0 BY <2>1, <2>2, <2>9, <3>5 DEF Release!Sign
      <4>2. ASSUME NEW i \in Nat \ {0} PROVE SamePlace(v, w, i)
        <5>1. CASE i <= n + 3 BY <2>3, <3>1, <5>1
        <5>2. CASE i > n + 3
          <6>1. i > 3 /\ i - 3 > Len(a) /\ i - 3 > Len(b) BY <2>2, <2>3, <3>5, <5>2
          <6>2. Release!Place(v, i) = <<0, 0>> BY <1>4, <6>1, PlaceIs
          <6>3. Release!Place(w, i) = <<0, 0>> BY <1>4, <6>1, PlaceIs
          <6> QED BY <6>2, <6>3 DEF SamePlace
        <5> QED BY <2>3, <5>1, <5>2
      <4>3. Decides(v, w, c) BY <4>1, <4>2 DEF Decides
      <4> QED BY <4>3 DEF c
    <3> QED BY <2>2, <3>3, <3>4, <3>5
  <2>10. \/ /\ \A i \in 1 .. n : r[i] = 0
            /\ Release!FirstDifference(r, rest) = rest
         \/ \E i \in 1 .. n : /\ r[i] # 0 /\ \A j \in 1 .. i - 1 : r[j] = 0
                             /\ Release!FirstDifference(r, rest) = r[i]
    <3> HIDE DEF rest
    <3> QED BY <2>3, <2>5, FirstDecides
  <2> QED BY <2>8, <2>9, <2>10
<1> QED BY <1>1, <1>2, <1>3, <1>4

(* compareSemver returns what the first difference of the places says.     *)
LEMMA VersionsCompare ==
  ASSUME NEW v \in Release!Semver, NEW w \in Release!Semver
  PROVE  Decides(v, w, Release!CompareSemver(v, w))
<1> DEFINE r == [i \in 1 .. 3 |-> Release!CompareNumeric(v.core[i], w.core[i])]
           rest == Release!ComparePrerelease(v.pre, w.pre)
<1>1. Release!CompareSemver(v, w) = Release!FirstDifference(r, rest) BY DEF Release!CompareSemver
<1>2. ASSUME NEW i \in 1 .. 3
      PROVE  r[i] = Compared(Release!Place(v, i), Release!Place(w, i)) /\ (r[i] = 0 => SamePlace(v, w, i))
  <2>1. v.core[i] \in Release!Numerals /\ w.core[i] \in Release!Numerals BY SemverIs
  <2>2. i \in Nat \ {0} /\ i <= 3 OBVIOUS
  <2>3. /\ Release!Place(v, i) = <<1, Release!Value(v.core[i])>>
        /\ Release!Place(w, i) = <<1, Release!Value(w.core[i])>> BY <2>2, PlaceIs
  <2> QED BY <2>1, <2>3, NumbersCompare, NumbersDecide DEF SamePlace
<1>3. DOMAIN r = 1 .. 3 /\ 3 \in Nat OBVIOUS
<1> HIDE DEF r, rest
<1>4. \/ /\ \A i \in 1 .. 3 : r[i] = 0
         /\ Release!FirstDifference(r, rest) = rest
      \/ \E i \in 1 .. 3 : /\ r[i] # 0 /\ \A j \in 1 .. i - 1 : r[j] = 0
                          /\ Release!FirstDifference(r, rest) = r[i]
  <2> DEFINE n == 3
  <2>1. n \in Nat /\ DOMAIN r = 1 .. n BY <1>3
  <2> HIDE DEF n
  <2>2. \/ /\ \A i \in 1 .. n : r[i] = 0
           /\ Release!FirstDifference(r, rest) = rest
        \/ \E i \in 1 .. n : /\ r[i] # 0 /\ \A j \in 1 .. i - 1 : r[j] = 0
                            /\ Release!FirstDifference(r, rest) = r[i]
    BY <2>1, FirstDecides
  <2> QED BY <2>2 DEF n
<1>5. CASE \E i \in 1 .. 3 : /\ r[i] # 0 /\ \A j \in 1 .. i - 1 : r[j] = 0
                          /\ Release!FirstDifference(r, rest) = r[i]
  <2>1. PICK i \in 1 .. 3 : /\ r[i] # 0 /\ \A j \in 1 .. i - 1 : r[j] = 0
                          /\ Release!FirstDifference(r, rest) = r[i]
    BY <1>5
  <2>2. i \in Nat \ {0} /\ \A j \in 1 .. i - 1 : j \in 1 .. 3 OBVIOUS
  <2>3. \A j \in 1 .. i - 1 : SamePlace(v, w, j) BY <1>2, <2>1, <2>2
  <2>4. /\ Release!CompareSemver(v, w) = Compared(Release!Place(v, i), Release!Place(w, i))
        /\ Release!CompareSemver(v, w) # 0
    BY <1>1, <1>2, <2>1
  <2> QED BY <2>2, <2>3, <2>4, ThisDecides
<1>6. CASE /\ \A i \in 1 .. 3 : r[i] = 0
           /\ Release!FirstDifference(r, rest) = rest
  <2>1. \A i \in 1 .. 3 : SamePlace(v, w, i) BY <1>2, <1>6
  <2>2. Decides(v, w, rest) BY <2>1, PrereleasesCompare DEF rest
  <2> QED BY <1>1, <1>6, <2>2
<1> QED BY <1>4, <1>5, <1>6

(* Only the first difference decides.                                      *)
LEMMA OneDecides ==
  ASSUME NEW v, NEW w, NEW c, Decides(v, w, c), NEW i \in Nat \ {0},
         ~SamePlace(v, w, i), \A j \in 1 .. i - 1 : SamePlace(v, w, j)
  PROVE  c = Compared(Release!Place(v, i), Release!Place(w, i))
<1>1. PICK k \in Nat \ {0} : /\ ~SamePlace(v, w, k) /\ \A j \in 1 .. k - 1 : SamePlace(v, w, j)
                            /\ c = Compared(Release!Place(v, k), Release!Place(w, k))
  BY DEF Decides
<1>2. ~(k < i) 
  <2>1. k < i => k \in 1 .. i - 1 OBVIOUS
  <2> QED BY <1>1, <2>1
<1>3. ~(i < k) 
  <2>1. i < k => i \in 1 .. k - 1 OBVIOUS
  <2> QED BY <1>1, <2>1
<1>4. i = k BY <1>2, <1>3
<1> QED BY <1>1, <1>4

(* A version that is smaller is so by the end of its list, where it may be *)
(* the other that goes on.                                                 *)
LEMMA SmallerInTime ==
  ASSUME NEW v \in Release!Semver, NEW w \in Release!Semver, NEW i \in Nat \ {0},
         Release!Below(Release!Place(v, i), Release!Place(w, i)), \A j \in 1 .. i - 1 : SamePlace(v, w, j)
  PROVE  i \in Release!Places(v)
<1>1. CASE v.pre = None
  <2> SUFFICES ASSUME i > 4 PROVE FALSE
    BY <1>1 DEF Release!Places
  <2>1. Release!Place(v, 4) = <<3, 0>> /\ Release!Place(v, i) = <<3, 0>> BY <1>1, PlaceIs
  <2>2. Release!Place(w, 4) = <<3, 0>>
    <3>1. 4 \in 1 .. i - 1 OBVIOUS
    <3> QED BY <2>1, <3>1 DEF SamePlace
  <2>3. w.pre = None
    <3> SUFFICES ASSUME w.pre # None PROVE FALSE OBVIOUS
    <3>1. Len(w.pre) \in Nat \ {0} BY SemverIs
    <3>2. 4 \in Nat \ {0} /\ 4 > 3 /\ 4 - 3 <= Len(w.pre) BY <3>1
    <3>3. Release!Place(w, 4)[1] \in {1, 2} BY <3>2, PlaceIs
    <3> QED BY <2>2, <3>3
  <2>4. Release!Place(w, i) = <<3, 0>> BY <2>3, PlaceIs
  <2> QED BY <2>1, <2>4 DEF Release!Below
<1>2. CASE v.pre # None
  <2> DEFINE p == 4 + Len(v.pre)
  <2>1. Len(v.pre) \in Nat BY <1>2, SemverIs
  <2> SUFFICES ASSUME i > p PROVE FALSE
    BY <1>2, <2>1 DEF Release!Places
  <2>2. p \in Nat \ {0} /\ p > 3 /\ p - 3 > Len(v.pre) /\ i > 3 /\ i - 3 > Len(v.pre) /\ p \in 1 .. i - 1 BY <2>1
  <2> HIDE DEF p
  <2>3. Release!Place(v, p) = <<0, 0>> /\ Release!Place(v, i) = <<0, 0>> BY <1>2, <2>2, PlaceIs
  <2>4. Release!Place(w, p) = <<0, 0>> BY <2>2, <2>3 DEF SamePlace
  <2>5. w.pre # None
    <3>1. w.pre = None => Release!Place(w, p) = <<3, 0>> BY <2>2, PlaceIs
    <3> QED BY <2>4, <3>1
  <2>6. ~(p - 3 <= Len(w.pre))
    <3>1. p - 3 <= Len(w.pre) => Release!Place(w, p)[1] \in {1, 2} BY <2>2, <2>5, PlaceIs
    <3> QED BY <2>4, <3>1
  <2>7. i - 3 > Len(w.pre)
    <3>1. Len(w.pre) \in Nat BY <2>5, SemverIs
    <3> QED BY <2>2, <2>6, <3>1
  <2>8. Release!Place(w, i) = <<0, 0>> BY <2>2, <2>5, <2>7, PlaceIs
  <2> QED BY <2>3, <2>8 DEF Release!Below
<1> QED BY <1>1, <1>2

(* compareSemver is the order of the places.                               *)
LEMMA ComparesByPlaces ==
  ASSUME NEW v \in Release!Semver, NEW w \in Release!Semver
  PROVE  Release!CompareSemver(v, w) \in {-1, 0, 1} /\ (Release!CompareSemver(v, w) = -1 <=> Release!Precedes(v, w))
<1> DEFINE c == Release!CompareSemver(v, w)
<1>1. Decides(v, w, c) BY VersionsCompare
<1> HIDE DEF c
<1>2. c \in {-1, 0, 1} BY <1>1 DEF Decides, Compared
<1>3. ASSUME Release!Precedes(v, w) PROVE c = -1
  <2>1. PICK i \in Release!Places(v) : /\ Release!Below(Release!Place(v, i), Release!Place(w, i))
                                     /\ \A j \in 1 .. i - 1 : Release!Place(v, j) = Release!Place(w, j)
    BY <1>3 DEF Release!Precedes
  <2>2. i \in Nat \ {0}
    <3>1. v.pre # None => Len(v.pre) \in Nat BY SemverIs
    <3> QED BY <3>1 DEF Release!Places
  <2>3. ~SamePlace(v, w, i)
    <3>1. Release!Place(v, i) \in Nat \X Nat BY <2>2, PlaceIs
    <3> QED BY <2>1, <3>1, PlacesAreOrdered DEF SamePlace
  <2>4. \A j \in 1 .. i - 1 : SamePlace(v, w, j) BY <2>1 DEF SamePlace
  <2>5. c = Compared(Release!Place(v, i), Release!Place(w, i)) BY <1>1, <2>2, <2>3, <2>4, OneDecides
  <2> QED BY <2>1, <2>5 DEF Compared
<1>4. ASSUME c = -1 PROVE Release!Precedes(v, w)
  <2>1. PICK i \in Nat \ {0} : /\ ~SamePlace(v, w, i) /\ \A j \in 1 .. i - 1 : SamePlace(v, w, j)
                              /\ c = Compared(Release!Place(v, i), Release!Place(w, i))
    BY <1>1, <1>4 DEF Decides
  <2>2. Release!Below(Release!Place(v, i), Release!Place(w, i)) BY <1>4, <2>1 DEF Compared
  <2>3. i \in Release!Places(v) BY <2>1, <2>2, SmallerInTime
  <2>4. \A j \in 1 .. i - 1 : Release!Place(v, j) = Release!Place(w, j) BY <2>1 DEF SamePlace
  <2> QED BY <2>2, <2>3, <2>4 DEF Release!Precedes
<1> QED BY <1>2, <1>3, <1>4 DEF c

(* Turned around it says the contrary.                                     *)
LEMMA TurnedAround ==
  ASSUME NEW v \in Release!Semver, NEW w \in Release!Semver
  PROVE  Release!CompareSemver(v, w) = -Release!CompareSemver(w, v)
<1> DEFINE c == Release!CompareSemver(v, w)
           d == Release!CompareSemver(w, v)
<1>1. Decides(v, w, c) /\ Decides(w, v, d) BY VersionsCompare
<1> HIDE DEF c, d
<1>2. CASE \A i \in Nat \ {0} : SamePlace(v, w, i)
  <2>1. \A i \in Nat \ {0} : SamePlace(w, v, i) BY <1>2 DEF SamePlace
  <2> QED BY <1>1, <1>2, <2>1 DEF Decides, c, d
<1>3. CASE \E i \in Nat \ {0} : ~SamePlace(v, w, i) /\ \A j \in 1 .. i - 1 : SamePlace(v, w, j)
  <2>1. PICK i \in Nat \ {0} : ~SamePlace(v, w, i) /\ \A j \in 1 .. i - 1 : SamePlace(v, w, j)
    BY <1>3
  <2>2. ~SamePlace(w, v, i) /\ \A j \in 1 .. i - 1 : SamePlace(w, v, j) BY <2>1 DEF SamePlace
  <2>3. c = Compared(Release!Place(v, i), Release!Place(w, i)) BY <1>1, <2>1, OneDecides
  <2>4. d = Compared(Release!Place(w, i), Release!Place(v, i)) BY <1>1, <2>2, OneDecides
  <2>5. Release!Place(v, i) \in Nat \X Nat /\ Release!Place(w, i) \in Nat \X Nat BY PlaceIs
  <2>6. c = -d BY <2>1, <2>3, <2>4, <2>5, PlacesAreOrdered DEF Compared, SamePlace
  <2> QED BY <2>6 DEF c, d
<1> QED BY <1>1, <1>2, <1>3 DEF Decides

(* It does not contradict itself over three versions.                      *)
LEMMA OverThree ==
  ASSUME NEW u \in Release!Semver, NEW v \in Release!Semver, NEW w \in Release!Semver,
         Release!CompareSemver(u, v) < 0, Release!CompareSemver(v, w) < 0
  PROVE  Release!CompareSemver(u, w) < 0
<1> DEFINE c == Release!CompareSemver(u, v)
           d == Release!CompareSemver(v, w)
           e == Release!CompareSemver(u, w)
           U(i) == Release!Place(u, i)
           V(i) == Release!Place(v, i)
           W(i) == Release!Place(w, i)
<1>1. Decides(u, v, c) /\ Decides(v, w, d) /\ Decides(u, w, e) BY VersionsCompare
<1>2. c = -1 /\ d = -1 BY ComparesByPlaces
<1> HIDE DEF c, d, e
<1>3. PICK i \in Nat \ {0} : (\A j \in 1 .. i - 1 : SamePlace(u, v, j)) /\ Release!Below(U(i), V(i))
  BY <1>1, <1>2 DEF Decides, Compared
<1>4. PICK k \in Nat \ {0} : (\A j \in 1 .. k - 1 : SamePlace(v, w, j)) /\ Release!Below(V(k), W(k))
  BY <1>1, <1>2 DEF Decides, Compared
<1>5. \A j \in Nat \ {0} : U(j) \in Nat \X Nat /\ V(j) \in Nat \X Nat /\ W(j) \in Nat \X Nat BY PlaceIs
<1> HIDE DEF U, V, W
<1>6. \E m \in Nat \ {0} : (\A j \in 1 .. m - 1 : SamePlace(u, w, j)) /\ Release!Below(U(m), W(m))
  <2>1. CASE i < k
    <3>1. i \in 1 .. k - 1 /\ \A j \in 1 .. i - 1 : j \in 1 .. k - 1 BY <2>1
    <3>2. V(i) = W(i) /\ \A j \in 1 .. i - 1 : SamePlace(u, w, j) BY <1>3, <1>4, <3>1 DEF SamePlace, V, W
    <3> QED BY <1>3, <3>2
  <2>2. CASE k < i
    <3>1. k \in 1 .. i - 1 /\ \A j \in 1 .. k - 1 : j \in 1 .. i - 1 BY <2>2
    <3>2. U(k) = V(k) /\ \A j \in 1 .. k - 1 : SamePlace(u, w, j) BY <1>3, <1>4, <3>1 DEF SamePlace, U, V
    <3> QED BY <1>4, <3>2
  <2>3. CASE i = k
    <3>1. Release!Below(U(i), W(i)) BY <1>3, <1>4, <1>5, <2>3, PlacesAreOrdered
    <3>2. \A j \in 1 .. i - 1 : SamePlace(u, w, j) BY <1>3, <1>4, <2>3 DEF SamePlace
    <3> QED BY <3>1, <3>2
  <2> QED BY <2>1, <2>2, <2>3
<1>7. PICK m \in Nat \ {0} : (\A j \in 1 .. m - 1 : SamePlace(u, w, j)) /\ Release!Below(U(m), W(m)) BY <1>6
<1>8. ~SamePlace(u, w, m) BY <1>5, <1>7, PlacesAreOrdered DEF SamePlace, U, W
<1>9. e = Compared(U(m), W(m)) BY <1>1, <1>7, <1>8, OneDecides DEF U, W
<1>10. e = -1 BY <1>7, <1>9 DEF Compared
<1> QED BY <1>10 DEF e

(* What is decided fits the versions and the manifest.                     *)
ReleaseInv ==
  /\ versions[1] \in Release!Semver /\ versions[2] \in Release!Semver /\ versions[3] \in Release!Semver
  /\ manifest # None => manifest.version = versions[2]
  /\ manifest = None => offer = None
  /\ offer = "update" => Release!Believed(manifest) /\ Release!CompareSemver(manifest.version, versions[1]) > 0
  /\ offer = "current" => ~(Release!CompareSemver(manifest.version, versions[1]) > 0)

(* For all versions that parseSemver accepts: an installation is offered   *)
(* exactly the believed releases that are newer by the numbers they are    *)
(* made of, and the order behind it is one (compareSemver,                 *)
(* validateStableUpdateManifest).                                          *)
THEOREM ReleasesOrdered == Release!ReleaseAssumption /\ Release!Spec => []Release!OffersAreUpgrades
<1> SUFFICES ASSUME Release!ReleaseAssumption PROVE Release!Spec => []Release!OffersAreUpgrades
  OBVIOUS
<1>0. Versions \subseteq Release!Semver /\ None # "update" /\ None # "current"
  BY DEF Release!ReleaseAssumption
<1>1. Release!Init => ReleaseInv
  BY <1>0 DEF Release!Init, ReleaseInv
<1>2. ReleaseInv /\ [Release!Next]_Release!vars => ReleaseInv'
  <2> SUFFICES ASSUME ReleaseInv, [Release!Next]_Release!vars PROVE ReleaseInv'
    OBVIOUS
  <2>1. CASE Release!Receive
    BY <1>0, <2>1 DEF ReleaseInv, Release!Receive, Release!Manifests
  <2>2. CASE Release!Decide
    <3>1. manifest # None /\ UNCHANGED <<versions, manifest>> BY <2>2 DEF Release!Decide
    <3>2. /\ offer' = "update" => Release!Believed(manifest) /\ Release!CompareSemver(manifest.version, versions[1]) > 0
          /\ offer' = "current" => ~(Release!CompareSemver(manifest.version, versions[1]) > 0)
      BY <2>2 DEF Release!Decide
    <3> QED BY <3>1, <3>2 DEF ReleaseInv, Release!Believed
  <2>3. CASE UNCHANGED Release!vars
    BY <2>3 DEF ReleaseInv, Release!vars, Release!Believed
  <2> QED BY <2>1, <2>2, <2>3 DEF Release!Next, Release!Done
<1>3. ReleaseInv => Release!OffersAreUpgrades
  <2> SUFFICES ASSUME ReleaseInv PROVE Release!OffersAreUpgrades
    OBVIOUS
  <2>1. CASE manifest = None
    <3>1. offer # "update" /\ offer # "current" BY <1>0, <2>1 DEF ReleaseInv
    <3>2. Release!CompareSemver(versions[1], versions[2]) = -Release!CompareSemver(versions[2], versions[1])
      BY TurnedAround DEF ReleaseInv
    <3>3. Release!CompareSemver(versions[1], versions[2]) < 0 /\ Release!CompareSemver(versions[2], versions[3]) < 0
            => Release!CompareSemver(versions[1], versions[3]) < 0
      BY OverThree DEF ReleaseInv
    <3> QED BY <3>1, <3>2, <3>3 DEF Release!OffersAreUpgrades
  <2>2. CASE manifest # None
    <3> DEFINE c == Release!CompareSemver(versions[1], manifest.version)
               d == Release!CompareSemver(manifest.version, versions[1])
    <3>1. manifest.version \in Release!Semver /\ versions[1] \in Release!Semver BY <2>2 DEF ReleaseInv
    <3>2. c \in {-1, 0, 1} /\ (c = -1 <=> Release!Precedes(versions[1], manifest.version)) BY <3>1, ComparesByPlaces
    <3>3. d = -c /\ d \in {-1, 0, 1} BY <3>1, TurnedAround, ComparesByPlaces
    <3>4. d > 0 <=> c = -1
      <4> HIDE DEF c, d
      <4> QED BY <3>2, <3>3
    <3>5. (offer = "update" => d > 0 /\ Release!Believed(manifest)) /\ (offer = "current" => ~(d > 0))
      BY DEF ReleaseInv
    <3> HIDE DEF c, d
    <3> QED BY <2>2, <3>2, <3>4, <3>5 DEF Release!OffersAreUpgrades, Release!Believed, Release!StableCore
  <2> QED BY <2>1, <2>2
<1> QED BY <1>1, <1>2, <1>3, PTL DEF Release!Spec
-----------------------------------------------------------------------------
(* Where the page may go.                                                  *)

(* A path by its names.                                                    *)
LEMMA PathIs ==
  ASSUME NEW p \in Output!Paths
  PROVE  /\ Len(p) \in Nat /\ DOMAIN p = 1 .. Len(p)
         /\ \A i \in 1 .. Len(p) : p[i] \in DOMAIN Fold
BY LenProperties DEF Output!Paths

(* Paths with the same names are the same.                                 *)
LEMMA SamePath ==
  ASSUME NEW p \in Output!Paths, NEW q \in Output!Paths, Len(p) = Len(q),
         \A i \in 1 .. Len(p) : p[i] = q[i]
  PROVE  p = q
BY SeqEqual DEF Output!Paths

(* The empty path.                                                         *)
LEMMA RootIs ==
  /\ <<>> \in Output!Paths /\ Len(<<>>) = 0
  /\ \A p \in Output!Paths : Len(p) = 0 => p = <<>>
  /\ \A p \in Output!Paths : p # <<>> => Len(p) \in Nat \ {0}
BY EmptySeq DEF Output!Paths

(* The first names of a path.                                              *)
LEMMA PrefixIs ==
  ASSUME NEW p \in Output!Paths, NEW n \in 0 .. Len(p)
  PROVE  /\ SubSeq(p, 1, n) \in Output!Paths /\ Len(SubSeq(p, 1, n)) = n
         /\ \A i \in 1 .. n : SubSeq(p, 1, n)[i] = p[i]
<1>1. Len(p) \in Nat /\ \A i \in 1 .. Len(p) : p[i] \in DOMAIN Fold
  BY PathIs
<1>2. n \in Int /\ 1 \in Int /\ \A i \in 1 .. n : p[i] \in DOMAIN Fold
  BY <1>1
<1>3. /\ SubSeq(p, 1, n) \in Seq(DOMAIN Fold)
      /\ Len(SubSeq(p, 1, n)) = IF 1 <= n THEN n - 1 + 1 ELSE 0
      /\ \A i \in 1 .. n - 1 + 1 : SubSeq(p, 1, n)[i] = p[1 + i - 1]
  BY <1>2, SubSeqProperties
<1>4. n - 1 + 1 = n /\ (~(1 <= n) => n = 0) /\ \A i \in 1 .. n : 1 + i - 1 = i
  BY <1>1
<1> QED BY <1>3, <1>4 DEF Output!Paths

(* The names of a path after the first n.                                  *)
LEMMA RestIs ==
  ASSUME NEW p \in Output!Paths, NEW q, Len(q) \in 0 .. Len(p)
  PROVE  /\ Output!Rest(p, q) \in Output!Paths /\ Len(Output!Rest(p, q)) = Len(p) - Len(q)
         /\ \A i \in 1 .. Len(p) - Len(q) : Output!Rest(p, q)[i] = p[Len(q) + i]
<1> DEFINE n == Len(q)
           m == n + 1
           l == Len(p)
<1>1. l \in Nat /\ n \in 0 .. l /\ \A i \in 1 .. l : p[i] \in DOMAIN Fold
  BY PathIs
<1>2. Output!Rest(p, q) = SubSeq(p, m, l)
  BY DEF Output!Rest
<1> HIDE DEF n, l
<1>3. m \in Int /\ l \in Int /\ \A i \in m .. l : p[i] \in DOMAIN Fold
  BY <1>1
<1>4. (IF m <= l THEN l - m + 1 ELSE 0) = l - n /\ l - m + 1 = l - n /\ \A i \in 1 .. l - n : m + i - 1 = n + i
  BY <1>1
<1> HIDE DEF m
<1>5. /\ SubSeq(p, m, l) \in Seq(DOMAIN Fold)
      /\ Len(SubSeq(p, m, l)) = IF m <= l THEN l - m + 1 ELSE 0
      /\ \A i \in 1 .. l - m + 1 : SubSeq(p, m, l)[i] = p[m + i - 1]
  BY <1>3, SubSeqProperties
<1>6. \A i \in 1 .. l - n : SubSeq(p, m, l)[i] = p[n + i]
  BY <1>4, <1>5
<1> QED BY <1>2, <1>4, <1>5, <1>6 DEF Output!Paths, n, l

(* A path in the spelling of one of its beginnings.                        *)
LEMMA OntoIs ==
  ASSUME NEW p \in Output!Paths, NEW q \in Output!Paths, Len(q) <= Len(p)
  PROVE  /\ Output!Onto(q, p) \in Output!Paths /\ Len(Output!Onto(q, p)) = Len(p)
         /\ \A i \in 1 .. Len(p) : Output!Onto(q, p)[i] = IF i <= Len(q) THEN q[i] ELSE p[i]
<1> DEFINE o == [i \in 1 .. Len(p) |-> IF i \in 1 .. Len(q) THEN q[i] ELSE p[i]]
<1>1. /\ Len(p) \in Nat /\ DOMAIN p = 1 .. Len(p) /\ Len(q) \in Nat /\ DOMAIN q = 1 .. Len(q)
      /\ \A i \in 1 .. Len(p) : p[i] \in DOMAIN Fold
      /\ \A i \in 1 .. Len(q) : q[i] \in DOMAIN Fold
  BY PathIs
<1>2. Output!Onto(q, p) = o
  BY <1>1 DEF Output!Onto
<1>3. o \in [1 .. Len(p) -> DOMAIN Fold]
  BY <1>1
<1>4. o \in Seq(DOMAIN Fold) /\ Len(o) = Len(p)
  BY <1>1, <1>3, SeqDef
<1>5. \A i \in 1 .. Len(p) : i <= Len(q) <=> i \in 1 .. Len(q)
  BY <1>1
<1> QED BY <1>2, <1>4, <1>5 DEF Output!Paths

(* The parents of a path, by their lengths.                                *)
LEMMA ParentsAre ==
  ASSUME NEW p \in Output!Paths
  PROVE  /\ \A n \in 1 .. Len(p) - 1 : SubSeq(p, 1, n) \in Output!Parents(p)
         /\ \A d \in Output!Parents(p) : /\ d \in Output!Paths /\ Len(d) \in 1 .. Len(p) - 1
                                         /\ d = SubSeq(p, 1, Len(d))
<1>1. \A n \in 1 .. Len(p) - 1 : SubSeq(p, 1, n) \in Output!Parents(p)
  BY DEF Output!Parents
<1>2. ASSUME NEW d \in Output!Parents(p)
      PROVE  d \in Output!Paths /\ Len(d) \in 1 .. Len(p) - 1 /\ d = SubSeq(p, 1, Len(d))
  <2>1. PICK n \in 1 .. Len(p) - 1 : d = SubSeq(p, 1, n)
    BY DEF Output!Parents
  <2>2. n \in 0 .. Len(p)
    BY PathIs
  <2> QED BY <2>1, <2>2, PrefixIs
<1> QED BY <1>1, <1>2

(* Two names for one file are so both ways round, and a third with them.   *)
LEMMA AlikeIs ==
  ASSUME NEW f
  PROVE  /\ \A a : Output!Alike(f, a, a)
         /\ \A a, b : Output!Alike(f, a, b) => Output!Alike(f, b, a)
         /\ \A a, b, c : Output!Alike(f, a, b) /\ Output!Alike(f, b, c) => Output!Alike(f, a, c)
         /\ \A a, b : Output!Alike(f, a, b) => Fold[a] = Fold[b]
         /\ \A a, b : Output!Alike(f, a, b) /\ ~f.insensitive => a = b
BY DEF Output!Alike

(* What is stored has a path and is a directory, a file or a link, it lies *)
(* in directories, and it has one spelling.                                *)
Shaped(f) ==
  \A p \in DOMAIN f.at :
    /\ p \in Output!Paths /\ p # <<>>
    /\ f.at[p] = Output!Dir \/ f.at[p].kind = "file" \/ (f.at[p].kind = "link" /\ f.at[p].to \in Output!Paths)

Nested(f) ==
  \A p \in DOMAIN f.at :
    /\ \A n \in 1 .. Len(p) - 1 : SubSeq(p, 1, n) \in DOMAIN f.at /\ f.at[SubSeq(p, 1, n)] = Output!Dir
    /\ \A q \in DOMAIN f.at : Len(q) = Len(p) /\ (\A i \in 1 .. Len(p) : Output!Alike(f, p[i], q[i])) => q = p

OrderlyStore(f) == Shaped(f) /\ Nested(f)

(* The stored paths along a path.                                          *)
LEMMA AlongIs ==
  ASSUME NEW f, OrderlyStore(f), NEW y \in Output!Paths
  PROVE  /\ <<>> \in Output!Along(f, y)
         /\ \A p \in Output!Along(f, y) :
              /\ p \in Output!Paths /\ (p \in DOMAIN f.at \/ p = <<>>) /\ Len(p) \in 0 .. Len(y)
              /\ \A i \in 1 .. Len(p) : Output!Alike(f, p[i], y[i])
         /\ \A p : (p \in DOMAIN f.at \/ p = <<>>) /\ Len(p) <= Len(y)
                      /\ (\A i \in 1 .. Len(p) : Output!Alike(f, p[i], y[i])) => p \in Output!Along(f, y)
<1>1. \A p \in DOMAIN f.at \cup {<<>>} : p \in Output!Paths /\ Len(p) \in Nat /\ DOMAIN p = 1 .. Len(p)
  BY PathIs, RootIs DEF OrderlyStore, Shaped
<1>2. <<>> \in Output!Along(f, y)
  <2>1. Len(<<>>) <= Len(y) /\ \A i \in DOMAIN <<>> : FALSE
    BY <1>1, PathIs, RootIs
  <2> QED BY <2>1 DEF Output!Along
<1> QED BY <1>1, <1>2, PathIs DEF Output!Along

(* Two of the same length are one.                                         *)
LEMMA AlongIsOne ==
  ASSUME NEW f, OrderlyStore(f), NEW y \in Output!Paths, NEW p \in Output!Along(f, y),
         NEW q \in Output!Along(f, y), Len(p) = Len(q)
  PROVE  p = q
<1>1. p \in Output!Paths /\ q \in Output!Paths /\ (p \in DOMAIN f.at \/ p = <<>>) /\ (q \in DOMAIN f.at \/ q = <<>>)
  BY AlongIs
<1>2. CASE Len(p) = 0
  BY <1>1, <1>2, RootIs
<1>3. CASE Len(p) # 0
  <2>1. p \in DOMAIN f.at /\ q \in DOMAIN f.at
    BY <1>1, <1>3, RootIs
  <2>2. \A i \in 1 .. Len(p) : Output!Alike(f, q[i], y[i]) /\ Output!Alike(f, y[i], p[i])
    BY AlongIs, AlikeIs
  <2>3. \A i \in 1 .. Len(p) : Output!Alike(f, q[i], p[i])
    BY <2>2, AlikeIs
  <2> QED BY <2>1, <2>3 DEF OrderlyStore, Nested
<1> QED BY <1>2, <1>3

(* The beginnings of one are among them, and they are directories.         *)
LEMMA AlongFromRoot ==
  ASSUME NEW f, OrderlyStore(f), NEW y \in Output!Paths, NEW p \in Output!Along(f, y),
         NEW n \in 0 .. Len(p)
  PROVE  /\ SubSeq(p, 1, n) \in Output!Along(f, y)
         /\ n < Len(p) => Output!Entry(f, SubSeq(p, 1, n)) = Output!Dir
<1> DEFINE q == SubSeq(p, 1, n)
<1>1. /\ p \in Output!Paths /\ (p \in DOMAIN f.at \/ p = <<>>) /\ Len(p) \in 0 .. Len(y)
      /\ \A i \in 1 .. Len(p) : Output!Alike(f, p[i], y[i])
  BY AlongIs
<1>2. q \in Output!Paths /\ Len(q) = n /\ \A i \in 1 .. n : q[i] = p[i]
  BY <1>1, PrefixIs
<1>3. Len(y) \in Nat
  BY PathIs
<1>4. CASE n = 0
  <2>1. q = <<>>
    BY <1>2, <1>4, RootIs
  <2> HIDE DEF q
  <2> QED BY <2>1, AlongIs DEF Output!Entry, q
<1>5. CASE n = Len(p) /\ n # 0
  <2>1. q = p
    BY <1>1, <1>2, <1>5, SamePath
  <2> HIDE DEF q
  <2>2. q \in Output!Along(f, y) /\ ~(n < Len(p))
    BY <1>1, <1>3, <1>5, <2>1
  <2> QED BY <2>2 DEF q
<1>6. CASE n \in 1 .. Len(p) - 1
  <2>1. p \in DOMAIN f.at
    BY <1>1, <1>6, RootIs
  <2>2. q \in DOMAIN f.at /\ f.at[q] = Output!Dir
    BY <1>6, <2>1 DEF OrderlyStore, Nested
  <2>3. q # <<>>
    BY <2>2 DEF OrderlyStore, Shaped
  <2>4. Len(q) <= Len(y) /\ \A i \in 1 .. Len(q) : Output!Alike(f, q[i], y[i])
    BY <1>1, <1>2, <1>3
  <2> HIDE DEF q
  <2>5. q \in Output!Along(f, y)
    BY <2>2, <2>4, AlongIs
  <2> QED BY <2>2, <2>3, <2>5 DEF Output!Entry, q
<1>7. n = 0 \/ (n = Len(p) /\ n # 0) \/ n \in 1 .. Len(p) - 1
  BY <1>1, <1>3
<1> HIDE DEF q
<1> QED BY <1>4, <1>5, <1>6, <1>7

(* The last of them is the one that was reached.                           *)
LEMMA ReachedIs ==
  ASSUME NEW f, OrderlyStore(f), NEW y \in Output!Paths
  PROVE  /\ Output!Reached(f, y) \in Output!Along(f, y)
         /\ \A p \in Output!Along(f, y) : Len(p) <= Len(Output!Reached(f, y))
         /\ \A p \in Output!Along(f, y) :
              (\A q \in Output!Along(f, y) : Len(q) <= Len(p)) => p = Output!Reached(f, y)
<1> DEFINE A == Output!Along(f, y)
           T == {Len(y) - Len(p) : p \in A}
           Last(p) == \A q \in A : Len(q) <= Len(p)
<1>1. Len(y) \in Nat /\ A # {} /\ \A p \in A : Len(p) \in Nat /\ Len(p) <= Len(y)
  BY AlongIs, PathIs
<1>2. T \in SUBSET Nat /\ T # {}
  BY <1>1
<1>3. PICK m \in T : \A n \in T : m <= n
  BY <1>2, NatMin
<1>4. PICK p \in A : m = Len(y) - Len(p)
  BY <1>3
<1>5. Last(p)
  <2> SUFFICES ASSUME NEW q \in A PROVE Len(q) <= Len(p)
    OBVIOUS
  <2>1. Len(y) - Len(p) <= Len(y) - Len(q)
    BY <1>3, <1>4
  <2> HIDE DEF A
  <2> QED BY <1>1, <2>1
<1>6. Output!Reached(f, y) = CHOOSE q \in A : Last(q)
  BY DEF Output!Reached
<1> HIDE DEF T
<1>7. Output!Reached(f, y) \in A /\ Last(Output!Reached(f, y))
  BY <1>4, <1>5, <1>6
<1>8. ASSUME NEW q \in A, Last(q) PROVE q = Output!Reached(f, y)
  <2>1. Len(q) = Len(Output!Reached(f, y))
    BY <1>1, <1>7, <1>8
  <2> QED BY <1>7, <2>1, AlongIsOne
<1> QED BY <1>7, <1>8

(* Only the last of them may be a link.                                    *)
LEMMA LinkIsLast ==
  ASSUME NEW f, OrderlyStore(f), NEW y \in Output!Paths, NEW p \in Output!Along(f, y),
         Output!Entry(f, p).kind = "link"
  PROVE  p = Output!Reached(f, y)
<1> SUFFICES ASSUME NEW q \in Output!Along(f, y), ~(Len(q) <= Len(p)) PROVE FALSE
  BY ReachedIs
<1>1. Len(p) \in Nat /\ Len(q) \in Nat
  BY AlongIs, PathIs
<1>2. Len(p) \in 0 .. Len(q) /\ Len(p) < Len(q)
  BY <1>1
<1>3. SubSeq(q, 1, Len(p)) \in Output!Along(f, y) /\ Output!Entry(f, SubSeq(q, 1, Len(p))) = Output!Dir
  BY <1>2, AlongFromRoot
<1>4. Len(SubSeq(q, 1, Len(p))) = Len(p)
  BY <1>2, AlongIs, PrefixIs
<1>5. SubSeq(q, 1, Len(p)) = p
  BY <1>3, <1>4, AlongIsOne
<1>6. Output!Entry(f, p).kind = "link" /\ Output!Entry(f, p) = Output!Dir
  BY <1>3, <1>5
<1>7. Output!Dir.kind = "dir"
  BY DEF Output!Dir
<1> QED BY <1>6, <1>7

(* A path that comes to a link goes on as a path.                          *)
LEMMA FollowIs ==
  ASSUME NEW f, OrderlyStore(f), NEW y \in Output!Paths
  PROVE  Output!Follow(f, y) \in Output!Paths
<1> DEFINE r == Output!Reached(f, y)
<1>1. CASE Output!AtLink(f, y)
  <2>1. r \in Output!Along(f, y) /\ Output!Entry(f, r).kind = "link"
    BY <1>1, ReachedIs DEF Output!AtLink
  <2>2. r \in DOMAIN f.at \/ r = <<>>
    BY <2>1, AlongIs
  <2>3. Output!Dir.kind # "link" /\ Output!Dir.kind # "file"
    BY DEF Output!Dir
  <2>4. r # <<>>
    BY <2>1, <2>3 DEF Output!Entry
  <2>5. r \in DOMAIN f.at /\ f.at[r].kind = "link"
    BY <2>1, <2>2, <2>4 DEF Output!Entry
  <2>6. f.at[r].to \in Output!Paths
    BY <2>3, <2>5 DEF OrderlyStore, Shaped
  <2>7. Len(r) \in 0 .. Len(y)
    BY <2>1, AlongIs
  <2>8. Output!Rest(y, r) \in Output!Paths
    BY <2>7, RestIs
  <2>9. f.at[r].to \o Output!Rest(y, r) \in Output!Paths
    BY <2>6, <2>8, ConcatProperties DEF Output!Paths
  <2> QED BY <1>1, <2>9 DEF Output!Follow
<1>2. CASE ~Output!AtLink(f, y)
  BY <1>2 DEF Output!Follow
<1> QED BY <1>1, <1>2

(* Links are followed one after the other.                                 *)
Follows(a, f, y) ==
  /\ a \in [0 .. MaxDepth -> Output!Paths] /\ a[0] = y
  /\ \A n \in 1 .. MaxDepth : a[n] = Output!Follow(f, a[n - 1])

(* Where a path is after the links were followed is the last of a row of   *)
(* paths, each the one before followed once.                               *)
LEMMA FollowedIs ==
  ASSUME NEW f, OrderlyStore(f), NEW y \in Output!Paths, MaxDepth \in Nat
  PROVE  \E a : Follows(a, f, y) /\ Output!Followed(f, y) = a[MaxDepth]
<1> DEFINE P == Output!Paths
           Eq(a) == a = [n \in 0 .. MaxDepth |-> IF n = 0 THEN y ELSE Output!Follow(f, a[n - 1])]
           h == [x \in P \X (1 .. MaxDepth) |-> Output!Follow(f, x[1])]
<1>1. Output!Followed(f, y) = (CHOOSE a : Eq(a))[MaxDepth]
  BY DEF Output!Followed
<1>2. h \in [P \X (1 .. MaxDepth) -> P]
  BY FollowIs
<1>3. ASSUME NEW x \in P, NEW n \in 1 .. MaxDepth PROVE h[<<x, n>>] = Output!Follow(f, x)
  OBVIOUS
<1> HIDE DEF h, P
<1>4. \E a : Recurs(a, MaxDepth, P, y, h)
  BY <1>2, RecursionExists DEF P
<1>5. PICK a : Recurs(a, MaxDepth, P, y, h)
  BY <1>4
<1>6. a \in [0 .. MaxDepth -> P] /\ a[0] = y
  BY <1>5 DEF Recurs
<1>7. \A n \in 1 .. MaxDepth : a[n] = Output!Follow(f, a[n - 1])
  <2> TAKE n \in 1 .. MaxDepth
  <2>1. n - 1 \in 0 .. MaxDepth
    OBVIOUS
  <2>2. a[n - 1] \in P /\ a[n] = h[<<a[n - 1], n>>]
    BY <1>5, <1>6, <2>1 DEF Recurs
  <2> QED BY <1>3, <2>2
<1>8. Eq(a)
  BY <1>6, <1>7
<1> DEFINE b == CHOOSE c : Eq(c)
<1>9. Eq(b)
  BY <1>8
<1> HIDE DEF b
<1>10. DOMAIN b = 0 .. MaxDepth /\ b[0] = y /\ \A n \in 1 .. MaxDepth : b[n] = Output!Follow(f, b[n - 1])
  <2> 0 \in 0 .. MaxDepth /\ \A n \in 1 .. MaxDepth : n \in 0 .. MaxDepth /\ n # 0
    OBVIOUS
  <2> QED BY <1>9
<1> DEFINE J == {n \in Nat : n <= MaxDepth => b[n] \in P}
<1>11. 0 \in J
  BY <1>10 DEF P
<1>12. ASSUME NEW n \in Nat, n \in J PROVE n + 1 \in J
  <2> SUFFICES ASSUME n + 1 <= MaxDepth PROVE b[n + 1] \in P
    OBVIOUS
  <2>1. b[n] \in P
    BY <1>12
  <2>2. n + 1 \in 1 .. MaxDepth /\ (n + 1) - 1 = n
    OBVIOUS
  <2>3. b[n + 1] = Output!Follow(f, b[n])
    BY <1>10, <2>2
  <2> QED BY <2>1, <2>3, FollowIs DEF P
<1> HIDE DEF J
<1>13. Nat \subseteq J
  BY <1>11, <1>12, NatInd
<1>14. \A n \in 0 .. MaxDepth : b[n] \in P
  BY <1>13 DEF J
<1>15. b \in [0 .. MaxDepth -> P]
  BY <1>9, <1>14
<1>16. Follows(b, f, y)
  BY <1>10, <1>15 DEF Follows, P
<1> QED BY <1>1, <1>16 DEF b

(* Where every link is followed alike, so are the links of every path.     *)
LEMMA FollowedAlike ==
  ASSUME NEW f, NEW g, OrderlyStore(f), OrderlyStore(g), MaxDepth \in Nat,
         \A x \in Output!Paths : Output!Follow(g, x) = Output!Follow(f, x),
         NEW y \in Output!Paths
  PROVE  Output!Followed(g, y) = Output!Followed(f, y)
<1>1. PICK a : Follows(a, f, y) /\ Output!Followed(f, y) = a[MaxDepth]
  BY FollowedIs
<1>2. PICK b : Follows(b, g, y) /\ Output!Followed(g, y) = b[MaxDepth]
  BY FollowedIs
<1> DEFINE J == {n \in Nat : n <= MaxDepth => a[n] = b[n]}
<1>3. 0 \in J
  BY <1>1, <1>2 DEF Follows
<1>4. ASSUME NEW n \in Nat, n \in J PROVE n + 1 \in J
  <2> SUFFICES ASSUME n + 1 <= MaxDepth PROVE a[n + 1] = b[n + 1]
    OBVIOUS
  <2>1. a[n] = b[n]
    BY <1>4
  <2>2. n + 1 \in 1 .. MaxDepth /\ (n + 1) - 1 = n /\ n \in 0 .. MaxDepth
    OBVIOUS
  <2>3. a[n + 1] = Output!Follow(f, a[n]) /\ b[n + 1] = Output!Follow(g, b[n]) /\ a[n] \in Output!Paths
    BY <1>1, <1>2, <2>2 DEF Follows
  <2> QED BY <2>1, <2>3
<1> HIDE DEF J
<1>5. Nat \subseteq J
  BY <1>3, <1>4, NatInd
<1> QED BY <1>1, <1>2, <1>5 DEF J

(* A canonical path is what is left after the links, in the spelling that  *)
(* is stored, or a loop.                                                   *)
LEMMA CanonicalIs ==
  ASSUME NEW f, OrderlyStore(f), NEW y \in Output!Paths, MaxDepth \in Nat, "*loop*" \notin DOMAIN Fold
  PROVE  /\ Output!Followed(f, y) \in Output!Paths
         /\ Output!AtLink(f, Output!Followed(f, y)) => Output!Canonical(f, y) = Output!Loop
         /\ ~Output!AtLink(f, Output!Followed(f, y)) =>
              /\ Output!Canonical(f, y) = Output!Onto(Output!Reached(f, Output!Followed(f, y)), Output!Followed(f, y))
              /\ Output!Canonical(f, y) \in Output!Paths
              /\ Output!Canonical(f, y) # Output!Loop
<1> DEFINE l == Output!Followed(f, y)
           r == Output!Reached(f, l)
           c == Output!Canonical(f, y)
<1>1. PICK a : Follows(a, f, y) /\ l = a[MaxDepth]
  BY FollowedIs
<1>2. l \in Output!Paths
  BY <1>1 DEF Follows
<1>3. Output!AtLink(f, l) => c = Output!Loop
  BY DEF Output!Canonical
<1>4. ~Output!AtLink(f, l) => c = Output!Onto(r, l)
  BY DEF Output!Canonical
<1> HIDE DEF c, l
<1>5. r \in Output!Paths /\ Len(r) <= Len(l)
  BY <1>2, ReachedIs, AlongIs
<1>6. Output!Onto(r, l) \in Output!Paths
  BY <1>2, <1>5, OntoIs
<1>7. Output!Loop \notin Output!Paths
  <2>1. Len(Output!Loop) = 1 /\ Output!Loop[1] = "*loop*"
    BY DEF Output!Loop
  <2> QED BY <2>1, PathIs
<1> QED BY <1>2, <1>3, <1>4, <1>6, <1>7 DEF c, l

(* The beginning of a beginning.                                           *)
LEMMA PrefixOfPrefix ==
  ASSUME NEW p \in Output!Paths, NEW n \in 0 .. Len(p), NEW k \in 0 .. n
  PROVE  SubSeq(SubSeq(p, 1, n), 1, k) = SubSeq(p, 1, k)
<1> DEFINE q == SubSeq(p, 1, n)
<1>1. Len(p) \in Nat
  BY PathIs
<1>2. q \in Output!Paths /\ Len(q) = n /\ \A i \in 1 .. n : q[i] = p[i]
  BY PrefixIs
<1>3. k \in 0 .. Len(p) /\ k \in 0 .. Len(q)
  BY <1>1, <1>2
<1> HIDE DEF q
<1>4. SubSeq(p, 1, k) \in Output!Paths /\ Len(SubSeq(p, 1, k)) = k /\ \A i \in 1 .. k : SubSeq(p, 1, k)[i] = p[i]
  BY <1>3, PrefixIs
<1>5. SubSeq(q, 1, k) \in Output!Paths /\ Len(SubSeq(q, 1, k)) = k /\ \A i \in 1 .. k : SubSeq(q, 1, k)[i] = q[i]
  BY <1>2, <1>3, PrefixIs
<1>6. \A i \in 1 .. k : SubSeq(q, 1, k)[i] = SubSeq(p, 1, k)[i]
  BY <1>2, <1>4, <1>5
<1>7. SubSeq(q, 1, k) = SubSeq(p, 1, k)
  BY <1>4, <1>5, <1>6, SamePath
<1> QED BY <1>7 DEF q

(* A path without links leads to c: c is how what is stored spells it.     *)
Lands(f, y, c) ==
  y \in Output!Paths /\ ~Output!AtLink(f, y) /\ c = Output!Onto(Output!Reached(f, y), y)

(* Such a c is a path of the same names, in stored spelling as far as it    *)
(* is stored.                                                              *)
LEMMA LandsIs ==
  ASSUME NEW f, OrderlyStore(f), NEW y, NEW c, Lands(f, y, c)
  PROVE  /\ c \in Output!Paths /\ Len(c) = Len(y) /\ Len(Output!Reached(f, y)) \in 0 .. Len(c)
         /\ \A i \in 1 .. Len(c) : Output!Alike(f, c[i], y[i])
         /\ \A i \in 1 .. Len(c) : c[i] = IF i <= Len(Output!Reached(f, y)) THEN Output!Reached(f, y)[i] ELSE y[i]
         /\ \A n \in 0 .. Len(Output!Reached(f, y)) : SubSeq(c, 1, n) = SubSeq(Output!Reached(f, y), 1, n)
<1> DEFINE r == Output!Reached(f, y)
<1>1. y \in Output!Paths /\ Len(y) \in Nat /\ c = Output!Onto(r, y)
  BY PathIs DEF Lands
<1>2. r \in Output!Paths /\ Len(r) \in 0 .. Len(y) /\ \A i \in 1 .. Len(r) : Output!Alike(f, r[i], y[i])
  BY <1>1, ReachedIs, AlongIs
<1> HIDE DEF r
<1>3. c \in Output!Paths /\ Len(c) = Len(y) /\ \A i \in 1 .. Len(y) : c[i] = IF i <= Len(r) THEN r[i] ELSE y[i]
  BY <1>1, <1>2, OntoIs
<1>4. \A i \in 1 .. Len(c) : Output!Alike(f, c[i], y[i])
  <2> TAKE i \in 1 .. Len(c)
  <2>1. CASE i <= Len(r)
    <3>1. i \in 1 .. Len(r)
      BY <1>2, <1>3, <2>1
    <3> QED BY <1>2, <1>3, <2>1, <3>1
  <2>2. CASE ~(i <= Len(r))
    BY <1>3, <2>2, AlikeIs
  <2> QED BY <2>1, <2>2
<1>5. ASSUME NEW n \in 0 .. Len(r) PROVE SubSeq(c, 1, n) = SubSeq(r, 1, n)
  <2>1. n \in 0 .. Len(c) /\ \A i \in 1 .. n : i \in 1 .. Len(c) /\ i <= Len(r)
    BY <1>1, <1>2, <1>3
  <2>2. /\ SubSeq(c, 1, n) \in Output!Paths /\ Len(SubSeq(c, 1, n)) = n
        /\ \A i \in 1 .. n : SubSeq(c, 1, n)[i] = c[i]
    BY <1>3, <2>1, PrefixIs
  <2>3. /\ SubSeq(r, 1, n) \in Output!Paths /\ Len(SubSeq(r, 1, n)) = n
        /\ \A i \in 1 .. n : SubSeq(r, 1, n)[i] = r[i]
    BY <1>2, PrefixIs
  <2>4. \A i \in 1 .. n : SubSeq(c, 1, n)[i] = SubSeq(r, 1, n)[i]
    BY <1>3, <2>1, <2>2, <2>3
  <2> QED BY <2>2, <2>3, <2>4, SamePath
<1> QED BY <1>2, <1>3, <1>4, <1>5 DEF r

(* What is stored of c, however it is spelt, was reached and is a          *)
(* beginning of c.                                                         *)
LEMMA SpeltOnce ==
  ASSUME NEW f, OrderlyStore(f), NEW y, NEW c, Lands(f, y, c), NEW p \in DOMAIN f.at, Len(p) \in 1 .. Len(c),
         \A i \in 1 .. Len(p) : Output!Alike(f, p[i], c[i])
  PROVE  /\ Len(p) <= Len(Output!Reached(f, y)) /\ p = SubSeq(c, 1, Len(p))
         /\ p = SubSeq(Output!Reached(f, y), 1, Len(p))
<1> DEFINE r == Output!Reached(f, y)
           n == Len(p)
<1>1. y \in Output!Paths
  BY DEF Lands
<1>2. c \in Output!Paths /\ Len(c) = Len(y) /\ Len(c) \in Nat /\ Len(r) \in 0 .. Len(c)
  BY LandsIs, PathIs
<1>3. \A i \in 1 .. n : Output!Alike(f, p[i], y[i])
  <2>1. \A i \in 1 .. n : i \in 1 .. Len(c)
    BY <1>2
  <2> QED BY <2>1, LandsIs, AlikeIs
<1>4. p \in Output!Along(f, y)
  BY <1>1, <1>2, <1>3, AlongIs
<1>5. n <= Len(r) /\ r \in Output!Along(f, y)
  BY <1>1, <1>4, ReachedIs
<1>6. n \in 0 .. Len(r)
  BY <1>2, <1>5
<1>7. SubSeq(r, 1, n) \in Output!Along(f, y) /\ Len(SubSeq(r, 1, n)) = n
  BY <1>1, <1>5, <1>6, AlongFromRoot, AlongIs, PrefixIs
<1>8. p = SubSeq(r, 1, n)
  BY <1>1, <1>4, <1>7, AlongIsOne
<1>9. SubSeq(c, 1, n) = SubSeq(r, 1, n)
  BY <1>6, LandsIs
<1> HIDE DEF r, n
<1> QED BY <1>5, <1>8, <1>9 DEF r, n

(* The same of a beginning of c.                                           *)
LEMMA StoredIsReached ==
  ASSUME NEW f, OrderlyStore(f), NEW y, NEW c, Lands(f, y, c), NEW n \in 1 .. Len(c),
         SubSeq(c, 1, n) \in DOMAIN f.at
  PROVE  n <= Len(Output!Reached(f, y)) /\ SubSeq(c, 1, n) = SubSeq(Output!Reached(f, y), 1, n)
<1> DEFINE p == SubSeq(c, 1, n)
<1>1. c \in Output!Paths /\ Len(c) \in Nat
  BY LandsIs, PathIs
<1>2. Len(p) = n /\ \A i \in 1 .. n : p[i] = c[i]
  BY <1>1, PrefixIs
<1>3. Len(p) \in 1 .. Len(c) /\ \A i \in 1 .. Len(p) : Output!Alike(f, p[i], c[i])
  BY <1>2, AlikeIs
<1>4. p \in DOMAIN f.at
  OBVIOUS
<1> HIDE DEF p
<1>5. Len(p) <= Len(Output!Reached(f, y)) /\ p = SubSeq(Output!Reached(f, y), 1, Len(p))
  BY <1>3, <1>4, SpeltOnce
<1> QED BY <1>2, <1>5 DEF p

(* The page goes into a new file: nothing is there yet, and no file is     *)
(* where directories have to be.                                           *)
Absent(f, y, c) ==
  /\ Lands(f, y, c) /\ c \notin DOMAIN f.at /\ c # <<>>
  /\ \A p \in Output!Parents(c) : Output!Entry(f, p).kind # "file"

(* Of a path that is absent and not blocked, what is stored is directories. *)
LEMMA StoredIsDir ==
  ASSUME NEW f, OrderlyStore(f), NEW y, NEW c, Absent(f, y, c), NEW n \in 1 .. Len(c),
         SubSeq(c, 1, n) \in DOMAIN f.at
  PROVE  f.at[SubSeq(c, 1, n)] = Output!Dir /\ n < Len(c)
<1> DEFINE r == Output!Reached(f, y)
           q == SubSeq(c, 1, n)
<1>1. Lands(f, y, c) /\ y \in Output!Paths /\ c \in Output!Paths /\ Len(c) \in Nat /\ Len(r) \in 0 .. Len(c)
  BY LandsIs, PathIs DEF Absent, Lands
<1>2. n <= Len(r) /\ q = SubSeq(r, 1, n)
  BY <1>1, StoredIsReached
<1>3. r \in Output!Along(f, y) /\ r \in Output!Paths
  BY <1>1, ReachedIs, AlongIs
<1>4. q # <<>> /\ (f.at[q] = Output!Dir \/ f.at[q].kind = "file" \/ f.at[q].kind = "link")
  BY DEF OrderlyStore, Shaped
<1>5. Output!Entry(f, q) = f.at[q]
  BY <1>4 DEF Output!Entry
<1>6. n < Len(c)
  <2>1. CASE n = Len(c)
    <3>1. /\ q \in Output!Paths /\ Len(q) = n /\ \A i \in 1 .. n : q[i] = c[i]
      <4> n \in 0 .. Len(c)
        BY <1>1
      <4> QED BY <1>1, PrefixIs
    <3>2. q = c
      BY <1>1, <2>1, <3>1, SamePath
    <3> QED BY <3>2 DEF Absent
  <2> QED BY <1>1, <2>1
<1>7. CASE n < Len(r)
  <2>1. n \in 0 .. Len(r)
    BY <1>1, <1>7
  <2>2. Output!Entry(f, SubSeq(r, 1, n)) = Output!Dir
    BY <1>1, <1>3, <1>7, <2>1, AlongFromRoot
  <2> QED BY <1>2, <1>5, <1>6, <2>2
<1>8. CASE n = Len(r)
  <2>1. Len(r) \in 0 .. Len(r)
    BY <1>1
  <2>2. /\ SubSeq(r, 1, n) \in Output!Paths /\ Len(SubSeq(r, 1, n)) = n
        /\ \A i \in 1 .. n : SubSeq(r, 1, n)[i] = r[i]
    BY <1>3, <1>8, <2>1, PrefixIs
  <2>3. q = r
    BY <1>2, <1>3, <1>8, <2>2, SamePath
  <2>4. Output!Entry(f, r).kind # "link"
    BY <1>1 DEF Lands, Output!AtLink
  <2>5. n \in 1 .. Len(c) - 1
    BY <1>1, <1>6
  <2>6. q \in Output!Parents(c)
    BY <1>1, <2>5, ParentsAre
  <2>7. Output!Entry(f, q).kind # "file"
    BY <2>6 DEF Absent
  <2> HIDE DEF r, q
  <2> QED BY <1>4, <1>5, <1>6, <2>3, <2>4, <2>7 DEF q
<1> HIDE DEF r
<1> QED BY <1>1, <1>2, <1>7, <1>8

(* The store after the page was written into a new file.                   *)
Grown(f, g, c) ==
  /\ DOMAIN g.at = DOMAIN f.at \cup (Output!Parents(c) \ DOMAIN f.at) \cup {c}
  /\ \A p \in DOMAIN f.at : g.at[p] = f.at[p]
  /\ \A p \in Output!Parents(c) \ DOMAIN f.at : g.at[p] = Output!Dir
  /\ g.at[c] = Output!File(NewInode)
  /\ g.insensitive = f.insensitive

(* What is new are beginnings of c: directories, and the file.             *)
LEMMA GrownIs ==
  ASSUME NEW f, OrderlyStore(f), NEW y, NEW c, Absent(f, y, c), NEW g, Grown(f, g, c)
  PROVE  /\ \A p \in DOMAIN g.at : p \notin DOMAIN f.at =>
              /\ p \in Output!Paths /\ p # <<>> /\ Len(p) \in 1 .. Len(c) /\ p = SubSeq(c, 1, Len(p))
              /\ g.at[p] = Output!Dir \/ (p = c /\ g.at[p] = Output!File(NewInode))
         /\ \A n \in 1 .. Len(c) - 1 : SubSeq(c, 1, n) \in DOMAIN g.at /\ g.at[SubSeq(c, 1, n)] = Output!Dir
<1>1. Lands(f, y, c) /\ c \in Output!Paths /\ c # <<>> /\ Len(c) \in Nat \ {0}
  BY LandsIs, RootIs DEF Absent
<1>2. ASSUME NEW p \in DOMAIN g.at, p \notin DOMAIN f.at
      PROVE  /\ p \in Output!Paths /\ p # <<>> /\ Len(p) \in 1 .. Len(c) /\ p = SubSeq(c, 1, Len(p))
             /\ g.at[p] = Output!Dir \/ (p = c /\ g.at[p] = Output!File(NewInode))
  <2>1. CASE p = c
    <3>1. Len(c) \in 1 .. Len(c)
      BY <1>1
    <3>2. SubSeq(c, 1, Len(c)) = c
      BY <1>1, SubSeqFull DEF Output!Paths
    <3> QED BY <1>1, <2>1, <3>1, <3>2 DEF Grown
  <2>2. CASE p # c
    <3>1. p \in Output!Parents(c) \ DOMAIN f.at
      BY <1>2, <2>2 DEF Grown
    <3>2. p \in Output!Paths /\ Len(p) \in 1 .. Len(c) - 1 /\ p = SubSeq(c, 1, Len(p))
      BY <1>1, <3>1, ParentsAre
    <3>3. p # <<>> /\ Len(p) \in 1 .. Len(c)
      BY <1>1, <3>2, RootIs
    <3> QED BY <3>1, <3>2, <3>3 DEF Grown
  <2> QED BY <2>1, <2>2
<1>3. ASSUME NEW n \in 1 .. Len(c) - 1
      PROVE  SubSeq(c, 1, n) \in DOMAIN g.at /\ g.at[SubSeq(c, 1, n)] = Output!Dir
  <2>1. SubSeq(c, 1, n) \in Output!Parents(c)
    BY <1>1, ParentsAre
  <2>2. CASE SubSeq(c, 1, n) \in DOMAIN f.at
    <3>1. n \in 1 .. Len(c)
      BY <1>1
    <3>2. f.at[SubSeq(c, 1, n)] = Output!Dir
      BY <2>2, <3>1, StoredIsDir
    <3> QED BY <2>2, <3>2 DEF Grown
  <2>3. CASE SubSeq(c, 1, n) \notin DOMAIN f.at
    BY <2>1, <2>3 DEF Grown
  <2> QED BY <2>2, <2>3
<1> QED BY <1>2, <1>3

(* The store is still orderly.                                             *)
LEMMA GrownIsOrderly ==
  ASSUME NEW f, OrderlyStore(f), NEW y, NEW c, Absent(f, y, c), NEW g, Grown(f, g, c)
  PROVE  OrderlyStore(g)
<1>1. /\ Lands(f, y, c) /\ c \in Output!Paths /\ Len(c) \in Nat
      /\ \A p \in DOMAIN f.at : p \in DOMAIN g.at /\ g.at[p] = f.at[p]
  BY LandsIs, PathIs DEF Absent, Grown
<1>2. Shaped(g)
  <2> SUFFICES ASSUME NEW p \in DOMAIN g.at
      PROVE  /\ p \in Output!Paths /\ p # <<>>
             /\ g.at[p] = Output!Dir \/ g.at[p].kind = "file" \/ (g.at[p].kind = "link" /\ g.at[p].to \in Output!Paths)
    BY DEF Shaped
  <2>1. CASE p \in DOMAIN f.at
    BY <1>1, <2>1 DEF OrderlyStore, Shaped
  <2>2. CASE p \notin DOMAIN f.at
    <3>1. Output!File(NewInode).kind = "file"
      BY DEF Output!File
    <3> QED BY <2>2, <3>1, GrownIs
  <2> QED BY <2>1, <2>2
<1>3. ASSUME NEW p \in DOMAIN g.at, NEW n \in 1 .. Len(p) - 1
      PROVE  SubSeq(p, 1, n) \in DOMAIN g.at /\ g.at[SubSeq(p, 1, n)] = Output!Dir
  <2>1. CASE p \in DOMAIN f.at
    BY <1>1, <2>1 DEF OrderlyStore, Nested
  <2>2. CASE p \notin DOMAIN f.at
    <3>1. Len(p) \in 1 .. Len(c) /\ p = SubSeq(c, 1, Len(p))
      BY <2>2, GrownIs
    <3>2. n \in 0 .. Len(p) /\ Len(p) \in 0 .. Len(c) /\ n \in 1 .. Len(c) - 1
      BY <1>1, <3>1
    <3>3. SubSeq(SubSeq(c, 1, Len(p)), 1, n) = SubSeq(c, 1, n)
      BY <1>1, <3>2, PrefixOfPrefix
    <3>4. SubSeq(p, 1, n) = SubSeq(c, 1, n)
      BY <3>1, <3>3
    <3>5. SubSeq(c, 1, n) \in DOMAIN g.at /\ g.at[SubSeq(c, 1, n)] = Output!Dir
      BY <3>2, GrownIs
    <3> QED BY <3>4, <3>5
  <2> QED BY <2>1, <2>2
<1>4. ASSUME NEW p \in DOMAIN g.at, NEW q \in DOMAIN g.at, Len(q) = Len(p),
             \A i \in 1 .. Len(p) : Output!Alike(f, p[i], q[i])
      PROVE  q = p
  <2>0. ASSUME NEW a \in DOMAIN f.at, NEW b \in DOMAIN g.at, b \notin DOMAIN f.at, Len(a) = Len(b),
               \A i \in 1 .. Len(a) : Output!Alike(f, a[i], b[i])
        PROVE  a = b
    <3>1. Len(b) \in 1 .. Len(c) /\ b = SubSeq(c, 1, Len(b))
      BY <2>0, GrownIs
    <3>2. Len(b) \in 0 .. Len(c)
      BY <1>1, <3>1
    <3>3. \A i \in 1 .. Len(b) : SubSeq(c, 1, Len(b))[i] = c[i]
      BY <1>1, <3>2, PrefixIs
    <3>4. \A i \in 1 .. Len(a) : Output!Alike(f, a[i], c[i])
      BY <2>0, <3>1, <3>3
    <3>5. Len(a) \in 1 .. Len(c)
      BY <2>0, <3>1
    <3>6. a = SubSeq(c, 1, Len(a))
      BY <1>1, <3>4, <3>5, SpeltOnce
    <3> QED BY <2>0, <3>1, <3>6
  <2>1. \A i \in 1 .. Len(q) : Output!Alike(f, q[i], p[i])
    BY <1>4, AlikeIs
  <2>2. CASE p \in DOMAIN f.at /\ q \in DOMAIN f.at
    BY <1>4, <2>2 DEF OrderlyStore, Nested
  <2>3. CASE p \in DOMAIN f.at /\ q \notin DOMAIN f.at
    BY <1>4, <2>0, <2>3
  <2>4. CASE p \notin DOMAIN f.at /\ q \in DOMAIN f.at
    BY <1>4, <2>0, <2>1, <2>4
  <2>5. CASE p \notin DOMAIN f.at /\ q \notin DOMAIN f.at
    <3>1. p = SubSeq(c, 1, Len(p)) /\ q = SubSeq(c, 1, Len(q))
      BY <2>5, GrownIs
    <3> QED BY <1>4, <3>1
  <2> QED BY <2>2, <2>3, <2>4, <2>5
<1>5. \A a, b : Output!Alike(g, a, b) => Output!Alike(f, a, b)
  BY DEF Grown, Output!Alike
<1> QED BY <1>2, <1>3, <1>4, <1>5 DEF OrderlyStore, Nested

(* Every path goes through the same links, and if it reaches further it    *)
(* reaches what is new.                                                    *)
LEMMA GrownReaches ==
  ASSUME NEW f, OrderlyStore(f), NEW y, NEW c, Absent(f, y, c), NEW g, Grown(f, g, c),
         NEW x \in Output!Paths
  PROVE  /\ Output!AtLink(g, x) <=> Output!AtLink(f, x)
         /\ Output!Follow(g, x) = Output!Follow(f, x)
         /\ Output!Reached(g, x) # Output!Reached(f, x) =>
              Output!Reached(g, x) \in DOMAIN g.at /\ Output!Reached(g, x) \notin DOMAIN f.at
<1> DEFINE r == Output!Reached(f, x)
           s == Output!Reached(g, x)
<1>0. OrderlyStore(g) /\ \A a, b : Output!Alike(g, a, b) <=> Output!Alike(f, a, b)
  BY GrownIsOrderly DEF Grown, Output!Alike
<1>1. \A p \in DOMAIN f.at : p \in DOMAIN g.at /\ g.at[p] = f.at[p]
  BY DEF Grown
<1>2. \A p : p \in DOMAIN f.at \/ p = <<>> => Output!Entry(g, p) = Output!Entry(f, p)
  BY <1>1 DEF Output!Entry
<1>3. r \in Output!Along(f, x) /\ (r \in DOMAIN f.at \/ r = <<>>)
  BY ReachedIs, AlongIs
<1>4. s \in Output!Along(g, x) /\ (s \in DOMAIN g.at \/ s = <<>>)
  BY <1>0, ReachedIs, AlongIs
<1>5. Len(x) \in Nat
  BY PathIs
<1>6. \A p \in Output!Along(f, x) : p \in Output!Along(g, x)
  <2> TAKE p \in Output!Along(f, x)
  <2>1. /\ (p \in DOMAIN f.at \/ p = <<>>) /\ Len(p) \in 0 .. Len(x)
        /\ \A i \in 1 .. Len(p) : Output!Alike(f, p[i], x[i])
    BY AlongIs
  <2>2. (p \in DOMAIN g.at \/ p = <<>>) /\ Len(p) <= Len(x)
    BY <1>1, <1>5, <2>1
  <2>3. \A i \in 1 .. Len(p) : Output!Alike(g, p[i], x[i])
    BY <1>0, <2>1
  <2> QED BY <1>0, <2>2, <2>3, AlongIs
<1>7. \A p \in Output!Along(g, x) : p \in DOMAIN f.at \/ p = <<>> => p \in Output!Along(f, x)
  <2> TAKE p \in Output!Along(g, x)
  <2>0. Len(p) \in 0 .. Len(x) /\ \A i \in 1 .. Len(p) : Output!Alike(g, p[i], x[i])
    BY <1>0, AlongIs
  <2>1. Len(p) \in 0 .. Len(x) /\ \A i \in 1 .. Len(p) : Output!Alike(f, p[i], x[i])
    BY <1>0, <2>0
  <2>2. Len(p) <= Len(x)
    BY <1>5, <2>1
  <2> QED BY <2>1, <2>2, AlongIs
<1>8. s \in DOMAIN f.at \/ s = <<>> => s = r
  <2> SUFFICES ASSUME s \in DOMAIN f.at \/ s = <<>> PROVE s = r
    OBVIOUS
  <2>1. s \in Output!Along(f, x)
    BY <1>4, <1>7
  <2>2. \A p \in Output!Along(f, x) : Len(p) <= Len(s)
    BY <1>0, <1>6, ReachedIs
  <2> HIDE DEF s
  <2> QED BY <2>1, <2>2, ReachedIs
<1>9. CASE Output!AtLink(f, x)
  <2>1. Output!Entry(g, r).kind = "link"
    BY <1>2, <1>3, <1>9 DEF Output!AtLink
  <2>2. r = s
    BY <1>0, <1>3, <1>6, <2>1, LinkIsLast
  <2>3. Output!AtLink(g, x)
    BY <2>1, <2>2 DEF Output!AtLink
  <2>4. r \in DOMAIN f.at
    <3>1. Output!Dir.kind # "link"
      BY DEF Output!Dir
    <3> QED BY <1>3, <1>9, <3>1 DEF Output!AtLink, Output!Entry
  <2>5. g.at[r].to = f.at[r].to
    BY <1>1, <2>4
  <2>6. Output!Follow(g, x) = Output!Follow(f, x)
    BY <1>9, <2>2, <2>3, <2>5 DEF Output!Follow
  <2> QED BY <1>9, <2>2, <2>3, <2>6
<1>10. CASE ~Output!AtLink(f, x)
  <2>1. Output!Entry(f, r).kind # "link"
    BY <1>10 DEF Output!AtLink
  <2>2. CASE s = r
    <3>1. ~Output!AtLink(g, x)
      BY <1>2, <1>3, <2>1, <2>2 DEF Output!AtLink
    <3> QED BY <1>10, <2>2, <3>1 DEF Output!Follow
  <2>3. CASE s # r
    <3>1. s \in DOMAIN g.at /\ s \notin DOMAIN f.at /\ s # <<>>
      BY <1>4, <1>8, <2>3
    <3>2. g.at[s] = Output!Dir \/ g.at[s] = Output!File(NewInode)
      BY <3>1, GrownIs
    <3>3. Output!Dir.kind # "link" /\ Output!File(NewInode).kind # "link"
      BY DEF Output!Dir, Output!File
    <3>4. ~Output!AtLink(g, x)
      BY <3>1, <3>2, <3>3 DEF Output!AtLink, Output!Entry
    <3> QED BY <1>10, <3>1, <3>4 DEF Output!Follow
  <2> QED BY <2>2, <2>3
<1> QED BY <1>9, <1>10

(* The nearest directory is the longest of those above.                    *)
LEMMA NearestIs ==
  ASSUME NEW f, NEW p \in Output!Paths, NEW n \in Nat,
         n = 0 \/ (n \in 1 .. Len(p) - 1 /\ Output!Entry(f, SubSeq(p, 1, n)) = Output!Dir),
         \A m \in 1 .. Len(p) - 1 : Output!Entry(f, SubSeq(p, 1, m)) = Output!Dir => m <= n
  PROVE  Output!Nearest(f, p) = SubSeq(p, 1, n)
<1> DEFINE above == {0} \cup {m \in 1 .. Len(p) - 1 : Output!Entry(f, SubSeq(p, 1, m)) = Output!Dir}
           far == CHOOSE m \in above : \A k \in above : k <= m
<1>1. Output!Nearest(f, p) = SubSeq(p, 1, far)
  BY DEF Output!Nearest
<1>2. above \subseteq Nat /\ n \in above /\ \A k \in above : k <= n
  BY PathIs
<1> HIDE DEF above
<1>3. far \in above /\ \A k \in above : k <= far
  BY <1>2
<1> HIDE DEF far
<1>4. far = n
  BY <1>2, <1>3
<1> QED BY <1>1, <1>4

(* Of a canonical path that is not stored it is what was reached.          *)
LEMMA NearestIsReached ==
  ASSUME NEW f, OrderlyStore(f), NEW y, NEW c, Lands(f, y, c), Len(Output!Reached(f, y)) < Len(c),
         Output!Entry(f, Output!Reached(f, y)) = Output!Dir
  PROVE  Output!Nearest(f, c) = Output!Reached(f, y)
<1> DEFINE r == Output!Reached(f, y)
           n == Len(r)
<1>1. c \in Output!Paths /\ Len(c) \in Nat /\ r \in Output!Paths /\ n \in Nat
  BY LandsIs, PathIs, ReachedIs, AlongIs DEF Lands
<1>2. SubSeq(c, 1, n) = r
  <2>1. n \in 0 .. n /\ n \in 0 .. Len(r)
    BY <1>1
  <2>2. SubSeq(c, 1, n) = SubSeq(r, 1, n)
    BY <2>1, LandsIs
  <2>3. SubSeq(r, 1, n) = r
    BY <1>1, SubSeqFull DEF Output!Paths
  <2> QED BY <2>2, <2>3
<1>3. n = 0 \/ (n \in 1 .. Len(c) - 1 /\ Output!Entry(f, SubSeq(c, 1, n)) = Output!Dir)
  <2>1. n < Len(c) /\ Output!Entry(f, r) = Output!Dir
    OBVIOUS
  <2> HIDE DEF r, n
  <2>2. n = 0 \/ n \in 1 .. Len(c) - 1
    BY <1>1, <2>1
  <2> QED BY <1>2, <2>1, <2>2
<1>4. ASSUME NEW m \in 1 .. Len(c) - 1, Output!Entry(f, SubSeq(c, 1, m)) = Output!Dir PROVE m <= n
  <2>1. m \in 0 .. Len(c) /\ m \in 1 .. Len(c)
    BY <1>1
  <2>2. SubSeq(c, 1, m) # <<>>
    <3>1. Len(SubSeq(c, 1, m)) = m
      BY <1>1, <2>1, PrefixIs
    <3>2. m # 0
      BY <1>1
    <3> QED BY <3>1, <3>2, RootIs
  <2>3. Output!Dir # Output!NoEntry
    <3>1. Output!Dir.kind = "dir" /\ Output!NoEntry.kind = "none"
      BY DEF Output!Dir, Output!NoEntry
    <3> QED BY <3>1
  <2>4. SubSeq(c, 1, m) \in DOMAIN f.at
    BY <1>4, <2>2, <2>3 DEF Output!Entry
  <2> QED BY <2>1, <2>4, StoredIsReached
<1> HIDE DEF r, n
<1>5. Output!Nearest(f, c) = SubSeq(c, 1, n)
  BY <1>1, <1>3, <1>4, NearestIs
<1> QED BY <1>2, <1>5 DEF r

(* Names that are alike compare as the same.                               *)
LEMMA ComparesAlike ==
  ASSUME NEW f, NEW p \in Output!Paths, NEW q \in Output!Paths, Len(p) = Len(q),
         \A i \in 1 .. Len(p) : Output!Alike(f, p[i], q[i])
  PROVE  Output!Comparable(f, p) = Output!Comparable(f, q)
<1>1. DOMAIN p = 1 .. Len(p) /\ DOMAIN q = 1 .. Len(p)
  BY PathIs
<1>2. CASE Output!FoldsHere(f)
  <2>1. \A i \in 1 .. Len(p) : Fold[p[i]] = Fold[q[i]]
    BY AlikeIs
  <2> QED BY <1>1, <1>2, <2>1 DEF Output!Comparable
<1>3. CASE ~Output!FoldsHere(f)
  <2>1. ~f.insensitive
    BY <1>3 DEF Output!FoldsHere
  <2>2. \A i \in 1 .. Len(p) : p[i] = q[i]
    BY <2>1, AlikeIs
  <2>3. p = q
    BY <2>2, SamePath
  <2> QED BY <2>3
<1> QED BY <1>2, <1>3

(* A path that leads to the new file, and did not before, was an alias of  *)
(* it before (futurePathsAlias).                                           *)
LEMMA LeadsToNew ==
  ASSUME NEW f, OrderlyStore(f), NEW y, NEW c, Absent(f, y, c), NEW g, Grown(f, g, c),
         NEW x, NEW l, Lands(f, x, l), c = Output!Onto(Output!Reached(g, x), x)
  PROVE  \/ c = l
         \/ /\ Output!Nearest(f, c) = Output!Nearest(f, l)
            /\ Output!Comparable(f, Output!Rest(c, Output!Nearest(f, c)))
                 = Output!Comparable(f, Output!Rest(l, Output!Nearest(f, l)))
<1> DEFINE r == Output!Reached(f, y)
           s == Output!Reached(g, x)
           t == Output!Reached(f, x)
           n == Len(r)
<1>0. OrderlyStore(g) /\ \A a, b : Output!Alike(g, a, b) <=> Output!Alike(f, a, b)
  BY GrownIsOrderly DEF Grown, Output!Alike
<1>1. CASE s = t
  BY <1>1 DEF Lands
<1>2. CASE s # t
  <2>1. /\ Lands(f, y, c) /\ c \in Output!Paths /\ c # <<>> /\ Len(c) \in Nat \ {0}
        /\ y \in Output!Paths /\ x \in Output!Paths /\ Len(x) \in Nat
    BY LandsIs, RootIs, PathIs DEF Absent, Lands
  <2>2. r \in Output!Along(f, y) /\ r \in Output!Paths /\ n \in 0 .. Len(c) /\ (r \in DOMAIN f.at \/ r = <<>>)
    BY <2>1, ReachedIs, AlongIs, LandsIs
  <2>3. /\ s \in Output!Along(g, x) /\ s \in Output!Paths /\ Len(s) \in 0 .. Len(x)
        /\ \A i \in 1 .. Len(s) : Output!Alike(f, s[i], x[i])
    BY <1>0, <2>1, ReachedIs, AlongIs
  <2>4. s \notin DOMAIN f.at /\ s # <<>> /\ Len(s) \in 1 .. Len(c) /\ s = SubSeq(c, 1, Len(s))
    BY <1>2, <2>1, GrownReaches, GrownIs
  <2>5. /\ Len(c) = Len(x)
        /\ \A i \in 1 .. Len(x) : c[i] = IF i <= Len(s) THEN s[i] ELSE x[i]
    <3>1. Len(s) <= Len(x)
      BY <2>1, <2>3
    <3> QED BY <2>1, <2>3, <3>1, OntoIs
  <2>6. \A i \in 1 .. Len(x) : Output!Alike(f, c[i], x[i])
    <3> TAKE i \in 1 .. Len(x)
    <3>1. CASE i <= Len(s)
      <4>1. i \in 1 .. Len(s)
        BY <2>1, <2>3, <3>1
      <4> QED BY <2>3, <2>5, <3>1, <4>1
    <3>2. CASE ~(i <= Len(s))
      BY <2>5, <3>2, AlikeIs
    <3> QED BY <3>1, <3>2
  <2>7. n < Len(s)
    <3> SUFFICES ASSUME ~(n < Len(s)) PROVE FALSE
      OBVIOUS
    <3>1. Len(s) \in 0 .. n
      BY <2>2, <2>3, <2>4
    <3>2. SubSeq(c, 1, Len(s)) = SubSeq(r, 1, Len(s))
      BY <2>1, <3>1, LandsIs
    <3>3. SubSeq(r, 1, Len(s)) \in Output!Along(f, y)
      BY <2>1, <2>2, <3>1, AlongFromRoot
    <3>4. s \in Output!Along(f, y)
      BY <2>4, <3>2, <3>3
    <3> QED BY <2>1, <2>4, <3>4, AlongIs
  <2>8. r \in Output!Along(f, x)
    <3>1. ASSUME NEW i \in 1 .. n PROVE Output!Alike(f, r[i], x[i])
      <4>1. i \in 1 .. Len(c) /\ i <= n
        BY <2>1, <2>2
      <4>2. c[i] = r[i]
        BY <2>1, <4>1, LandsIs
      <4> QED BY <2>5, <2>6, <4>1, <4>2
    <3>2. n <= Len(x)
      BY <2>1, <2>2, <2>5
    <3> QED BY <2>1, <2>2, <3>1, <3>2, AlongIs
  <2>9. t \in Output!Along(f, x) /\ t \in Output!Paths /\ n <= Len(t) /\ Len(t) \in 0 .. Len(x)
        /\ (t \in DOMAIN f.at \/ t = <<>>) /\ \A i \in 1 .. Len(t) : Output!Alike(f, t[i], x[i])
    BY <2>1, <2>8, ReachedIs, AlongIs
  <2>10. Len(t) = n
    <3> SUFFICES ASSUME n < Len(t) PROVE FALSE
      BY <2>2, <2>9
    <3>1. t \in DOMAIN f.at /\ Len(t) \in 1 .. Len(c)
      BY <2>1, <2>2, <2>5, <2>9, RootIs
    <3>2. \A i \in 1 .. Len(t) : Output!Alike(f, t[i], c[i])
      <4> TAKE i \in 1 .. Len(t)
      <4>1. i \in 1 .. Len(x)
        BY <2>9
      <4> QED BY <2>6, <2>9, <4>1, AlikeIs
    <3>3. Len(t) <= n
      BY <2>1, <3>1, <3>2, SpeltOnce
    <3> QED BY <2>2, <2>9, <3>3
  <2>11. t = r
    BY <2>1, <2>8, <2>9, <2>10, AlongIsOne
  <2>12. n < Len(c) /\ Output!Entry(f, r) = Output!Dir
    <3>1. CASE r = <<>>
      BY <2>1, <3>1, RootIs DEF Output!Entry
    <3>2. CASE r # <<>>
      <4>1. r \in DOMAIN f.at /\ n \in 1 .. Len(c)
        BY <2>1, <2>2, <3>2, RootIs
      <4>2. n \in 0 .. n
        BY <4>1
      <4>3. SubSeq(c, 1, n) = SubSeq(r, 1, n)
        BY <2>1, <4>2, LandsIs
      <4>4. SubSeq(r, 1, n) = r
        BY <2>2, SubSeqFull DEF Output!Paths
      <4>5. SubSeq(c, 1, n) \in DOMAIN f.at /\ SubSeq(c, 1, n) = r
        BY <4>1, <4>3, <4>4
      <4> HIDE DEF r, n
      <4>6. f.at[r] = Output!Dir /\ n < Len(c)
        BY <4>1, <4>5, StoredIsDir
      <4> QED BY <3>2, <4>1, <4>6 DEF Output!Entry
    <3> QED BY <3>1, <3>2
  <2>13. l \in Output!Paths /\ Len(l) = Len(x) /\ \A i \in 1 .. Len(l) : i > n => l[i] = x[i]
    <3>1. l \in Output!Paths /\ Len(l) = Len(x) /\ \A i \in 1 .. Len(l) : l[i] = IF i <= Len(t) THEN t[i] ELSE x[i]
      BY LandsIs
    <3> QED BY <2>1, <2>2, <2>10, <3>1
  <2>14. Output!Nearest(f, c) = r
    BY <2>1, <2>12, NearestIsReached
  <2>15. Output!Nearest(f, l) = r
    <3>1. Len(t) < Len(l) /\ Output!Entry(f, t) = Output!Dir
      BY <2>5, <2>11, <2>12, <2>13
    <3>2. Output!Nearest(f, l) = t
      BY <3>1, NearestIsReached
    <3> QED BY <2>11, <3>2
  <2>16. Output!Comparable(f, Output!Rest(c, r)) = Output!Comparable(f, Output!Rest(l, r))
    <3>1. n \in 0 .. Len(c) /\ n \in 0 .. Len(l)
      BY <2>2, <2>5, <2>13
    <3>2. /\ Output!Rest(c, r) \in Output!Paths /\ Len(Output!Rest(c, r)) = Len(c) - n
          /\ \A i \in 1 .. Len(c) - n : Output!Rest(c, r)[i] = c[n + i]
      BY <2>1, <3>1, RestIs
    <3>3. /\ Output!Rest(l, r) \in Output!Paths /\ Len(Output!Rest(l, r)) = Len(l) - n
          /\ \A i \in 1 .. Len(l) - n : Output!Rest(l, r)[i] = l[n + i]
      BY <2>13, <3>1, RestIs
    <3>4. ASSUME NEW i \in 1 .. Len(c) - n PROVE Output!Alike(f, c[n + i], l[n + i])
      <4>1. n + i \in 1 .. Len(x) /\ n + i > n
        BY <2>2, <2>5
      <4> QED BY <2>5, <2>6, <2>13, <4>1
    <3>5. Len(Output!Rest(c, r)) = Len(Output!Rest(l, r))
      BY <2>5, <2>13, <3>2, <3>3
    <3>6. \A i \in 1 .. Len(Output!Rest(c, r)) : Output!Alike(f, Output!Rest(c, r)[i], Output!Rest(l, r)[i])
      BY <2>5, <2>13, <3>2, <3>3, <3>4
    <3> HIDE DEF r
    <3> QED BY <3>2, <3>3, <3>5, <3>6, ComparesAlike
  <2> HIDE DEF r
  <2> QED BY <2>14, <2>15, <2>16
<1> QED BY <1>1, <1>2

(* What is stored before the page is written.                              *)
StoredBefore(f) ==
  /\ f = [at |-> f.at, insensitive |-> f.insensitive, writable |-> f.writable]
  /\ f.at = [p \in DOMAIN f.at |-> f.at[p]]
  /\ \A p \in DOMAIN f.at : p \in Output!Paths /\ p # <<>> /\ Output!IsEntry(f.at[p])
  /\ Output!WellStored(f)

(* What the run starts with and what others make of it is orderly.         *)
LEMMA StoredIsOrderly == ASSUME NEW f, StoredBefore(f) PROVE OrderlyStore(f)
<1>1. \A p \in DOMAIN f.at : p \in Output!Paths /\ p # <<>> /\ Output!IsEntry(f.at[p])
  BY DEF StoredBefore
<1>2. Shaped(f)
  BY <1>1 DEF Output!IsEntry, Shaped
<1>3. \A p \in DOMAIN f.at : \A n \in 1 .. Len(p) - 1 : SubSeq(p, 1, n) \in Output!Parents(p)
  BY <1>1, ParentsAre
<1>4. \A p \in DOMAIN f.at : DOMAIN p = 1 .. Len(p)
  BY <1>1, PathIs
<1>5. Nested(f)
  BY <1>3, <1>4 DEF StoredBefore, Output!WellStored, Nested
<1> QED BY <1>2, <1>5 DEF OrderlyStore

(* The working directory is where it was if the page went below it.        *)
LEMMA DirectoryStays ==
  ASSUME NEW f, OrderlyStore(f), NEW y, NEW c, Absent(f, y, c), NEW g, Grown(f, g, c),
         MaxDepth \in Nat, "*loop*" \notin DOMAIN Fold, NEW z \in Output!Paths,
         Output!Canonical(f, z) # Output!Loop, Output!Inside(Output!Canonical(f, z), c)
  PROVE  Output!Canonical(g, z) = Output!Canonical(f, z)
<1> DEFINE d == Output!Canonical(f, z)
           l == Output!Followed(f, z)
           r == Output!Reached(f, l)
           s == Output!Reached(g, l)
<1>1. /\ OrderlyStore(g) /\ Lands(f, y, c) /\ c \in Output!Paths /\ Len(c) \in Nat
      /\ \A x \in Output!Paths : Output!Follow(g, x) = Output!Follow(f, x)
  BY GrownIsOrderly, GrownReaches, LandsIs, PathIs DEF Absent
<1>2. l \in Output!Paths /\ ~Output!AtLink(f, l) /\ d = Output!Onto(r, l)
  BY CanonicalIs
<1>3. Lands(f, l, d)
  BY <1>2 DEF Lands
<1>4. /\ d \in Output!Paths /\ Len(d) = Len(l) /\ Len(r) \in 0 .. Len(d) /\ Len(l) \in Nat
      /\ \A i \in 1 .. Len(d) : d[i] = IF i <= Len(r) THEN r[i] ELSE l[i]
  BY <1>2, <1>3, LandsIs, PathIs
<1>5. Output!Followed(g, z) = l
  BY <1>1, FollowedAlike
<1>6. ~Output!AtLink(g, l)
  BY <1>2, GrownReaches
<1>7. Output!Canonical(g, z) = Output!Onto(s, l)
  BY <1>1, <1>5, <1>6, CanonicalIs
<1>8. CASE s = r
  BY <1>2, <1>7, <1>8
<1>9. CASE s # r
  <2>1. s \in DOMAIN g.at /\ s \notin DOMAIN f.at
    BY <1>2, <1>9, GrownReaches
  <2>2. s \in Output!Paths /\ Len(s) \in 1 .. Len(c) /\ s = SubSeq(c, 1, Len(s))
    BY <2>1, GrownIs
  <2>3. Len(s) \in 0 .. Len(l)
    BY <1>1, <1>2, ReachedIs, AlongIs
  <2>4. Len(r) <= Len(s)
    <3>1. r \in Output!Along(f, l)
      BY <1>2, ReachedIs
    <3>2. /\ (r \in DOMAIN f.at \/ r = <<>>) /\ Len(r) \in 0 .. Len(l)
          /\ \A i \in 1 .. Len(r) : Output!Alike(f, r[i], l[i])
      BY <1>2, <3>1, AlongIs
    <3>3. \A a, b : Output!Alike(g, a, b) <=> Output!Alike(f, a, b)
      BY DEF Grown, Output!Alike
    <3>4. (r \in DOMAIN g.at \/ r = <<>>) /\ Len(r) <= Len(l)
      BY <1>4, <3>2 DEF Grown
    <3>5. \A i \in 1 .. Len(r) : Output!Alike(g, r[i], l[i])
      BY <3>2, <3>3
    <3>6. r \in Output!Along(g, l)
      BY <1>1, <1>2, <3>4, <3>5, AlongIs
    <3> QED BY <1>1, <1>2, <3>6, ReachedIs
  <2>5. Len(d) <= Len(c) /\ \A i \in 1 .. Len(d) : d[i] = c[i]
    <3>1. Len(d) <= Len(c) /\ SubSeq(c, 1, Len(d)) = d
      BY DEF Output!Inside
    <3>2. Len(d) \in 0 .. Len(c)
      BY <1>1, <1>4, <3>1
    <3>3. \A i \in 1 .. Len(d) : SubSeq(c, 1, Len(d))[i] = c[i]
      BY <1>1, <3>2, PrefixIs
    <3> QED BY <3>1, <3>3
  <2>6. /\ Output!Onto(s, l) \in Output!Paths /\ Len(Output!Onto(s, l)) = Len(l)
        /\ \A i \in 1 .. Len(l) : Output!Onto(s, l)[i] = IF i <= Len(s) THEN s[i] ELSE l[i]
    <3>1. Len(s) <= Len(l)
      BY <1>4, <2>3
    <3> QED BY <1>2, <2>2, <3>1, OntoIs
  <2>7. \A i \in 1 .. Len(s) : s[i] = c[i]
    <3>1. Len(s) \in 0 .. Len(c)
      BY <1>1, <2>2
    <3>2. \A i \in 1 .. Len(s) : SubSeq(c, 1, Len(s))[i] = c[i]
      BY <1>1, <3>1, PrefixIs
    <3> QED BY <2>2, <3>2
  <2>8. ASSUME NEW i \in 1 .. Len(l) PROVE Output!Onto(s, l)[i] = d[i]
    <3>1. CASE i <= Len(s)
      <4>1. i \in 1 .. Len(s)
        BY <2>3, <3>1
      <4> QED BY <1>4, <2>5, <2>6, <2>7, <3>1, <4>1
    <3>2. CASE ~(i <= Len(s))
      <4>1. ~(i <= Len(r))
        BY <1>4, <2>3, <2>4, <3>2
      <4> QED BY <1>4, <2>6, <3>2, <4>1
    <3> QED BY <3>1, <3>2
  <2>9. Output!Onto(s, l) = d
    BY <1>4, <2>6, <2>8, SamePath
  <2> QED BY <1>7, <2>9
<1> QED BY <1>8, <1>9

(* A path that leads to the new file was an alias of it.                   *)
LEMMA NewWasAlias ==
  ASSUME NEW f, OrderlyStore(f), NEW p \in Output!Paths, NEW z \in Output!Paths,
         MaxDepth \in Nat, "*loop*" \notin DOMAIN Fold,
         Output!Canonical(f, z) # Output!Loop,
         Absent(f, Output!Followed(f, p), Output!Canonical(f, p)),
         NEW g, Grown(f, g, Output!Canonical(f, p)),
         Output!Canonical(g, z) = Output!Canonical(f, p), Output!Canonical(f, p) # Output!Loop
  PROVE  Output!FuturePathsAlias(f, p, z)
<1> DEFINE y == Output!Followed(f, p)
           c == Output!Canonical(f, p)
           x == Output!Followed(f, z)
           l == Output!Canonical(f, z)
<1>1. OrderlyStore(g) /\ \A a \in Output!Paths : Output!Follow(g, a) = Output!Follow(f, a)
  BY GrownIsOrderly, GrownReaches
<1>2. x \in Output!Paths /\ ~Output!AtLink(f, x) /\ l = Output!Onto(Output!Reached(f, x), x)
  BY CanonicalIs
<1>3. Lands(f, x, l)
  BY <1>2 DEF Lands
<1>4. Output!Followed(g, z) = x
  BY <1>1, FollowedAlike
<1>5. Output!Canonical(g, z) = c /\ c # Output!Loop
  OBVIOUS
<1>6. c = Output!Onto(Output!Reached(g, x), x)
  BY <1>1, <1>4, <1>5, CanonicalIs
<1>7. Absent(f, y, c) /\ Grown(f, g, c)
  OBVIOUS
<1> HIDE DEF y, c, x, l
<1>8. \/ c = l
      \/ /\ Output!Nearest(f, c) = Output!Nearest(f, l)
         /\ Output!Comparable(f, Output!Rest(c, Output!Nearest(f, c)))
              = Output!Comparable(f, Output!Rest(l, Output!Nearest(f, l)))
  BY <1>3, <1>6, <1>7, LeadsToNew
<1> QED BY <1>8 DEF Output!FuturePathsAlias, c, l

(* What it means that an output is not refused.                            *)
LEMMA RefusalIs ==
  ASSUME NEW f, NEW r, Output!Refusal(f, r) = ""
  PROVE  /\ Output!Canonical(f, r.path) # Output!Loop /\ Output!Canonical(f, Input) # Output!Loop
         /\ ~Output!PathsAlias(f, r.path, Input)
         /\ r.source = "meta" => /\ Output!IsHtml(Output!Canonical(f, r.path))
                                 /\ Output!Canonical(f, Cwd) # Output!Loop
                                 /\ Output!Inside(Output!Canonical(f, Cwd), Output!Canonical(f, r.path))
BY DEF Output!Refusal

(* A canonical path that is stored is what was reached.                    *)
LEMMA StoredIsTarget ==
  ASSUME NEW f, StoredBefore(f), NEW y, NEW c, Lands(f, y, c), c \in DOMAIN f.at
  PROVE  /\ f.at[c] = Output!Dir \/ f.at[c].kind = "file"
         /\ Output!Parents(c) \subseteq DOMAIN f.at
<1> DEFINE r == Output!Reached(f, y)
<1>1. OrderlyStore(f) /\ y \in Output!Paths
  BY StoredIsOrderly DEF Lands
<1>2. c \in Output!Paths /\ c # <<>> /\ Len(c) \in Nat \ {0} /\ Len(r) \in 0 .. Len(c) /\ r \in Output!Paths
  BY <1>1, LandsIs, RootIs, ReachedIs, AlongIs DEF StoredBefore
<1>3. Len(c) \in 1 .. Len(c) /\ SubSeq(c, 1, Len(c)) = c
  BY <1>2, SubSeqFull DEF Output!Paths
<1>4. Len(c) <= Len(r) /\ c = SubSeq(r, 1, Len(c))
  <2>1. Len(c) \in 1 .. Len(c) /\ SubSeq(c, 1, Len(c)) \in DOMAIN f.at
    BY <1>3
  <2>2. Len(c) <= Len(r) /\ SubSeq(c, 1, Len(c)) = SubSeq(r, 1, Len(c))
    BY <1>1, <2>1, StoredIsReached
  <2> QED BY <1>3, <2>2
<1>5. Len(r) = Len(c)
  BY <1>2, <1>4
<1>6. SubSeq(r, 1, Len(r)) = r
  BY <1>2, SubSeqFull DEF Output!Paths
<1>7. c = r
  BY <1>4, <1>5, <1>6
<1>8. Output!Entry(f, c).kind # "link"
  BY <1>7 DEF Lands, Output!AtLink
<1>9. f.at[c].kind # "link"
  BY <1>2, <1>8 DEF Output!Entry
<1>10. \A d \in Output!Parents(c) : d \in DOMAIN f.at
  BY DEF StoredBefore, Output!WellStored
<1> QED BY <1>9, <1>10 DEF StoredBefore, Output!IsEntry

(* What a file is known by.                                                *)
LEMMA FileIs ==
  /\ Output!Dir.kind = "dir" /\ Output!NoEntry.kind = "none"
  /\ \A i : Output!File(i).kind = "file" /\ Output!File(i).ino = i
BY DEF Output!Dir, Output!NoEntry, Output!File

(* Which file a path leads to.                                             *)
LEMMA StatIs ==
  ASSUME NEW f, NEW z, Output!Stat(f, z).kind = "file"
  PROVE  /\ Output!Canonical(f, z) # Output!Loop /\ Output!Canonical(f, z) \in DOMAIN f.at
         /\ Output!Stat(f, z) = f.at[Output!Canonical(f, z)]
<1>1. Output!Canonical(f, z) # Output!Loop /\ Output!Stat(f, z) = Output!Entry(f, Output!Canonical(f, z))
  BY FileIs DEF Output!Stat
<1> QED BY <1>1, FileIs DEF Output!Entry

(* A page that overwrites a file does not overwrite the diagram.           *)
LEMMA OverwrittenIsOther ==
  ASSUME NEW f, StoredBefore(f), NEW p, Output!Canonical(f, p) # Output!Loop,
         Output!Canonical(f, p) \in DOMAIN f.at, f.at[Output!Canonical(f, p)].kind = "file",
         ~Output!PathsAlias(f, p, Input), Output!Stat(f, Input).kind = "file"
  PROVE  Output!Stat(f, Input).ino # f.at[Output!Canonical(f, p)].ino
<1> DEFINE c == Output!Canonical(f, p)
           l == Output!Canonical(f, Input)
<1> SUFFICES ASSUME Output!Stat(f, Input).ino = f.at[c].ino PROVE FALSE
  OBVIOUS
<1>1. l \in DOMAIN f.at /\ Output!Stat(f, Input) = f.at[l] /\ f.at[l].kind = "file"
  BY StatIs
<1>2. c \in DOMAIN f.at /\ f.at[c].kind = "file" /\ c # Output!Loop /\ f.at[l].ino = f.at[c].ino
  BY <1>1
<1>3. f.at[c] = Output!File(f.at[c].ino) /\ f.at[l] = Output!File(f.at[l].ino)
  BY <1>1, <1>2, FileIs DEF StoredBefore, Output!IsEntry
<1>4. Output!Stat(f, p) = f.at[c]
  <2>1. c # <<>>
    BY <1>2 DEF StoredBefore
  <2> QED BY <1>2, <2>1 DEF Output!Stat, Output!Entry
<1>5. ~Output!SameFile(Output!Stat(f, p), Output!Stat(f, Input)) /\ ~Output!FuturePathsAlias(f, p, Input)
  BY DEF Output!PathsAlias
<1>6. f.at[c].ino \in Anonymous
  BY <1>1, <1>2, <1>4, <1>5 DEF Output!SameFile
<1>7. f.at[l] = f.at[c]
  BY <1>2, <1>3
<1>8. l = c
  BY <1>1, <1>2, <1>6, <1>7 DEF StoredBefore, Output!WellStored
<1> QED BY <1>5, <1>8 DEF Output!FuturePathsAlias

(* A page that goes into a new file does not take the place of the         *)
(* diagram.                                                                *)
LEMMA NewIsOther ==
  ASSUME NEW f, StoredBefore(f), NEW p \in Output!Paths, Input \in Output!Paths,
         MaxDepth \in Nat, "*loop*" \notin DOMAIN Fold,
         Output!Canonical(f, Input) # Output!Loop, Output!Canonical(f, p) # Output!Loop,
         ~Output!PathsAlias(f, p, Input),
         Absent(f, Output!Followed(f, p), Output!Canonical(f, p)),
         NEW g, Grown(f, g, Output!Canonical(f, p)), Output!Stat(g, Input).kind = "file"
  PROVE  Output!Stat(g, Input).ino # NewInode
<1> DEFINE c == Output!Canonical(f, p)
           l == Output!Canonical(g, Input)
<1> SUFFICES ASSUME Output!Stat(g, Input).ino = NewInode PROVE FALSE
  OBVIOUS
<1>1. l \in DOMAIN g.at /\ Output!Stat(g, Input) = g.at[l] /\ g.at[l].kind = "file" /\ g.at[l].ino = NewInode
  BY StatIs
<1>2. CASE l \in DOMAIN f.at
  <2>1. g.at[l] = f.at[l]
    BY <1>2 DEF Grown
  <2>2. f.at[l].ino # NewInode
    BY <1>1, <1>2, <2>1, FileIs DEF StoredBefore, Output!IsEntry
  <2> QED BY <1>1, <2>1, <2>2
<1>3. CASE l \notin DOMAIN f.at
  <2>1. l = c
    BY <1>1, <1>3, StoredIsOrderly, GrownIs, FileIs
  <2>2. Output!FuturePathsAlias(f, p, Input)
    BY <2>1, StoredIsOrderly, NewWasAlias
  <2> QED BY <2>2 DEF Output!PathsAlias
<1> QED BY <1>2, <1>3

(* What is true until the page is written, and of the page.                *)
OutputInv ==
  /\ asked \in [path : Outputs, source : {"cli", "meta", "default"}]
  /\ stage \in {"start", "loaded", "guarded", "written", "refused"} /\ late \in BOOLEAN
  /\ stage \in {"start", "loaded", "guarded"} => StoredBefore(fs)
  /\ stage \in {"start", "loaded"} => ~late
  /\ stage = "guarded" /\ ~late => Output!Refusal(fs, asked) = ""
  /\ Output!InputSurvives /\ Output!AuthoredStaysInside

(* The write is as good as the last check.                                 *)
LEMMA WriteIsApart ==
  ASSUME Output!GuardAssumption, OutputInv, Output!Write, ~late
  PROVE  Output!InputSurvives' /\ Output!AuthoredStaysInside'
<1> DEFINE p == asked.path
           c == Output!Canonical(fs, p)
           y == Output!Followed(fs, p)
           e == Output!Entry(fs, c)
           absent == Output!Parents(c) \ DOMAIN fs.at
           blocked == c = Output!Loop \/ e = Output!Dir
                        \/ \E d \in Output!Parents(c) : Output!Entry(fs, d).kind = "file"
           ino == IF e.kind = "file" THEN e.ino ELSE NewInode
           stored == [q \in DOMAIN fs.at \cup absent \cup {c} |->
                        IF q = c THEN Output!File(ino) ELSE IF q \in absent THEN Output!Dir ELSE fs.at[q]]
<1>1. /\ StoredBefore(fs) /\ Output!Refusal(fs, asked) = "" /\ p \in Output!Paths
      /\ Input \in Output!Paths /\ Cwd \in Output!Paths /\ MaxDepth \in Nat /\ "*loop*" \notin DOMAIN Fold
  BY DEF OutputInv, Output!Write, Output!GuardAssumption
<1>2. /\ c # Output!Loop /\ Output!Canonical(fs, Input) # Output!Loop /\ ~Output!PathsAlias(fs, p, Input)
      /\ asked.source = "meta" => /\ Output!IsHtml(c) /\ Output!Canonical(fs, Cwd) # Output!Loop
                                  /\ Output!Inside(Output!Canonical(fs, Cwd), c)
  BY <1>1, RefusalIs
<1>3. OrderlyStore(fs)
  BY <1>1, StoredIsOrderly
<1>4. Lands(fs, y, c) /\ c \in Output!Paths
  BY <1>1, <1>2, <1>3, CanonicalIs DEF Lands
<1>5. CASE blocked /\ stage' = "refused"
  BY <1>5 DEF Output!InputSurvives, Output!AuthoredStaysInside, Output!Written
<1>6. CASE /\ ~blocked /\ stage' = "written" /\ target' = c /\ content' = [i \in {ino} |-> "page"]
           /\ fs' = [fs EXCEPT !.at = stored] /\ asked' = asked
  <2>1. fs'.at = stored /\ fs'.insensitive = fs.insensitive
    <3> HIDE DEF stored
    <3>1. fs = [at |-> fs.at, insensitive |-> fs.insensitive, writable |-> fs.writable]
      BY <1>1 DEF StoredBefore
    <3> QED BY <1>6, <3>1
  <2>2. {i \in DOMAIN content' : content'[i] = "page"} = {ino}
    <3> HIDE DEF ino
    <3> QED BY <1>6
  <2>3. c # <<>>
    BY <1>6 DEF Output!Entry
  <2>4. /\ Output!Stat(fs', Input).kind = "file" => Output!Stat(fs', Input).ino # ino
        /\ asked.source = "meta" => Output!Canonical(fs', Cwd) = Output!Canonical(fs, Cwd)
    <3>1. CASE c \in DOMAIN fs.at
      <4>1. e = fs.at[c]
        BY <2>3, <3>1 DEF Output!Entry
      <4>2. e.kind = "file" /\ absent = {}
        BY <1>1, <1>4, <1>6, <3>1, <4>1, StoredIsTarget
      <4>3. ino = e.ino /\ e = Output!File(e.ino)
        BY <1>1, <3>1, <4>1, <4>2, FileIs DEF StoredBefore, Output!IsEntry
      <4>4. stored = [q \in DOMAIN fs.at |-> fs.at[q]]
        <5>1. DOMAIN fs.at \cup absent \cup {c} = DOMAIN fs.at
          BY <3>1, <4>2
        <5>2. stored = [q \in DOMAIN fs.at |-> IF q = c THEN Output!File(ino) ELSE fs.at[q]]
          BY <4>2, <5>1
        <5>3. \A q \in DOMAIN fs.at : (IF q = c THEN Output!File(ino) ELSE fs.at[q]) = fs.at[q]
          BY <4>1, <4>3
        <5> HIDE DEF stored, ino, c
        <5> QED BY <5>2, <5>3
      <4>5. stored = fs.at
        BY <1>1, <4>4 DEF StoredBefore
      <4> HIDE DEF stored
      <4>6. fs' = fs
        <5>1. fs = [at |-> fs.at, insensitive |-> fs.insensitive, writable |-> fs.writable]
          BY <1>1 DEF StoredBefore
        <5> QED BY <1>6, <4>5, <5>1
      <4> HIDE DEF ino, e, c
      <4>7. Output!Stat(fs, Input).kind = "file" => Output!Stat(fs, Input).ino # fs.at[c].ino
        BY <1>1, <1>2, <3>1, <4>1, <4>2, OverwrittenIsOther DEF c
      <4> QED BY <4>1, <4>3, <4>6, <4>7
    <3>2. CASE c \notin DOMAIN fs.at
      <4>1. e = Output!NoEntry
        BY <2>3, <3>2 DEF Output!Entry
      <4>2. ino = NewInode
        BY <4>1, FileIs
      <4>3. Absent(fs, y, c)
        BY <1>4, <1>6, <2>3, <3>2 DEF Absent
      <4>4. c \notin Output!Parents(c)
        <5>1. \A d \in Output!Parents(c) : Len(d) \in 1 .. Len(c) - 1
          BY <1>4, ParentsAre
        <5> QED BY <1>4, <5>1, PathIs
      <4>5. Grown(fs, fs', c)
        <5> HIDE DEF c, ino
        <5>1. /\ \A q \in DOMAIN fs.at : q # c /\ q \notin absent
              /\ \A q \in absent : q # c /\ q \notin DOMAIN fs.at
          BY <3>2, <4>4
        <5>2. DOMAIN stored = DOMAIN fs.at \cup absent \cup {c}
          OBVIOUS
        <5>3. /\ \A q \in DOMAIN fs.at : stored[q] = fs.at[q]
              /\ \A q \in absent : stored[q] = Output!Dir
              /\ stored[c] = Output!File(ino)
          BY <5>1
        <5> HIDE DEF stored
        <5> QED BY <2>1, <4>2, <5>2, <5>3 DEF Grown
      <4> HIDE DEF ino, e, stored
      <4>6. Output!Stat(fs', Input).kind = "file" => Output!Stat(fs', Input).ino # NewInode
        BY <1>1, <1>2, <4>3, <4>5, NewIsOther
      <4>7. asked.source = "meta" => Output!Canonical(fs', Cwd) = Output!Canonical(fs, Cwd)
        BY <1>1, <1>2, <1>3, <4>3, <4>5, DirectoryStays
      <4> QED BY <4>2, <4>6, <4>7
    <3> QED BY <3>1, <3>2
  <2> HIDE DEF ino, stored, e
  <2>5. Output!InputSurvives'
    BY <2>2, <2>4 DEF Output!InputSurvives
  <2>6. Output!AuthoredStaysInside'
    BY <1>2, <1>6, <2>4 DEF Output!AuthoredStaysInside
  <2> QED BY <2>5, <2>6
<1> HIDE DEF c, e, absent, ino
<1> QED BY <1>5, <1>6 DEF Output!Write, c, e, absent, ino

(* Every step keeps it.                                                    *)
LEMMA OutputStep ==
  ASSUME Output!GuardAssumption, OutputInv, [Output!Next]_Output!vars
  PROVE  OutputInv'
<1>1. CASE UNCHANGED Output!vars
  BY <1>1 DEF Output!vars, OutputInv, Output!InputSurvives, Output!AuthoredStaysInside, Output!Written
<1>2. CASE Output!Load
  <2>1. stage = "start" /\ stage' \in {"loaded", "refused"} /\ UNCHANGED <<fs, asked, late>>
    BY <1>2 DEF Output!Load
  <2>2. Output!InputSurvives' /\ Output!AuthoredStaysInside'
    BY <2>1 DEF Output!InputSurvives, Output!AuthoredStaysInside, Output!Written
  <2> QED BY <2>1, <2>2 DEF OutputInv
<1>3. CASE Output!Outside
  <2>1. /\ stage \in {"loaded", "guarded"} /\ UNCHANGED <<asked, stage>>
        /\ late' = (late \/ stage = "guarded") /\ Output!WellStored(fs')
    BY <1>3 DEF Output!Outside
  <2>2. PICK c \in Alterations :
          fs' = [fs EXCEPT !.at = [p \in (DOMAIN fs.at \ {c.at}) \cup (IF c.entry = Output!NoEntry THEN {} ELSE {c.at}) |->
                                     IF p = c.at THEN c.entry ELSE fs.at[p]]]
    BY <1>3 DEF Output!Outside
  <2> DEFINE paths == (DOMAIN fs.at \ {c.at}) \cup (IF c.entry = Output!NoEntry THEN {} ELSE {c.at})
             stored == [p \in paths |-> IF p = c.at THEN c.entry ELSE fs.at[p]]
  <2>3. StoredBefore(fs)
    BY <2>1 DEF OutputInv
  <2>4. c.at \in Output!Paths /\ c.at # <<>> /\ (c.entry = Output!NoEntry \/ Output!IsEntry(c.entry))
    BY DEF Output!GuardAssumption
  <2>5. DOMAIN stored = paths /\ stored = [p \in DOMAIN stored |-> stored[p]]
    <3> HIDE DEF paths
    <3> QED OBVIOUS
  <2>6. ASSUME NEW p \in paths PROVE p \in Output!Paths /\ p # <<>> /\ Output!IsEntry(stored[p])
    <3>1. CASE p = c.at
      <4>1. c.entry # Output!NoEntry
        BY <2>6, <3>1
      <4>2. stored[p] = c.entry
        BY <3>1
      <4> QED BY <2>4, <3>1, <4>1, <4>2
    <3>2. CASE p # c.at
      <4>1. p \in DOMAIN fs.at
        BY <2>6, <3>2
      <4>2. stored[p] = fs.at[p]
        BY <3>2
      <4> QED BY <2>3, <4>1, <4>2 DEF StoredBefore
    <3> QED BY <3>1, <3>2
  <2>7. fs' = [at |-> stored, insensitive |-> fs.insensitive, writable |-> fs.writable]
    <3>1. fs = [at |-> fs.at, insensitive |-> fs.insensitive, writable |-> fs.writable]
      BY <2>3 DEF StoredBefore
    <3>2. fs' = [fs EXCEPT !.at = stored]
      BY <2>2
    <3> HIDE DEF stored
    <3> QED BY <3>1, <3>2
  <2> HIDE DEF stored, paths
  <2>8. StoredBefore(fs')
    BY <2>1, <2>5, <2>6, <2>7 DEF StoredBefore
  <2>9. Output!InputSurvives' /\ Output!AuthoredStaysInside'
    BY <2>1 DEF Output!InputSurvives, Output!AuthoredStaysInside, Output!Written
  <2> QED BY <2>1, <2>8, <2>9 DEF OutputInv
<1>4. CASE Output!GuardAgain
  <2>1. /\ stage = "loaded" /\ UNCHANGED <<fs, asked, late>>
        /\ stage' = IF Output!Refusal(fs, asked) = "" THEN "guarded" ELSE "refused"
    BY <1>4 DEF Output!GuardAgain
  <2>2. Output!InputSurvives' /\ Output!AuthoredStaysInside'
    BY <2>1 DEF Output!InputSurvives, Output!AuthoredStaysInside, Output!Written
  <2> QED BY <2>1, <2>2 DEF OutputInv
<1>5. CASE Output!Write
  <2>1. stage' \in {"written", "refused"} /\ UNCHANGED <<asked, late>>
    BY <1>5 DEF Output!Write
  <2>2. Output!InputSurvives' /\ Output!AuthoredStaysInside'
    <3>1. CASE late
      BY <2>1, <3>1 DEF Output!InputSurvives, Output!AuthoredStaysInside, Output!Written
    <3>2. CASE ~late
      BY <1>5, <3>2, WriteIsApart
    <3> QED BY <3>1, <3>2
  <2> QED BY <2>1, <2>2 DEF OutputInv
<1> QED BY <1>1, <1>2, <1>3, <1>4, <1>5 DEF Output!Next

(* What is written is not the diagram, and an output that the diagram      *)
(* names is an .html file below the working directory, in every file       *)
(* system (resolveOutputPath, writeDiagram).                               *)
THEOREM OutputHolds ==
  Output!GuardAssumption /\ Output!Spec => [](Output!InputSurvives /\ Output!AuthoredStaysInside)
<1> SUFFICES ASSUME Output!GuardAssumption
             PROVE  Output!Spec => [](Output!InputSurvives /\ Output!AuthoredStaysInside)
  OBVIOUS
<1>1. Output!Init => OutputInv
  <2> SUFFICES ASSUME Output!Init PROVE OutputInv
    OBVIOUS
  <2>1. fs.at \in Systems /\ fs = [at |-> fs.at, insensitive |-> fs.insensitive, writable |-> fs.writable]
    BY DEF Output!Init
  <2>2. StoredBefore(fs)
    BY <2>1 DEF Output!Init, Output!GuardAssumption, StoredBefore
  <2> QED BY <2>2 DEF Output!Init, OutputInv, Output!InputSurvives, Output!AuthoredStaysInside, Output!Written
<1>2. OutputInv /\ [Output!Next]_Output!vars => OutputInv'
  BY OutputStep
<1>3. OutputInv => Output!InputSurvives /\ Output!AuthoredStaysInside
  BY DEF OutputInv
<1> QED BY <1>1, <1>2, <1>3, PTL DEF Output!Spec
-----------------------------------------------------------------------------
(* From a part to the tool: a behaviour of Archify is one of a single      *)
(* part, whose specification it satisfies, or it is not about that part.   *)

(* No step leads from one part to another.                                 *)
LEMMA WorldStays == [Next]_everything => UNCHANGED world
  BY DEF Next, everything, OnlyCache, OnlyOutput, OnlyBrand,
         OnlyRelease, OnlyEvidence, OnlyLifelines, OnlyFrames, OnlyDelta, OnlyReview

(* In the world of brand a behaviour is one of Brand, whose fairness       *)
(* the safety of this part does not need.                                  *)
LEMMA BrandRuns == Spec => (Brand!Init /\ [][Brand!Next]_Brand!vars) \/ []~(world = "brand")
<1>1. Init /\ world = "brand" => Brand!Init
  BY DEF Init
<1>2. world = "brand" /\ [Next]_everything => [Brand!Next]_Brand!vars /\ (world = "brand")'
  BY WorldStays DEF Next, everything, brandVars, Brand!vars, OnlyCache, OnlyOutput, OnlyBrand,
         OnlyRelease, OnlyEvidence, OnlyLifelines, OnlyFrames, OnlyDelta, OnlyReview
<1>3. ~(world = "brand") /\ [Next]_everything => ~(world = "brand")'
  BY WorldStays
<1> QED BY <1>1, <1>2, <1>3, PTL DEF Spec

(* In the world of output a behaviour is one of Output.                    *)
LEMMA OutputRuns == Spec => Output!Spec \/ []~(world = "output")
<1>1. Init /\ world = "output" => Output!Init
  BY DEF Init
<1>2. world = "output" /\ [Next]_everything => [Output!Next]_Output!vars /\ (world = "output")'
  BY WorldStays DEF Next, everything, outputVars, Output!vars, OnlyCache, OnlyOutput, OnlyBrand,
         OnlyRelease, OnlyEvidence, OnlyLifelines, OnlyFrames, OnlyDelta, OnlyReview
<1>3. ~(world = "output") /\ [Next]_everything => ~(world = "output")'
  BY WorldStays
<1> QED BY <1>1, <1>2, <1>3, PTL DEF Spec, Output!Spec

(* In the world of release a behaviour is one of Release.                  *)
LEMMA ReleaseRuns == Spec => Release!Spec \/ []~(world = "release")
<1>1. Init /\ world = "release" => Release!Init
  BY DEF Init
<1>2. world = "release" /\ [Next]_everything => [Release!Next]_Release!vars /\ (world = "release")'
  BY WorldStays DEF Next, everything, releaseVars, Release!vars, OnlyCache, OnlyOutput, OnlyBrand,
         OnlyRelease, OnlyEvidence, OnlyLifelines, OnlyFrames, OnlyDelta, OnlyReview
<1>3. ~(world = "release") /\ [Next]_everything => ~(world = "release")'
  BY WorldStays
<1> QED BY <1>1, <1>2, <1>3, PTL DEF Spec, Release!Spec

(* In the world of evidence a behaviour is one of Evidence.                *)
LEMMA EvidenceRuns == Spec => Evidence!Spec \/ []~(world = "evidence")
<1>1. Init /\ world = "evidence" => Evidence!Init
  BY DEF Init
<1>2. world = "evidence" /\ [Next]_everything => [Evidence!Next]_Evidence!vars /\ (world = "evidence")'
  BY WorldStays DEF Next, everything, evidenceVars, Evidence!vars, OnlyCache, OnlyOutput, OnlyBrand,
         OnlyRelease, OnlyEvidence, OnlyLifelines, OnlyFrames, OnlyDelta, OnlyReview
<1>3. ~(world = "evidence") /\ [Next]_everything => ~(world = "evidence")'
  BY WorldStays
<1> QED BY <1>1, <1>2, <1>3, PTL DEF Spec, Evidence!Spec

(* In the world of review a behaviour is one of Review, whose fairness     *)
(* the safety of this part does not need.                                  *)
LEMMA ReviewRuns == Spec => (Review!Init /\ [][Review!Next]_Review!vars) \/ []~(world = "review")
<1>1. Init /\ world = "review" => Review!Init
  BY DEF Init
<1>2. world = "review" /\ [Next]_everything => [Review!Next]_Review!vars /\ (world = "review")'
  BY WorldStays DEF Next, everything, reviewVars, Review!vars, Review!page, Review!world, OnlyCache, OnlyOutput, OnlyBrand,
         OnlyRelease, OnlyEvidence, OnlyLifelines, OnlyFrames, OnlyDelta, OnlyReview
<1>3. ~(world = "review") /\ [Next]_everything => ~(world = "review")'
  BY WorldStays
<1> QED BY <1>1, <1>2, <1>3, PTL DEF Spec

(* In the world of cache a behaviour is one of Cache.                      *)
LEMMA CacheRuns == Spec => Cache!Spec \/ []~(world = "cache")
<1>1. Init /\ world = "cache" => Cache!Init
  BY DEF Init
<1>2. world = "cache" /\ [Next]_everything => [Cache!Next]_Cache!vars /\ (world = "cache")'
  BY WorldStays DEF Next, everything, cacheVars, Cache!vars, OnlyCache, OnlyOutput, OnlyBrand,
         OnlyRelease, OnlyEvidence, OnlyLifelines, OnlyFrames, OnlyDelta, OnlyReview
<1>3. ~(world = "cache") /\ [Next]_everything => ~(world = "cache")'
  BY WorldStays
<1> QED BY <1>1, <1>2, <1>3, PTL DEF Spec, Cache!Spec

(* What is drawn of a pinned brand is the image that was pinned, and no    *)
(* capture goes on for more than a tick past the deadline                  *)
(* (prepareDiagramBrandMarks).                                             *)
THEOREM MarksCorrect == Spec => []DrawnIsPinned
<1>1. DrawnIsPinned <=> ~(world = "brand") \/ (Brand!DrawnIsPinned /\ Brand!InTime)
  BY DEF DrawnIsPinned
<1>2. Brand!CaptureAssumption
  BY InstancesAreLegal DEF ConstantsAreLegal
<1>3. Brand!Init /\ [][Brand!Next]_Brand!vars => [](Brand!DrawnIsPinned /\ Brand!InTime)
  BY <1>2, BrandCorrect
<1> QED BY <1>1, <1>3, BrandRuns, PTL

(* The source of a diagram is never overwritten by its output, and the     *)
(* output an author names stays in the working directory                   *)
(* (resolveOutputPath, writeDiagram).                                      *)
THEOREM OutputCorrect == Spec => []OutputIsApart
<1>1. OutputIsApart <=> ~(world = "output") \/ (Output!InputSurvives /\ Output!AuthoredStaysInside)
  BY DEF OutputIsApart
<1>2. Output!GuardAssumption
  BY InstancesAreLegal DEF ConstantsAreLegal
<1>3. Output!Spec => [](Output!InputSurvives /\ Output!AuthoredStaysInside)
  BY <1>2, OutputHolds
<1> QED BY <1>1, <1>3, OutputRuns, PTL

(* What is offered as an update is a newer stable release, whatever the    *)
(* server sends (validateStableUpdateManifest, compareSemver).             *)
THEOREM OffersCorrect == Spec => []OffersAreUpgrades
<1>1. OffersAreUpgrades <=> ~(world = "release") \/ Release!OffersAreUpgrades
  BY DEF OffersAreUpgrades
<1>2. Release!ReleaseAssumption
  BY InstancesAreLegal DEF ConstantsAreLegal
<1>3. Release!Spec => []Release!OffersAreUpgrades
  BY <1>2, ReleasesOrdered
<1> QED BY <1>1, <1>3, ReleaseRuns, PTL

(* Verified evidence names lines of files as of the pinned commit, under   *)
(* the remote that was asked for (verifyRepositoryEvidence).               *)
THEOREM EvidenceCorrect == Spec => []EvidenceIsPinned
<1>1. EvidenceIsPinned <=> ~(world = "evidence") \/ (Evidence!EvidenceIsPinned)
  BY DEF EvidenceIsPinned
<1>2. Evidence!EvidenceAssumption
  BY InstancesAreLegal DEF ConstantsAreLegal
<1>3. Evidence!Spec => [](Evidence!EvidenceIsPinned)
  BY <1>2, EvidenceHolds
<1> QED BY <1>1, <1>3, EvidenceRuns, PTL

(* One timeout of the playback is to come at most, and the one change that *)
(* is marked is the one shown (architecture-delta.mjs).                    *)
THEOREM ReviewCorrect == Spec => []ReviewIsSingle
<1>1. ReviewIsSingle <=> ~(world = "review") \/ (Review!ReviewIsSingle)
  BY DEF ReviewIsSingle
<1>2. Review!ReviewAssumption
  BY InstancesAreLegal DEF ConstantsAreLegal
<1>3. Review!Init /\ [][Review!Next]_Review!vars => [](Review!ReviewIsSingle)
  BY <1>2, ReviewHolds
<1> QED BY <1>1, <1>3, ReviewRuns, PTL

(* If at most one thing is replaced from outside, an operation on the      *)
(* cache that reports success acted on what the command had inspected      *)
(* (guardedCacheMutation).                                                 *)
THEOREM GuardCorrect ==
  ASSUME MaxSwaps <= 1
  PROVE  Spec => []DoneMeansInspected
<1>1. DoneMeansInspected <=> ~(world = "cache") \/ Cache!DoneMeansInspected
  BY DEF DoneMeansInspected
<1>2. Cache!GuardAssumption
  BY InstancesAreLegal DEF ConstantsAreLegal
<1>3. Cache!Spec => []Cache!DoneMeansInspected
  BY <1>2, OneSwapIsSeen
<1> QED BY <1>1, <1>3, CacheRuns, PTL
=============================================================================
