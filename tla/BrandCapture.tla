--------------------------- MODULE BrandCapture -----------------------------
(***************************************************************************)
(* The marks of the brands a diagram names, before it is rendered: a few   *)
(* workers go through the nodes; a mark that is pinned to a digest is      *)
(* fetched again from its page, once per address, before one deadline for  *)
(* all of them.  What the network answers, and when, is open.              *)
(***************************************************************************)
EXTENDS Naturals, Sequences, FiniteSets

CONSTANTS
  Brands,        \* what the nodes name, a sequence
  Workers,       \* MAX_CAPTURE_CONCURRENCY of them
  Urls,          \* the addresses of the pinned brands
  Digests,       \* what an image may hash to
  MaxRedirects,  \* how many a request follows
  MaxIcons,      \* how many icons of a page are tried
  Deadline,      \* when the capture of the diagram is over
  Patience,      \* how long one request may take
  Idle           \* a worker between two nodes

(* A node names no brand, a preset, a page that was never pinned, one the  *)
(* tool does not know, or a page with the digest of its image.             *)
CaptureAssumption ==
  /\ MaxRedirects \in Nat /\ MaxIcons \in Nat /\ Deadline \in Nat /\ Patience \in Nat \ {0}
  /\ Brands \in Seq([kind : {"none", "preset", "unpinned", "strange"}]
                      \cup [kind : {"pinned"}, url : Urls, digest : Digests])
  /\ Idle \notin Nat

VARIABLES
  now,      \* the clock
  cursor,   \* the next node no worker has taken
  worker,   \* the node a worker waits for, Idle, or "gone"
  capture,  \* address -> the capture of its page
  unknown,  \* the faults, in the order in which they were met
  mark,     \* the marks that were resolved: node -> digest or "preset"
  outcome   \* "", "drawn" or "refused"

vars == <<now, cursor, worker, capture, unknown, mark, outcome>>

Nodes == DOMAIN Brands
Preset == [kind |-> "preset"]
Unpinned == [kind |-> "unpinned"]
Strange == [kind |-> "strange"]
Pinned(url, digest) == [kind |-> "pinned", url |-> url, digest |-> digest]

(* A capture: what it asks for ("page", or the icon of that number), which *)
(* await it is in, how many redirects it followed, how many icons there    *)
(* are, when the await gives up, and what came of it.                      *)
Uncaptured ==
  [status |-> "none", icon |-> 0, await |-> "", redirects |-> 0, icons |-> 0,
   until |-> 0, digest |-> ""]
-----------------------------------------------------------------------------
Init ==
  /\ now = 0 /\ cursor = 1
  /\ worker = [w \in Workers |-> Idle]
  /\ capture = [u \in Urls |-> Uncaptured]
  /\ unknown = <<>> /\ mark = [n \in {} |-> ""] /\ outcome = ""

Least(a, b) == IF a < b THEN a ELSE b

(* captureRemoteBrand, for the reason a capture of nothing ends with.      *)
Unavailable(c) == [c EXCEPT !.status = "unavailable", !.await = ""]

(* An icon that cannot be used is followed by the next one; a page that    *)
(* cannot be read ends the capture.                                        *)
AfterFailure(c, t) ==
  IF c.icon = 0 \/ c.icon = c.icons \/ t >= Deadline THEN Unavailable(c)
  ELSE [c EXCEPT !.icon = @ + 1, !.await = "lookup", !.redirects = 0, !.until = Deadline]

(* checkedFetch, one turn of its loop: nothing is asked after the          *)
(* deadline.  An icon that is due after it fails like the ones before.     *)
Ask(c, t) ==
  IF t >= Deadline THEN Unavailable(c)
  ELSE [c EXCEPT !.await = "lookup", !.until = Deadline]

(* requestPinned: aborted after its patience or at the deadline, and after *)
(* one tick when that has passed.                                          *)
Requested(c, t) ==
  [c EXCEPT !.await = "response",
            !.until = IF t < Deadline THEN Least(t + Patience, Deadline) ELSE t + 1]
-----------------------------------------------------------------------------
Busy(u) == capture[u].status = "running"
Until(u, c) == capture' = [capture EXCEPT ![u] = c]
Elsewhere == UNCHANGED <<now, cursor, worker, unknown, mark, outcome>>

(* resolveRequestTarget: the name has an address that may be asked, or not.*)
Looked(u) ==
  /\ Busy(u) /\ capture[u].await = "lookup"
  /\ \E c \in {Requested(capture[u], now), AfterFailure(capture[u], now)} : Until(u, c)
  /\ Elsewhere

(* The head of the answer: a redirect, an error, a page, or what should be *)
(* an image; a page may declare itself too large.                          *)
Redirected(u) ==
  /\ Busy(u) /\ capture[u].await = "response"
  /\ Until(u, IF capture[u].redirects = MaxRedirects THEN AfterFailure(capture[u], now)
              ELSE Ask([capture[u] EXCEPT !.redirects = @ + 1], now))
  /\ Elsewhere

Answered(u) ==
  /\ Busy(u) /\ capture[u].await = "response"
  /\ \E body \in {"image", "html", "other"} :
       Until(u, IF body = "image" THEN [capture[u] EXCEPT !.await = "image"]
                ELSE IF body = "html" /\ capture[u].icon = 0
                THEN [capture[u] EXCEPT !.await = "html"]
                ELSE AfterFailure(capture[u], now))
  /\ Elsewhere

(* readLimited, imageData: the bytes are what they say they are, or not.   *)
ReadImage(u) ==
  /\ Busy(u) /\ capture[u].await = "image"
  /\ \/ \E d \in Digests :
          Until(u, [capture[u] EXCEPT !.status = "captured", !.await = "", !.digest = d])
     \/ Until(u, AfterFailure(capture[u], now))
  /\ Elsewhere

(* iconCandidates: the icons the page declares, and /favicon.ico.          *)
ReadPage(u) ==
  /\ Busy(u) /\ capture[u].await = "html"
  /\ \/ \E n \in 1..MaxIcons :
          Until(u, Ask([capture[u] EXCEPT !.icon = 1, !.icons = n, !.redirects = 0], now))
     \/ Until(u, Unavailable(capture[u]))
  /\ Elsewhere

(* Mutant: the limit of a request is that of its head.                     *)
GiveUpOnHead(u) ==
  /\ Busy(u) /\ now >= capture[u].until /\ capture[u].await \in {"lookup", "response"}
  /\ Until(u, AfterFailure(capture[u], now))
  /\ Elsewhere

(* An await runs into its limit: the lookup, the request, or the body that *)
(* the abort of its request ends too.                                      *)
GiveUp(u) ==
  /\ Busy(u) /\ now >= capture[u].until
  /\ Until(u, AfterFailure(capture[u], now))
  /\ Elsewhere

(* Time passes; a timer that has run out is served first.                  *)
Tick ==
  /\ outcome = ""
  /\ \A u \in Urls : Busy(u) => now < capture[u].until
  /\ \E u \in Urls : Busy(u)
  /\ now' = now + 1
  /\ UNCHANGED <<cursor, worker, capture, unknown, mark, outcome>>
-----------------------------------------------------------------------------
(* mapConcurrent: a worker that is free takes the next node; what needs no *)
(* request is settled at once.                                             *)
Fault(n, code) == unknown' = Append(unknown, <<n, code>>)

Take(w) ==
  /\ worker[w] = Idle /\ cursor \in Nodes /\ outcome = ""
  /\ cursor' = cursor + 1
  /\ LET b == Brands[cursor] IN
       /\ mark' = IF b.kind = "preset"
                  THEN [n \in DOMAIN mark \cup {cursor} |->
                          IF n = cursor THEN "preset" ELSE mark[n]] ELSE mark
       /\ IF b.kind \in {"unpinned", "strange"} THEN Fault(cursor, b.kind)
          ELSE UNCHANGED unknown
       /\ IF b.kind = "pinned"
          THEN /\ worker' = [worker EXCEPT ![w] = cursor]
               /\ capture' = IF capture[b.url].status = "none"
                             THEN [capture EXCEPT ![b.url] =
                                     Ask([Uncaptured EXCEPT !.status = "running"], now)]
                             ELSE capture
          ELSE UNCHANGED <<worker, capture>>
  /\ UNCHANGED <<now, outcome>>

(* Mutant: what was captured is the mark, whatever its digest.             *)
SettlesCaptured(c, b) == IF c.status = "captured" THEN "" ELSE "unavailable"

(* prepareDiagramBrandMarks, after the await of a capture.                 *)
Settles(c, b) ==
  IF c.status # "captured" THEN "unavailable"
  ELSE IF c.digest # b.digest THEN "digest" ELSE ""

Resume(w) ==
  /\ worker[w] \in Nodes
  /\ LET n == worker[w]
         c == capture[Brands[n].url]
     IN /\ c.status \in {"captured", "unavailable"}
        /\ IF Settles(c, Brands[n]) = ""
           THEN /\ mark' = [m \in DOMAIN mark \cup {n} |-> IF m = n THEN c.digest ELSE mark[m]]
                /\ UNCHANGED unknown
           ELSE Fault(n, Settles(c, Brands[n])) /\ UNCHANGED mark
  /\ worker' = [worker EXCEPT ![w] = Idle]
  /\ UNCHANGED <<now, cursor, capture, outcome>>

(* Promise.all: every worker has gone through its nodes.                   *)
Finish ==
  /\ outcome = "" /\ cursor \notin Nodes
  /\ \A w \in Workers : worker[w] = Idle
  /\ outcome' = IF unknown = <<>> THEN "drawn" ELSE "refused"
  /\ UNCHANGED <<now, cursor, worker, capture, unknown, mark>>

Next ==
  \/ Tick \/ Finish
  \/ \E w \in Workers : Take(w) \/ Resume(w)
  \/ \E u \in Urls : Looked(u) \/ Redirected(u) \/ Answered(u) \/ ReadImage(u)
                       \/ ReadPage(u) \/ GiveUp(u)

(* The clock goes on, what is due is served, and the network may never     *)
(* answer.                                                                 *)
Spec ==
  /\ Init /\ [][Next]_vars
  /\ WF_vars(Tick) /\ WF_vars(Finish)
  /\ \A w \in Workers : WF_vars(Take(w) \/ Resume(w))
  /\ \A u \in Urls : WF_vars(GiveUp(u))
-----------------------------------------------------------------------------
(* A diagram is drawn only when every brand it names has its mark, and the *)
(* mark of a pinned one is the image that was pinned, in whichever order   *)
(* the captures ended.                                                     *)
DrawnIsPinned ==
  outcome = "drawn" =>
    \A n \in Nodes :
      /\ Brands[n].kind # "none" => n \in DOMAIN mark
      /\ Brands[n].kind = "pinned" => mark[n] = Brands[n].digest

(* No capture outlives the deadline of the diagram by more than a moment,  *)
(* redirects, icons and all.                                               *)
InTime == \A u \in Urls : Busy(u) => now <= Deadline + 1

(* The command ends even when nothing on the network ever answers.         *)
Ends == <>(outcome # "")
=============================================================================
