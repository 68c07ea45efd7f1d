----------------------------- MODULE IrisEgress -----------------------------
(***************************************************************************)
(* What one send may come to (internal/irisfast/egress.go, client.go) and  *)
(* what a board, a text followed by an image, may come to                  *)
(* (internal/adapter/chesspresenter/presenter.go).  An outcome is how many *)
(* copies reach the chat and whether the caller gets an error; the gateway *)
(* may carry a request out and its answer be lost.  Deadlines and back-off *)
(* decide only which outcome it is.                                        *)
(***************************************************************************)
EXTENDS Naturals

CONSTANTS Transport,  \* "http", "ws" or "auto"
          DryRun,     \* the WebSocket egress only logs
          RetryMax    \* Client.retryMax

ASSUME EgressAssumption == /\ Transport \in {"http", "ws", "auto"}
                           /\ DryRun \in BOOLEAN
                           /\ RetryMax \in Nat

Got(n, e) == [copies |-> n, ok |-> e]

(* The gateway's part in one request: an answer of 2xx, a status that       *)
(* shouldRetryStatus knows, another status, no answer in time.              *)
Answer == [status : {"2xx"}, carriedOut : {TRUE}]
          \cup [status : {"retry", "none"}, carriedOut : BOOLEAN]
          \cup [status : {"refused"}, carriedOut : {FALSE}]

Copy(a) == IF a.carriedOut THEN 1 ELSE 0

\* doJSON with n attempts left.
DoJSON[n \in Nat] ==
    {Got(Copy(a), a.status = "2xx") : a \in Answer}
    \cup (IF n <= 1 THEN {}
          ELSE {Got(Copy(a) + o.copies, o.ok) :
                  a \in {b \in Answer : b.status \in {"retry", "none"}},
                  o \in DoJSON[n - 1]})

\* Replies are not retried; Decrypt, which is, is used by nobody here.
Attempts(retry) == IF retry /\ RetryMax > 0 THEN RetryMax ELSE 1

SendHTTP == DoJSON[Attempts(FALSE)]

(* A write on the socket: it may be on its way when it fails, and be lost   *)
(* after it succeeded.  Not connected is an error.                          *)
Write == IF DryRun THEN {Got(0, TRUE)} ELSE {Got(c, e) : c \in {0, 1}, e \in BOOLEAN}

SendWS == IF DryRun THEN Write ELSE Write \cup {Got(0, FALSE)}

(* autoEgress: the socket if it is connected, and what fails there goes     *)
(* over HTTP once, also what had arrived.                                   *)
SendAuto == SendHTTP
            \cup {w \in Write : w.ok}
            \cup {Got(w.copies + o.copies, o.ok) :
                    w \in {v \in Write : ~v.ok}, o \in SendHTTP}

Sent == CASE Transport = "ws"   -> SendWS
          [] Transport = "auto" -> SendAuto
          [] Transport = "http" -> SendHTTP

(* Presenter.Board: an error of the text keeps the image from being sent,   *)
(* and the text of the fallback follows any error.                          *)
Board(withText) ==
    LET texts == IF withText THEN Sent ELSE {Got(0, TRUE)}
        image == {[texts |-> t.copies, boards |-> i.copies, ok |-> i.ok] :
                    t \in {u \in texts : u.ok}, i \in Sent}
        failed == {[texts |-> t.copies, boards |-> 0, ok |-> FALSE] :
                    t \in {u \in texts : ~u.ok}}
    IN  {b \in image : b.ok}
        \cup {[b EXCEPT !.texts = @ + (IF withText THEN o.copies ELSE 0)] :
                b \in failed \cup {c \in image : ~c.ok}, o \in Sent}
=============================================================================
