--------------------------- MODULE HttpFetchProofs ---------------------------
(***************************************************************************)
(* For every server, every set of URLs and limits, and every failing call: *)
(* a fetch that has returned holds nothing, a success is a whole answer,   *)
(* the redirects stay within their limit, and a size within its own is not *)
(* refused where the sum the code compares with does not wrap.             *)
(*                                                                         *)
(* FetchInv says for each place of the call what is held there: HeldInv of *)
(* resources and strings, AnswerInv of the answer, LimitInv of the hops    *)
(* left and of the size at which an answer is refused.  Each action keeps  *)
(* each part, and the properties are what the parts say of a call that has *)
(* returned.                                                               *)
(***************************************************************************)
EXTENDS HttpFetch, TLAPS

LEMMA InitHolds == Init => FetchInv
  BY FetchAssumption DEF Init, FetchInv, Effective, NoResponse, TypeOK, HeldInv,
     AnswerInv, LimitInv, Before, Getting, After, Over, Resources, Errors

\* The copy of the URL is made, or the call ends with nothing.
LEMMA CopyStep ==
  ASSUME FetchInv, Copy
  PROVE  FetchInv'
<1> USE DEF FetchInv, Before, Getting, After, Over, Copy, Stream
<1>1. TypeOK'
  BY FetchAssumption DEF TypeOK, Resources, Errors
<1>2. HeldInv'
  BY FetchAssumption DEF TypeOK, HeldInv
<1>3. AnswerInv'
  BY FetchAssumption DEF TypeOK, HeldInv, AnswerInv, Success, Complete, Https
<1>4. LimitInv'
  BY FetchAssumption DEF TypeOK, LimitInv, TooLarge, LimitFits, Errors
<1> QED BY <1>1, <1>2, <1>3, <1>4

\* A hop begins: one more request, one redirect less to come.
LEMMA BeginStep ==
  ASSUME FetchInv, Begin
  PROVE  FetchInv'
<1> USE DEF FetchInv, Before, Getting, After, Over, Begin, Stream, parse_http_url
<1>1. TypeOK'
  BY FetchAssumption DEF TypeOK, Resources, Errors
<1>2. HeldInv'
  BY FetchAssumption DEF TypeOK, HeldInv
<1>3. AnswerInv'
  BY FetchAssumption DEF TypeOK, HeldInv, AnswerInv, Success, Complete, Https
<1>4. LimitInv'
  BY FetchAssumption DEF TypeOK, LimitInv, TooLarge, LimitFits, Errors
<1> QED BY <1>1, <1>2, <1>3, <1>4

LEMMA ResolveStep ==
  ASSUME FetchInv, Resolve
  PROVE  FetchInv'
<1> USE DEF FetchInv, Before, Getting, After, Over, Resolve, Go, Local, Stream
<1>1. TypeOK'
  BY FetchAssumption DEF TypeOK, Resources, Errors
<1>2. HeldInv'
  BY FetchAssumption DEF TypeOK, HeldInv
<1>3. AnswerInv'
  BY FetchAssumption DEF TypeOK, HeldInv, AnswerInv, Success, Complete, Https
<1>4. LimitInv'
  BY FetchAssumption DEF TypeOK, LimitInv, TooLarge, LimitFits, Errors
<1> QED BY <1>1, <1>2, <1>3, <1>4

LEMMA SocketStep ==
  ASSUME FetchInv, Socket
  PROVE  FetchInv'
<1> USE DEF FetchInv, Before, Getting, After, Over, Socket, Go, Fail, Local, Stream
<1>1. TypeOK'
  BY FetchAssumption DEF TypeOK, Resources, Errors
<1>2. HeldInv'
  BY FetchAssumption DEF TypeOK, HeldInv
<1>3. AnswerInv'
  BY FetchAssumption DEF TypeOK, HeldInv, AnswerInv, Success, Complete, Https
<1>4. LimitInv'
  BY FetchAssumption DEF TypeOK, LimitInv, TooLarge, LimitFits, Errors
<1> QED BY <1>1, <1>2, <1>3, <1>4

LEMMA ConnectStep ==
  ASSUME FetchInv, Connect
  PROVE  FetchInv'
<1> USE DEF FetchInv, Before, Getting, After, Over, Connect, Go, Fail, Local, Stream
<1>1. TypeOK'
  BY FetchAssumption DEF TypeOK, Resources, Errors
<1>2. HeldInv'
  BY FetchAssumption DEF TypeOK, HeldInv
<1>3. AnswerInv'
  BY FetchAssumption DEF TypeOK, HeldInv, AnswerInv, Success, Complete, Https
<1>4. LimitInv'
  BY FetchAssumption DEF TypeOK, LimitInv, TooLarge, LimitFits, Errors
<1> QED BY <1>1, <1>2, <1>3, <1>4

LEMMA TlsStep ==
  ASSUME FetchInv, Tls
  PROVE  FetchInv'
<1> USE DEF FetchInv, Before, Getting, After, Over, Tls, Go, Fail, Local, Stream
<1>1. TypeOK'
  BY FetchAssumption DEF TypeOK, Resources, Errors
<1>2. HeldInv'
  BY FetchAssumption DEF TypeOK, HeldInv
<1>3. AnswerInv'
  BY FetchAssumption DEF TypeOK, HeldInv, AnswerInv, Success, Complete, Https
<1>4. LimitInv'
  BY FetchAssumption DEF TypeOK, LimitInv, TooLarge, LimitFits, Errors
<1> QED BY <1>1, <1>2, <1>3, <1>4

LEMMA HandshakeStep ==
  ASSUME FetchInv, Handshake
  PROVE  FetchInv'
<1> USE DEF FetchInv, Before, Getting, After, Over, Handshake, Go, Fail, Local, Stream
<1>1. TypeOK'
  BY FetchAssumption DEF TypeOK, Resources, Errors
<1>2. HeldInv'
  BY FetchAssumption DEF TypeOK, HeldInv
<1>3. AnswerInv'
  BY FetchAssumption DEF TypeOK, HeldInv, AnswerInv, Success, Complete, Https
<1>4. LimitInv'
  BY FetchAssumption DEF TypeOK, LimitInv, TooLarge, LimitFits, Errors
<1> QED BY <1>1, <1>2, <1>3, <1>4

LEMMA SendStep ==
  ASSUME FetchInv, Send
  PROVE  FetchInv'
<1> USE DEF FetchInv, Before, Getting, After, Over, Send, Go, Fail, Local, Stream
<1>1. TypeOK'
  BY FetchAssumption DEF TypeOK, Resources, Errors
<1>2. HeldInv'
  BY FetchAssumption DEF TypeOK, HeldInv
<1>3. AnswerInv'
  BY FetchAssumption DEF TypeOK, HeldInv, AnswerInv, Success, Complete, Https
<1>4. LimitInv'
  BY FetchAssumption DEF TypeOK, LimitInv, TooLarge, LimitFits, Errors
<1> QED BY <1>1, <1>2, <1>3, <1>4

LEMMA AllocStep ==
  ASSUME FetchInv, Alloc
  PROVE  FetchInv'
<1> USE DEF FetchInv, Before, Getting, After, Over, Go, Fail, Local, Stream
<1>a. \/ /\ pc = "alloc" /\ Go("receive", {"buf"})
         /\ response' \in Responses /\ cap' = InitBuf /\ total' = 0 /\ ended' = "no"
      \/ pc = "alloc" /\ Fail("ENOMEM") /\ UNCHANGED Stream
  BY DEF Alloc
<1>b. InitBuf \in Nat /\ 2 * InitBuf < Word
  BY FetchAssumption
<1>1. TypeOK'
  <2>1. CASE Go("receive", {"buf"}) /\ response' \in Responses /\ cap' = InitBuf
             /\ total' = 0 /\ ended' = "no"
    BY <1>b, <2>1 DEF TypeOK, Resources
  <2>2. CASE Fail("ENOMEM") /\ UNCHANGED Stream
    BY <2>2 DEF TypeOK, Resources, Errors
  <2> QED BY <1>a, <2>1, <2>2
<1>2. HeldInv'
  BY <1>a, FetchAssumption DEF TypeOK, HeldInv
<1>3. AnswerInv'
  BY <1>a, FetchAssumption DEF TypeOK, HeldInv, AnswerInv, Success, Complete, Https
<1>4. LimitInv'
  BY <1>a, FetchAssumption DEF TypeOK, LimitInv, TooLarge, LimitFits, Errors
<1> QED BY <1>1, <1>2, <1>3, <1>4

\* A sum of two sizes that is still a size is not changed by wrapping.
LEMMA NoWrap ==
  ASSUME NEW n \in Nat, n < Word
  PROVE  n % Word = n
BY FetchAssumption

\* A refusal needs a buffer that is full and cannot double.
LEMMA GrowStep ==
  ASSUME FetchInv, Grow
  PROVE  FetchInv'
<1> USE DEF FetchInv, Before, Getting, After, Over, Go, Fail, Local, Stream
<1>0. (cap * 2) % Word = cap * 2
  <2>1. cap * 2 \in Nat /\ cap * 2 < Word
    BY DEF TypeOK
  <2> QED BY <2>1, NoWrap
<1>a. /\ pc = "receive" /\ Full
      /\ \/ cap * 2 > Ceiling /\ Fail("EFBIG") /\ UNCHANGED Stream
         \/ Fail("ENOMEM") /\ UNCHANGED Stream
         \/ /\ Go("receive", {}) /\ cap' = cap * 2 /\ 2 * cap' < Word
            /\ UNCHANGED <<response, total, ended>>
  BY <1>0 DEF Grow, DoubleUpTo, Allocatable
<1>b. cap * 2 \in Nat
  BY DEF TypeOK
<1>c. LimitFits => Ceiling = opts.max_size + InitBuf
  <2>1. opts.max_size + InitBuf \in Nat
    BY FetchAssumption DEF TypeOK
  <2> QED BY <2>1, NoWrap DEF Ceiling, LimitFits
<1>1. TypeOK'
  BY <1>a, <1>b, FetchAssumption DEF TypeOK, Resources, Errors
<1>2. HeldInv'
  BY <1>a, <1>b, FetchAssumption DEF TypeOK, HeldInv
<1>3. AnswerInv'
  BY <1>a, <1>b, FetchAssumption DEF TypeOK, HeldInv, AnswerInv, Success, Complete, Https
<1>4. LimitInv'
  <2>1. CASE cap * 2 > Ceiling /\ Fail("EFBIG") /\ UNCHANGED Stream
    BY <1>a, <1>c, <2>1, FetchAssumption DEF TypeOK, LimitInv, TooLarge, LimitFits, Full
  <2>2. CASE \/ Fail("ENOMEM") /\ UNCHANGED Stream
             \/ /\ Go("receive", {}) /\ cap' = cap * 2
                /\ UNCHANGED <<response, total, ended>>
    BY <1>a, <2>2 DEF LimitInv
  <2> QED BY <1>a, <2>1, <2>2
<1> QED BY <1>1, <1>2, <1>3, <1>4

LEMMA ReceiveStep ==
  ASSUME FetchInv, Receive
  PROVE  FetchInv'
<1> USE DEF FetchInv, Before, Getting, After, Over, Receive, Go, Local, Stream, Full
<1>1. TypeOK'
  BY FetchAssumption DEF TypeOK, Resources, Errors
<1>2. HeldInv'
  BY FetchAssumption DEF TypeOK, HeldInv
<1>3. AnswerInv'
  BY FetchAssumption DEF TypeOK, HeldInv, AnswerInv, Success, Complete, Https
<1>4. LimitInv'
  BY FetchAssumption DEF TypeOK, LimitInv, TooLarge, LimitFits, Errors
<1> QED BY <1>1, <1>2, <1>3, <1>4

LEMMA EndStep ==
  ASSUME FetchInv, End
  PROVE  FetchInv'
<1> USE DEF FetchInv, Before, Getting, After, Over, End, Go, Local, Stream, Full
<1>1. TypeOK'
  BY FetchAssumption DEF TypeOK, Resources, Errors
<1>2. HeldInv'
  BY FetchAssumption DEF TypeOK, HeldInv
<1>3. AnswerInv'
  BY FetchAssumption DEF TypeOK, HeldInv, AnswerInv, Success, Complete, Https
<1>4. LimitInv'
  BY FetchAssumption DEF TypeOK, LimitInv, TooLarge, LimitFits, Errors
<1> QED BY <1>1, <1>2, <1>3, <1>4

LEMMA ReceiveFailsStep ==
  ASSUME FetchInv, ReceiveFails
  PROVE  FetchInv'
<1> USE DEF FetchInv, Before, Getting, After, Over, ReceiveFails, Fail, Local, Stream, Full
<1>1. TypeOK'
  BY FetchAssumption DEF TypeOK, Resources, Errors
<1>2. HeldInv'
  BY FetchAssumption DEF TypeOK, HeldInv
<1>3. AnswerInv'
  BY FetchAssumption DEF TypeOK, HeldInv, AnswerInv, Success, Complete, Https
<1>4. LimitInv'
  BY FetchAssumption DEF TypeOK, LimitInv, TooLarge, LimitFits, Errors
<1> QED BY <1>1, <1>2, <1>3, <1>4

\* The only place a body or a redirect comes from.
LEMMA ParseStep ==
  ASSUME FetchInv, Parse
  PROVE  FetchInv'
<1> USE DEF FetchInv, Before, Getting, After, Over, Stream
<1> DEFINE body_len == total - response.header
<1>a. /\ pc = "parse" /\ pc' = "cleanup" /\ UNCHANGED Stream
      /\ UNCHANGED <<held, opts, url, left, requests>>
  BY DEF Parse
<1>b. response.header \in Nat /\ response.status \in Nat
      /\ response.location \in Urls \cup {NoUrl}
  BY FetchAssumption DEF TypeOK, NoResponse
<1>c. \/ ~Complete /\ rc' = "EPROTO" /\ UNCHANGED <<status, redirect, strings, data>>
      \/ /\ status' = -1 /\ rc' = "EPROTO" /\ UNCHANGED <<redirect, strings, data>>
      \/ /\ Moved /\ status' = response.status /\ rc' = "ok" /\ data' = data
         /\ response.location # NoUrl
         /\ redirect' = response.location /\ strings' = strings + 1
      \/ /\ Moved /\ status' = response.status /\ rc' = "ok"
         /\ UNCHANGED <<redirect, strings, data>>
      \/ /\ ~Moved /\ status' = response.status /\ UNCHANGED <<redirect, strings>>
         /\ Complete
         /\ \/ body_len > opts.max_size /\ rc' = "EFBIG" /\ data' = data
            \/ rc' = "ENOMEM" /\ data' = data
            \/ body_len <= opts.max_size /\ rc' = "ok" /\ data' = body_len
  BY DEF Parse, Moved, Redirects
<1>1. TypeOK'
  <2>1. /\ status' \in Int /\ redirect' \in Urls \cup {NoUrl} /\ data' \in Int
        /\ rc' \in Errors \cup {"ok"} /\ strings' \in Nat
    BY <1>b, <1>c DEF TypeOK, Errors
  <2> QED BY <1>a, <2>1 DEF TypeOK
<1>2. HeldInv'
  BY <1>a, <1>b, <1>c DEF TypeOK, HeldInv
<1>3. AnswerInv'
  BY <1>a, <1>b, <1>c DEF TypeOK, HeldInv, AnswerInv, Success, Complete, Https, Moved, Redirects
<1>4. LimitInv'
  <2>1. rc' = "EFBIG" /\ LimitFits => TooLarge
    BY <1>a, <1>b, <1>c DEF TypeOK, LimitInv, TooLarge, LimitFits
  <2>2. (TooLarge' <=> TooLarge) /\ (LimitFits' <=> LimitFits)
    BY <1>a DEF TooLarge, LimitFits
  <2>3. rc' # "ELOOP"
    BY <1>c
  <2> QED BY <1>a, <2>1, <2>2, <2>3 DEF LimitInv
<1> QED BY <1>1, <1>2, <1>3, <1>4

LEMMA CleanupStep ==
  ASSUME FetchInv, Cleanup
  PROVE  FetchInv'
<1> USE DEF FetchInv, Before, Getting, After, Over, Cleanup, Local, Stream
<1>0. held' = {}
  BY DEF TypeOK
<1> HIDE DEF Cleanup
<1>a. /\ pc = "cleanup" /\ pc' = IF rc = "ok" THEN "answered" ELSE "done"
      /\ UNCHANGED <<status, redirect, rc>> /\ UNCHANGED Local /\ UNCHANGED Stream
  BY DEF Cleanup
<1>1. TypeOK'
  BY <1>0, <1>a, FetchAssumption DEF TypeOK, Resources, Errors
<1>2. HeldInv'
  BY <1>0, <1>a, FetchAssumption DEF TypeOK, HeldInv
<1>3. AnswerInv'
  BY <1>0, <1>a, FetchAssumption DEF TypeOK, HeldInv, AnswerInv, Success, Complete, Https
<1>4. LimitInv'
  BY <1>0, <1>a, FetchAssumption DEF TypeOK, LimitInv, TooLarge, LimitFits, Errors
<1> QED BY <1>1, <1>2, <1>3, <1>4

LEMMA AnsweredStep ==
  ASSUME FetchInv, Answered
  PROVE  FetchInv'
<1> USE DEF FetchInv, Before, Getting, After, Over, Answered, Stream
<1>1. TypeOK'
  <2>1. CASE redirect # NoUrl
    BY <2>1, FetchAssumption DEF TypeOK, HeldInv, Resources, Errors
  <2>2. CASE redirect = NoUrl
    BY <2>2, FetchAssumption DEF TypeOK, HeldInv, Resources, Errors
  <2> QED BY <2>1, <2>2
<1>2. HeldInv'
  BY FetchAssumption DEF TypeOK, HeldInv
<1>3. AnswerInv'
  BY FetchAssumption DEF TypeOK, HeldInv, AnswerInv, Success, Complete, Https
<1>4. LimitInv'
  BY FetchAssumption DEF TypeOK, LimitInv, TooLarge, LimitFits, Errors
<1> QED BY <1>1, <1>2, <1>3, <1>4

LEMMA DoneStep ==
  ASSUME FetchInv, Done
  PROVE  FetchInv'
<1> USE DEF FetchInv, Before, Getting, After, Over, Done, Stream
<1>1. TypeOK'
  BY FetchAssumption DEF TypeOK, HeldInv, Resources, Errors
<1>2. HeldInv'
  BY FetchAssumption DEF TypeOK, HeldInv
<1>3. AnswerInv'
  BY FetchAssumption DEF TypeOK, HeldInv, AnswerInv, Success, Complete, Https
<1>4. LimitInv'
  BY FetchAssumption DEF TypeOK, LimitInv, TooLarge, LimitFits, Errors
<1> QED BY <1>1, <1>2, <1>3, <1>4

LEMMA Unchanged_ ==
  ASSUME FetchInv, UNCHANGED vars
  PROVE  FetchInv'
BY DEF FetchInv, TypeOK, HeldInv, AnswerInv, LimitInv, Success, Complete, Https,
       TooLarge, LimitFits, vars

-----------------------------------------------------------------------------
\* In every reachable state of a fetch the inductive invariant holds.
THEOREM FetchInvariant == Spec => []FetchInv
<1>1. FetchInv /\ [Next]_vars => FetchInv'
  <2> SUFFICES ASSUME FetchInv, [Next]_vars PROVE FetchInv'
    OBVIOUS
  <2>1. CASE Copy BY <2>1, CopyStep
  <2>2. CASE Begin BY <2>2, BeginStep
  <2>3. CASE Resolve BY <2>3, ResolveStep
  <2>4. CASE Socket BY <2>4, SocketStep
  <2>5. CASE Connect BY <2>5, ConnectStep
  <2>6. CASE Tls BY <2>6, TlsStep
  <2>7. CASE Handshake BY <2>7, HandshakeStep
  <2>8. CASE Send BY <2>8, SendStep
  <2>9. CASE Alloc BY <2>9, AllocStep
  <2>10. CASE Grow BY <2>10, GrowStep
  <2>11. CASE Receive BY <2>11, ReceiveStep
  <2>12. CASE End BY <2>12, EndStep
  <2>13. CASE ReceiveFails BY <2>13, ReceiveFailsStep
  <2>14. CASE Parse BY <2>14, ParseStep
  <2>15. CASE Cleanup BY <2>15, CleanupStep
  <2>16. CASE Answered BY <2>16, AnsweredStep
  <2>17. CASE Done BY <2>17, DoneStep
  <2>18. CASE UNCHANGED vars BY <2>18, Unchanged_
  <2> QED BY <2>1, <2>2, <2>3, <2>4, <2>5, <2>6, <2>7, <2>8, <2>9, <2>10, <2>11, <2>12, <2>13, <2>14, <2>15, <2>16, <2>17, <2>18
     DEF Next, Working, Returned
<1> QED BY <1>1, InitHolds, PTL DEF Spec

\* A call that has returned holds no socket, session, address list, buffer or
\* URL, and leaves a body exactly with success, whatever failed.
THEOREM NothingIsHeldAfterReturn == Spec => []NothingHeld
<1>1. FetchInv => NothingHeld
  BY FetchAssumption DEF FetchInv, TypeOK, HeldInv, AnswerInv, NothingHeld, Success,
     Complete, Over, NoResponse
<1> QED BY <1>1, FetchInvariant, PTL

\* A success is a whole 2xx answer within the limit.
THEOREM SuccessIsWhole == Spec => []SuccessIsComplete
<1>1. FetchInv => SuccessIsComplete
  BY DEF FetchInv, AnswerInv, SuccessIsComplete, Over
<1> QED BY <1>1, FetchInvariant, PTL

\* Under every limit whose sum with the first buffer is still a size_t, an
\* answer is refused for its size only above the limit, or when the buffer is
\* full and cannot double.
THEOREM RefusalsAreLarge == Spec => []RefusedWhenLarge
<1>1. FetchInv => RefusedWhenLarge
  BY DEF FetchInv, LimitInv, RefusedWhenLarge, Over
<1> QED BY <1>1, FetchInvariant, PTL

\* At most max_redirects redirects are followed, and ELOOP means all of them.
THEOREM RedirectsAreBounded == Spec => []HopsBounded
<1>1. FetchInv => HopsBounded
  BY DEF FetchInv, TypeOK, LimitInv, HopsBounded, Before, Getting, After, Over
<1> QED BY <1>1, FetchInvariant, PTL
=============================================================================
