------------------------------ MODULE HttpFetch ------------------------------
(***************************************************************************)
(* One call of oas_ref_fetch_http: requests that follow redirects, each a  *)
(* connection with or without TLS, and an answer that arrives piece by     *)
(* piece in a buffer that doubles.                                         *)
(*                                                                         *)
(* The network and the allocator may fail at every call.  Every blocking   *)
(* call returns: the socket has timeouts, and getaddrinfo has its own.     *)
(*                                                                         *)
(* Sizes are size_t, and sums of them wrap at Word.  The number of bytes   *)
(* that came is an int in the code; recv returns less than 2^31 bytes at a *)
(* time on the systems the library is built for, so n is not narrowed.     *)
(***************************************************************************)
EXTENDS Integers

CONSTANTS
  Urls,        \* the URLs: scheme, crlf, host (its length class), port, path
  NoUrl,
  HostOk, PortOk, PathOk,  \* the classes that fit in host, port and request
  Responses,   \* what a server may send: length, header, status, location
  Options,     \* tls (compiled in), max_size, max_redirects of the caller
  DefaultMaxSize, DefaultMaxRedirects, InitBuf,
  Word         \* how many values a size_t has

ASSUME FetchAssumption ==
  /\ Word \in Nat /\ InitBuf \in Nat \ {0, 1} /\ 2 * InitBuf < Word
  /\ DefaultMaxSize \in 1..(Word - 1) /\ DefaultMaxRedirects \in Nat \ {0}
  /\ NoUrl \notin Urls
  /\ Options \subseteq [tls : BOOLEAN, max_size : 0..(Word - 1), max_redirects : Int]
  /\ Responses \subseteq [length : Nat, header : Nat, status : Nat,
                          location : Urls \cup {NoUrl}]

VARIABLES
  pc,        \* where the call stands
  opts,      \* the effective limits: tls, max_size, max_redirects
  url,       \* current_url
  strings,   \* URL strings that are allocated: current_url and redirect_url
  left,      \* redirects_left
  held,      \* what do_http_get has acquired and not released
  response,  \* what the server sends this time
  cap, total,    \* buf_size and total
  ended,     \* how the loop over recv was left: "no", "close" or "timeout"
  status, redirect,  \* status_out and redirect_url
  data,      \* out_len with *out_data allocated, or -1
  rc,
  requests   \* how many requests were begun (history)

vars == <<pc, opts, url, strings, left, held, response, cap, total, ended,
          status, redirect, data, rc, requests>>

Resources == {"res", "sock", "tls", "buf"}
Errors == {"ENOMEM", "EINVAL", "ENOTSUP", "EHOSTUNREACH", "errno", "EIO",
           "EFBIG", "EPROTO", "ELOOP"}
NoResponse == [length |-> 0, header |-> 0, status |-> 0, location |-> NoUrl]
Redirects == {301, 302, 307, 308}

Https == url.scheme = "https"

\* parse_http_url: "ok" or the error.
parse_http_url(u, tls) ==
  CASE u.scheme = "https" /\ ~tls        -> "ENOTSUP"
    [] u.scheme \notin {"http", "https"} -> "EINVAL"
    [] u.crlf                            -> "EINVAL"
    [] u.host \notin HostOk              -> "EINVAL"
    [] u.port \notin PortOk              -> "EINVAL"
    [] OTHER                             -> "ok"

Effective(o) ==
  [tls |-> o.tls,
   max_size |-> IF o.max_size = 0 THEN DefaultMaxSize ELSE o.max_size,
   max_redirects |-> IF o.max_redirects <= 0 THEN DefaultMaxRedirects
                     ELSE o.max_redirects]

Init ==
  /\ pc = "called" /\ opts \in {Effective(o) : o \in Options} /\ url \in Urls
  /\ strings = 0 /\ left = opts.max_redirects /\ held = {}
  /\ response = NoResponse /\ cap = 0 /\ total = 0 /\ ended = "no"
  /\ status = 0 /\ redirect = NoUrl /\ data = -1 /\ rc = "ok" /\ requests = 0

-----------------------------------------------------------------------------
Local  == <<opts, url, strings, left, data, requests>>
Stream == <<response, cap, total, ended>>

\* oas_ref_fetch_http up to its loop: a copy of the URL.
Copy ==
  /\ pc = "called"
  /\ \/ pc' = "loop" /\ strings' = 1 /\ rc' = rc
     \/ pc' = "returned" /\ strings' = strings /\ rc' = "ENOMEM"
  /\ UNCHANGED <<opts, url, left, held, status, redirect, data, requests>>
  /\ UNCHANGED Stream

\* The top of the loop.
Begin ==
  LET r == parse_http_url(url, opts.tls)
  IN  /\ pc = "loop" /\ rc' = r
      /\ IF r = "ok" THEN pc' = "resolve" /\ requests' = requests + 1
                     ELSE pc' = "done" /\ requests' = requests
      /\ status' = 0 /\ redirect' = NoUrl /\ data' = IF r = "ok" THEN -1 ELSE data
      /\ UNCHANGED <<opts, url, strings, left, held>> /\ UNCHANGED Stream

\* A step of do_http_get: it goes on with what it acquired, or to cleanup.
Go(next, what) ==
  /\ pc' = next /\ held' = held \cup what /\ rc' = "ok"
  /\ UNCHANGED <<status, redirect>> /\ UNCHANGED Local

Fail(error) ==
  /\ pc' = "cleanup" /\ rc' = error
  /\ UNCHANGED <<held, status, redirect>> /\ UNCHANGED Local

\* getaddrinfo; a failure returns at once, with nothing to release.
Resolve ==
  /\ pc = "resolve" /\ UNCHANGED Stream
  /\ \/ Go("socket", {"res"})
     \/ /\ pc' = "done" /\ rc' = "EHOSTUNREACH"
        /\ UNCHANGED <<held, status, redirect>> /\ UNCHANGED Local

\* Mutant of the next: the failure returns and forgets the address list.
SocketReturns ==
  /\ pc = "socket" /\ UNCHANGED Stream
  /\ \/ Go("connect", {"sock"})
     \/ /\ pc' = "done" /\ rc' = "errno"
        /\ UNCHANGED <<held, status, redirect>> /\ UNCHANGED Local

Socket ==
  /\ pc = "socket" /\ UNCHANGED Stream
  /\ Go("connect", {"sock"}) \/ Fail("errno")

Connect ==
  /\ pc = "connect" /\ UNCHANGED Stream
  /\ Go(IF Https THEN "tls" ELSE "send", {}) \/ Fail("errno")

\* oas_tls_create and oas_tls_connect.
Tls ==
  /\ pc = "tls" /\ UNCHANGED Stream
  /\ \/ Go("handshake", {"tls"})
     \/ Fail("ENOMEM")

Handshake ==
  /\ pc = "handshake" /\ UNCHANGED Stream
  /\ Go("send", {}) \/ Fail("ENOMEM") \/ Fail("EIO")

\* The request must fit in 2048 bytes and be sent in one piece.
Send ==
  /\ pc = "send" /\ UNCHANGED Stream
  /\ \/ url.path \in PathOk /\ Go("alloc", {})
     \/ url.path \in PathOk /\ (Fail("EIO") \/ Fail("errno"))
     \/ url.path \notin PathOk /\ Fail("ENOMEM")

Alloc ==
  /\ pc = "alloc"
  /\ \/ /\ Go("receive", {"buf"})
        /\ response' \in Responses /\ cap' = InitBuf /\ total' = 0 /\ ended' = "no"
     \/ Fail("ENOMEM") /\ UNCHANGED Stream

\* One turn of the receive loop.  A full buffer is doubled first, unless that
\* is beyond the limit.  The sum of limit and first buffer wraps.
Full    == total >= cap - 1
Ceiling == (opts.max_size + InitBuf) % Word

\* realloc gives no block of half the address space or more.
Allocatable(size) == 2 * size < Word

\* Doubling up to a ceiling, or the refusal.
DoubleUpTo(ceiling) ==
  LET new_size == (cap * 2) % Word
  IN  \/ new_size > ceiling /\ Fail("EFBIG") /\ UNCHANGED Stream
      \/ new_size <= ceiling /\ Fail("ENOMEM") /\ UNCHANGED Stream
      \/ /\ new_size <= ceiling /\ Allocatable(new_size)
         /\ Go("receive", {}) /\ cap' = new_size
         /\ UNCHANGED <<response, total, ended>>

\* Mutant of the next: the limit is compared without the first buffer.
GrowToLimit == pc = "receive" /\ Full /\ DoubleUpTo(opts.max_size)

Grow == pc = "receive" /\ Full /\ DoubleUpTo(Ceiling)

\* Some bytes that fit in front of the terminating zero.
Receive ==
  /\ pc = "receive" /\ ~Full
  /\ \E n \in 1..(cap - total - 1) :
       total + n <= response.length /\ total' = total + n
  /\ Go("receive", {}) /\ UNCHANGED <<response, cap, ended>>

\* Mutant of the next: the loop goes on when nothing came.
EndReadsAgain ==
  /\ pc = "receive" /\ ~Full
  /\ ended' = "close" \/ (Https /\ ended' = "timeout")
  /\ Go("receive", {}) /\ UNCHANGED <<response, cap, total>>

\* Nothing more: the server has closed, perhaps early, or, with TLS, the time
\* is over, which oas_tls_read reports in the same way.
End ==
  /\ pc = "receive" /\ ~Full
  /\ ended' = "close" \/ (Https /\ ended' = "timeout")
  /\ Go("parse", {}) /\ UNCHANGED <<response, cap, total>>

\* Mutant of the next: an error ends the loop as a close does.
ErrorEnds ==
  pc = "receive" /\ ~Full /\ UNCHANGED Stream /\ Go("parse", {})

\* recv fails, or its time is over.  After oas_tls_read errno says nothing
\* about the failure, and may be zero.
ReceiveFails ==
  /\ pc = "receive" /\ ~Full /\ UNCHANGED Stream
  /\ Fail("errno") \/ (Https /\ Fail("ok"))

-----------------------------------------------------------------------------
Complete == response.header # 0 /\ total >= response.header
Moved    == response.status \in Redirects

Parse ==
  /\ pc = "parse" /\ pc' = "cleanup"
  /\ UNCHANGED <<held, opts, url, left, requests>> /\ UNCHANGED Stream
  /\ \/ /\ ~Complete /\ rc' = "EPROTO"
        /\ UNCHANGED <<status, redirect, strings, data>>
     \/ /\ Complete /\ status' = IF response.status = 0 THEN -1 ELSE response.status
        /\ \/ /\ response.status = 0 /\ rc' = "EPROTO"
              /\ UNCHANGED <<redirect, strings, data>>
           \* The copy of the Location header may fail; then there is none.
           \/ /\ Moved /\ response.location # NoUrl /\ rc' = "ok"
              /\ redirect' = response.location /\ strings' = strings + 1
              /\ data' = data
           \/ Moved /\ rc' = "ok" /\ UNCHANGED <<redirect, strings, data>>
           \/ /\ response.status # 0 /\ ~Moved
              /\ UNCHANGED <<redirect, strings>>
              /\ LET body_len == total - response.header
                 IN  \/ body_len > opts.max_size /\ rc' = "EFBIG" /\ data' = data
                     \/ /\ body_len <= opts.max_size
                        /\ \/ rc' = "ENOMEM" /\ data' = data
                           \/ rc' = "ok" /\ data' = body_len

\* The end of do_http_get.
Cleanup ==
  /\ pc = "cleanup" /\ held' = held \ Resources
  /\ pc' = IF rc = "ok" THEN "answered" ELSE "done"
  /\ UNCHANGED <<status, redirect, rc>> /\ UNCHANGED Local /\ UNCHANGED Stream

\* Mutant of the next: the last redirect that is allowed is not followed.
AnsweredEarly ==
  /\ pc = "answered"
  /\ \/ /\ redirect # NoUrl
        /\ url' = redirect /\ strings' = strings - 1 /\ left' = left - 1
        /\ IF left' <= 0 THEN pc' = "done" /\ rc' = "ELOOP"
                         ELSE pc' = "loop" /\ rc' = rc
        /\ data' = data
     \/ /\ redirect = NoUrl /\ pc' = "done"
        /\ IF status \in 200..299 THEN data' = data /\ rc' = rc
                                  ELSE data' = -1 /\ rc' = "EPROTO"
        /\ UNCHANGED <<url, strings, left>>
  /\ UNCHANGED <<held, opts, status, redirect, requests>> /\ UNCHANGED Stream

\* Follow the redirect, or not; a status that is no success is an error.
Answered ==
  /\ pc = "answered"
  /\ \/ /\ redirect # NoUrl
        /\ url' = redirect /\ strings' = strings - 1 /\ left' = left - 1
        /\ IF left' < 0 THEN pc' = "done" /\ rc' = "ELOOP"
                        ELSE pc' = "loop" /\ rc' = rc
        /\ data' = data
     \/ /\ redirect = NoUrl /\ pc' = "done"
        /\ IF status \in 200..299 THEN data' = data /\ rc' = rc
                                  ELSE data' = -1 /\ rc' = "EPROTO"
        /\ UNCHANGED <<url, strings, left>>
  /\ UNCHANGED <<held, opts, status, redirect, requests>> /\ UNCHANGED Stream

Done ==
  /\ pc = "done" /\ pc' = "returned" /\ strings' = strings - 1
  /\ UNCHANGED <<held, opts, url, left, status, redirect, data, rc, requests>>
  /\ UNCHANGED Stream

\* The call is over.
Returned == pc = "returned" /\ UNCHANGED vars

Working ==
  \/ Copy \/ Begin \/ Resolve \/ Socket \/ Connect \/ Tls \/ Handshake
  \/ Send \/ Alloc \/ Grow \/ Receive \/ End \/ ReceiveFails
  \/ Parse \/ Cleanup \/ Answered \/ Done

Next == Working \/ Returned

Spec == Init /\ [][Next]_vars /\ WF_vars(Working)

-----------------------------------------------------------------------------
\* Whatever fails, a call that has returned holds no socket, session, address
\* list, buffer or URL string; it leaves a body to the caller exactly when it
\* reports success.
NothingHeld ==
  pc = "returned" =>
    /\ held = {} /\ strings = 0
    /\ (data # -1) <=> (rc = "ok")

\* Success means a 2xx answer whose body is all that followed its header until
\* the server closed, within the limit: never a part that an error, a full
\* buffer or a timeout of a plain connection cut off.
Success ==
  /\ response.status \in 200..299 /\ Complete
  /\ data = total - response.header /\ data <= opts.max_size
  /\ ended = "close" \/ Https

SuccessIsComplete == pc = "returned" /\ rc = "ok" => Success

\* Under a limit whose sum with the first buffer is still a size_t, an answer
\* is refused for its size only when, with its header, it is larger than the
\* limit, or than half of that sum, where the buffer cannot double any more.
\* (LargestAccepted, below, is about the limits whose sum wraps.)
LimitFits == opts.max_size + InitBuf < Word
TooLarge  == total > opts.max_size \/ 2 * (total + 1) > opts.max_size + InitBuf

RefusedWhenLarge == pc = "returned" /\ rc = "EFBIG" /\ LimitFits => TooLarge

\* One request more than redirects are allowed, and a loop is only reported
\* after all of them.
HopsBounded ==
  /\ requests <= opts.max_redirects + 1
  /\ pc = "returned" /\ rc = "ELOOP" => requests = opts.max_redirects + 1

\* Every call returns, also from servers that never stop sending or that
\* redirect for ever.
CallReturns == <>(pc = "returned")

-----------------------------------------------------------------------------
\* The inductive invariant: what is held, allocated and answered at each place.
Before  == {"called", "loop"}
Getting == {"resolve", "socket", "connect", "tls", "handshake", "send", "alloc",
            "receive", "parse"}
After   == {"cleanup", "answered"}
Over    == {"done", "returned"}

TypeOK ==
  /\ pc \in Before \cup Getting \cup After \cup Over
  /\ opts \in [tls : BOOLEAN, max_size : 1..(Word - 1),
              max_redirects : Nat \ {0}]
  /\ url \in Urls /\ strings \in Nat /\ left \in Int /\ held \subseteq Resources
  /\ response \in Responses \cup {NoResponse} /\ cap \in Nat /\ 2 * cap < Word
  /\ total \in Nat
  /\ ended \in {"no", "close", "timeout"} /\ status \in Int
  /\ redirect \in Urls \cup {NoUrl} /\ data \in Int
  /\ rc \in Errors \cup {"ok"} /\ requests \in Nat

HeldInv ==
  /\ pc \in Before \cup Over \cup {"resolve", "answered"} => held = {}
  /\ pc \in {"called", "returned"} => strings = 0
  /\ pc \in {"loop", "done"} \cup Getting => strings = 1
  /\ pc \in Getting => redirect = NoUrl
  /\ pc \in After => strings = IF redirect = NoUrl THEN 1 ELSE 2
  /\ pc \in After /\ redirect # NoUrl => rc = "ok"
  /\ pc = "answered" => rc = "ok"

AnswerInv ==
  /\ pc \in Before \cup Getting => data = -1 /\ rc = "ok"
  /\ pc \in Getting => status = 0
  /\ pc = "parse" => ended = "close" \/ Https
  /\ pc \in After /\ (rc # "ok" \/ redirect # NoUrl) => data = -1
  /\ pc \in After /\ rc = "ok" /\ redirect = NoUrl /\ status \in 200..299 => Success
  /\ pc \in Over => (rc = "ok" => Success) /\ (rc # "ok" => data = -1)

LimitInv ==
  /\ pc \in After \cup Over /\ rc = "EFBIG" /\ LimitFits => TooLarge
  /\ pc \in Before => left >= 0 /\ requests = opts.max_redirects - left
  /\ pc \in Getting \cup After => left >= 0 /\ requests = opts.max_redirects - left + 1
  /\ pc \in Over => requests <= opts.max_redirects + 1
  /\ rc = "ELOOP" => pc \in Over /\ requests = opts.max_redirects + 1

FetchInv == TypeOK /\ HeldInv /\ AnswerInv /\ LimitInv

-----------------------------------------------------------------------------
\* oas_tls.h says that oas_tls_read has the semantics of recv and reports an
\* error as a negative number; a timeout must then not end in success.
TimeoutIsAnError == pc = "returned" /\ rc = "ok" => ended = "close"

\* oas_ref.h calls the limit the maximal response size, so that only a larger
\* response is refused.  A limit near the largest size_t wraps in the sum with
\* the first buffer, and every answer that fills that buffer is refused.
LargestAccepted ==
  pc = "returned" /\ rc = "EFBIG" => total > opts.max_size
=============================================================================
