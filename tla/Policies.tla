-------------------------------- MODULE Policies --------------------------------
(***************************************************************************)
(* What the middlewares decide from a request alone: CORS                  *)
(* (middleware/cors.go) and the client's address behind trusted proxies    *)
(* (middleware/trusted_proxy.go).  Module Chain applies them to requests.  *)
(***************************************************************************)
EXTENDS Sequences, Integers, FiniteSetsExt

-----------------------------------------------------------------------------
(* CORS, with options [AllowedOrigins, AllowOriginFunc, AllowCredentials].  *)
(* AllowOriginFunc is a set: none, or the set of origins it allows.         *)

\* mutant: a wildcard counts although credentials are allowed
AllowAllWithCreds(opts) == "*" \in opts.AllowedOrigins

\* A wildcard is ignored when credentials are allowed.
AllowAll(opts) == "*" \in opts.AllowedOrigins /\ ~opts.AllowCredentials

\* The list of origins counts only when there is no function.
AllowOrigin(opts, origin) ==
    IF opts.AllowOriginFunc # {}
    THEN \A allowed \in opts.AllowOriginFunc : origin \in allowed
    ELSE origin \in opts.AllowedOrigins \ {"*"}

Allowed(opts, origin) == AllowAll(opts) \/ AllowOrigin(opts, origin)

\* What setAllowOrigin and its caller put into a header
WithAllowOrigin(header, opts, origin) ==
    [header EXCEPT
        !.allow = IF AllowAll(opts) THEN "*" ELSE origin,
        !.vary  = IF AllowAll(opts) THEN @ ELSE @ \cup {"Origin"},
        !.creds = opts.AllowCredentials]

-----------------------------------------------------------------------------
(* ClientIP: remote is the peer's address, forwarded the X-Forwarded-For     *)
(* list as the peer sent it, trusted what the trust function accepts.        *)

\* mutant: the list is read from the left
ClientIPFromLeft(remote, forwarded, trusted) ==
    LET untrusted == {i \in DOMAIN forwarded : forwarded[i] \notin trusted}
    IN  IF remote \notin trusted \/ forwarded = <<>> THEN remote
        ELSE IF untrusted = {} THEN forwarded[1]
        ELSE forwarded[Min(untrusted)]

ClientIP(remote, forwarded, trusted) ==
    LET untrusted == {i \in DOMAIN forwarded : forwarded[i] \notin trusted}
    IN  IF remote \notin trusted \/ forwarded = <<>> THEN remote
        ELSE IF untrusted = {} THEN forwarded[1]
        ELSE forwarded[Max(untrusted)]
=============================================================================
