----------------------------- MODULE Admission -----------------------------
(***************************************************************************)
(* How a request gets to its handler (router.go, middleware.go): with a    *)
(* token that identity/provider.go issued and still accepts, and past the  *)
(* rate limiter (ratelimit/limiter.go), by user once it has a token and by *)
(* address before.  What the handler then does is another module's.        *)
(*                                                                         *)
(* Time is in units of which Second make a second.  The limiter's script,  *)
(* redis_rate, is atomic in Redis; it is GCRA: tat is the time at which    *)
(* the bucket of a key will be full again.  NewApp makes two limiters, for *)
(* users and for addresses; the model gives both the same rate.            *)
(***************************************************************************)
EXTENDS Integers, Sequences, FiniteSets, FiniteSetsExt

CONSTANTS
    Users,        \* the clients, by user id
    Trusted,      \* the clients in a trusted network
    Requests,     \* Config.Requests, per Window
    Window,       \* Config.Window
    TTL,          \* the lifetime of a token
    Second,       \* the units of a second
    MaxTime,      \* bound: the last instant
    MaxOutages    \* bound: how often Redis fails or a reply of it is lost

(* ratelimit.Config.Validate and identity.Config.Validate.                 *)
ValidConfig == Requests >= 1 /\ Window > 0 /\ TTL > 0

ASSUME AdmissionAssumption ==
    /\ {Requests, Window, TTL, Second, MaxTime, MaxOutages} \subseteq Nat
    /\ ValidConfig /\ Second > 0
    /\ Window % Requests = 0
    /\ Users \subseteq Nat \ {0} /\ Trusted \subseteq Users

Ip == 0   \* the address the clients share
Clients == Users \cup {Ip}
T == Window \div Requests

VARIABLES
    now,
    tat,       \* the limiter's entry of every key
    redis,     \* whether Redis answers
    outages,   \* how often it has failed, or a reply was lost
    token,     \* the newest token of every client
    watched,   \* the client whose history is kept, any of them
    served,    \* history: when the entry it has in Redis last counted it
    promise    \* history: when Retry-After told it to come again, or 0

limiter == <<tat, served, promise>>
admissionVars == <<limiter, now, redis, outages, token, watched>>

NoToken == [issued |-> 0, exp |-> 0]

AdmissionInit ==
    /\ now = 0
    /\ tat = [k \in Clients |-> 0]
    /\ redis = TRUE
    /\ outages = 0
    /\ token = [u \in Users |-> NoToken]
    /\ watched \in Clients
    /\ served = <<>>
    /\ promise = 0

-----------------------------------------------------------------------------
(* The limiter.                                                            *)

NewTat(k) == Max({tat[k], now}) + T

(* Mutant: a burst of one more than the rate.                              *)
AllowAtBigBurst(k) == NewTat(k) - T * (Requests + 1)

(* When the bucket of k has room for one more, Burst being Requests.       *)
AllowAt(k) == NewTat(k) - T * Requests

(* Limiter.Allow refuses the key k.                                        *)
Refuses(k) == redis /\ now < AllowAt(k)

Latest(s) == IF Len(s) > 2 * Requests THEN Tail(s) ELSE s

(* The script counts a request of client c.                                *)
Counted(c, k) ==
    /\ tat' = [tat EXCEPT ![k] = NewTat(k)]
    /\ IF c = watched THEN served' = Latest(Append(served, now)) /\ promise' = 0
                      ELSE UNCHANGED <<served, promise>>

(* The script runs and its reply is lost with the connection.  The client  *)
(* of NewRedis asks once more, which is a further step of this or of       *)
(* Limited, and after MaxRetries the limiter fails open.                   *)
ReplyLost(c, k) ==
    /\ redis /\ outages < MaxOutages
    /\ outages' = outages + 1
    /\ IF Refuses(k) THEN UNCHANGED limiter ELSE Counted(c, k)

(* Limiter.Allow lets a request of client c through: it is counted, or     *)
(* Redis does not answer and the limiter fails open.  So it does for a     *)
(* caller that has gone, whose answer nobody sees.                         *)
Allowed(c, k) ==
    \/ redis /\ ~Refuses(k) /\ Counted(c, k) /\ UNCHANGED outages
    \/ ~redis /\ UNCHANGED <<limiter, outages>>
    \/ ReplyLost(c, k)

(* Mutant: the part of a second is cut off.                                *)
RetryAfterFloor(k) == Second * ((AllowAt(k) - now) \div Second)

(* The header, in whole seconds: the wait, cut to seconds, and one more.   *)
RetryAfter(k) == Second * ((AllowAt(k) - now) \div Second + 1)

(* rejectOrServe refuses with 429.                                         *)
Limited(c, k) ==
    /\ Refuses(k)
    /\ promise' = IF c = watched /\ promise = 0 THEN now + RetryAfter(k) ELSE promise
    /\ UNCHANGED <<tat, served>>

-----------------------------------------------------------------------------
(* Tokens.                                                                 *)

(* Mutant: the expiry is rounded up to the next second.                    *)
IssueRoundedUp == [issued |-> now, exp |-> Second * ((now + TTL) \div Second + 1)]

(* Provider.Issue: the claim exp has whole seconds.                        *)
Issue == [issued |-> now, exp |-> Second * ((now + TTL) \div Second)]

(* Provider.Parse accepts the token.                                       *)
Valid(tok) == now < tok.exp

(* POST /login: RateLimitByIP, then Auth.Login, which issues a token; a    *)
(* wrong password, a body it cannot read and a failure issue none.         *)
Login(u) ==
    /\ \/ u \in Trusted /\ UNCHANGED <<limiter, outages>>
       \/ u \notin Trusted /\ Allowed(Ip, Ip)
    /\ \E ok \in BOOLEAN : token' = IF ok THEN [token EXCEPT ![u] = Issue] ELSE token
    /\ UNCHANGED <<now, redis, watched>>

LoginLimited(u) ==
    /\ u \notin Trusted
    /\ Limited(Ip, Ip)
    /\ UNCHANGED <<now, redis, outages, token, watched>>

-----------------------------------------------------------------------------
(* Requests with a token: Auth, then RateLimit, then the handler.  One     *)
(* whose token is missing or expired gets its 401 and changes nothing.     *)

(* "user:" and the id.                                                     *)
UserKey(u) == u

(* The request reaches its handler.                                        *)
Serve(u) ==
    /\ Valid(token[u])
    /\ Allowed(u, UserKey(u))
    /\ UNCHANGED <<now, redis, token, watched>>

RequestLimited(u) ==
    /\ Valid(token[u])
    /\ Limited(u, UserKey(u))
    /\ UNCHANGED <<now, redis, outages, token, watched>>

Tock ==
    /\ now < MaxTime
    /\ now' = now + 1
    /\ UNCHANGED <<limiter, redis, outages, token, watched>>

RedisFails ==
    /\ redis
    /\ outages < MaxOutages
    /\ redis' = FALSE
    /\ outages' = outages + 1
    /\ UNCHANGED <<limiter, now, token, watched>>

(* Redis comes back with its entries, or empty: docker-compose.yaml gives  *)
(* it no volume.  What was counted before is then forgotten.               *)
RedisReturns ==
    /\ ~redis
    /\ redis' = TRUE
    /\ \/ UNCHANGED limiter
       \/ tat' = [k \in Clients |-> 0] /\ served' = <<>> /\ UNCHANGED promise
    /\ UNCHANGED <<now, outages, token, watched>>

AdmissionNext ==
    \/ \E u \in Users : Login(u) \/ LoginLimited(u) \/ Serve(u) \/ RequestLimited(u)
    \/ Tock \/ RedisFails \/ RedisReturns

AdmissionSpec == AdmissionInit /\ [][AdmissionNext]_admissionVars

-----------------------------------------------------------------------------
(* Properties.                                                             *)

(* What "Requests per Window" amounts to: any 2 * Requests consecutive     *)
(* times that a client is counted span a whole window, so a window sees at *)
(* most 2 * Requests - 1 of its requests, a full burst and what refills    *)
(* meanwhile (Limiter with Rate = Burst = Requests).  That is as long as   *)
(* Redis keeps the entry: one that comes back empty counts afresh, and     *)
(* what is let through while it is away is not counted.                    *)
RateBound ==
    Len(served) = 2 * Requests => served[2 * Requests] - served[1] >= Window

(* A 429 is earned and its Retry-After can be relied on: a client is only  *)
(* refused when it has itself been counted Requests times within the last  *)
(* window, whoever else was served, and never between waiting as it was    *)
(* told and being counted again (rejectOrServe cuts the wait to seconds    *)
(* and adds one).  A request counts once, and once more for every reply    *)
(* that was lost on the way to a retry, so the retry itself may be refused.*)
HonestRefusal ==
    watched \in Users /\ Refuses(UserKey(watched)) =>
        /\ Cardinality({i \in DOMAIN served : now - served[i] < Window}) >= Requests
        /\ promise # 0 => now < promise

(* A token serves for its TTL and no longer, less at most the part of a    *)
(* second that the claim exp cannot express (Provider.Issue and Parse).    *)
TokenLifetime ==
    \A u \in Users : token[u] # NoToken =>
        IF Valid(token[u]) THEN now < token[u].issued + TTL
                           ELSE now > token[u].issued + TTL - Second
-----------------------------------------------------------------------------
(* The invariant that the proofs of these go by.                           *)

AdmissionTypeOK ==
    /\ now \in 0 .. MaxTime
    /\ tat \in [Clients -> Nat]
    /\ redis \in BOOLEAN
    /\ outages \in 0 .. MaxOutages
    /\ token \in [Users -> [issued: Nat, exp: Nat]]
    /\ watched \in Clients
    /\ served \in Seq(Nat) /\ Len(served) <= 2 * Requests
    /\ promise \in Nat

(* How the entry of the watched client relates to the requests that were   *)
(* counted.  Every one since the i-th has pushed it T further, so that it  *)
(* is no less than what they add up to, and the limiter let the last one   *)
(* through, so that it is no more than a window ahead of that.  If it has  *)
(* not run empty since the i-th it is no more than a window ahead of that  *)
(* and what the later ones add; if it has, no more than they add to now.   *)
Bucket ==
    LET n == Len(served)
        t == tat[watched]
    IN  /\ \A i \in 1 .. n : served[i] <= now /\ t >= served[i] + (n - i + 1) * T
        /\ n = 0 => t = 0
        /\ n > 0 => t <= served[n] + Window
        /\ n > 0 /\ n < 2 * Requests => t <= served[n] + n * T
        /\ \A i \in 1 .. n : \/ t <= served[i] + Window + (n - i) * T
                             \/ t <= served[n] + (n - i) * T

(* The promise outlasts the refusals.                                      *)
Promised == promise # 0 => promise > tat[watched] + T - Window

Issued ==
    \A u \in Users : token[u] # NoToken =>
        /\ token[u].exp <= token[u].issued + TTL
        /\ token[u].exp > token[u].issued + TTL - Second

AdmissionInv == AdmissionTypeOK /\ Bucket /\ Promised /\ Issued
=============================================================================
