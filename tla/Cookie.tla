-------------------------------- MODULE Cookie --------------------------------
(* The cookie exchange of wg_cookie.c: a responder under load answers an      *)
(* initiation with a cookie for the sender's address, the initiator puts it   *)
(* into its next initiation, and only then the rate limiter is asked.         *)
(*                                                                            *)
(* One maker (the initiator's struct cookie_maker), one checker, and a        *)
(* network that loses, duplicates and reorders.  cookie_maker_consume_payload *)
(* gives up its lock between checking a reply and installing the cookie, so   *)
(* it is two steps here and cookie_maker_mac can come between them.           *)
EXTENDS RateLimit

CONSTANTS
    MaxAge,    \* COOKIE_SECRET_MAX_AGE
    Latency,   \* COOKIE_SECRET_LATENCY
    MaxInits,  \* bound on the initiations sent
    MaxSecrets \* bound on the secrets drawn

\* BLAKE2s of the address under the secret; the checker starts with the zeroed
\* secret 0 and the birthdate 0.
Cookies == [secret : 0..MaxSecrets, addr : Addrs]

ASSUME AgeAssumption ==
    /\ MaxAge \in Nat /\ Latency \in 0..MaxAge /\ Timeout <= MaxAge - Latency
    /\ MaxInits \in Nat /\ MaxSecrets \in Nat \ {0}
    /\ NULL \notin Cookies

VARIABLES
    inits,      \* initiations sent; the number of one stands for its mac1
    maker,      \* cm_cookie, its age, cm_cookie_valid, cm_mac1_sent
    consuming,  \* the cookie decrypted and not yet installed, or NULL
    secret,     \* cc_secret, and its age: number n is the n-th drawn
    net         \* the messages on their way, for good

cookieVars == <<inits, maker, consuming, secret, net>>
vars == <<rateVars, cookieVars>>

Initiations == [type : {"initiation"}, mac1 : 1..MaxInits,
                cookie : Cookies \cup {NULL}, addr : Addrs]
Replies == [type : {"reply"}, mac1 : 1..MaxInits, cookie : Cookies]
Ages == 0..MaxAge + 1

TypeOK ==
    /\ RateTypeOK
    /\ inits \in 0..MaxInits
    /\ maker \in [cookie : Cookies \cup {NULL}, age : Ages,
                  valid : BOOLEAN, mac1Sent : BOOLEAN]
    /\ maker.valid => maker.cookie # NULL
    /\ consuming \in Cookies \cup {NULL}
    /\ secret \in [n : 0..MaxSecrets, age : Ages]
    /\ net \subseteq Initiations \cup Replies

Init ==
    /\ RateInit
    /\ inits = 0
    /\ maker = [cookie |-> NULL, age |-> 0, valid |-> FALSE, mac1Sent |-> FALSE]
    /\ consuming = NULL
    /\ secret \in {[n |-> 0, age |-> 0], [n |-> 0, age |-> MaxAge + 1]}
    /\ net = {}

-----------------------------------------------------------------------------
\* cookie_maker_mac takes a cookie for good within this age.
Usable == maker.valid /\ maker.age <= MaxAge - Latency

\* cookie_maker_mac, for the next initiation, which leaves from the address the
\* initiator has by then.
Mac(a) ==
    /\ inits < MaxInits
    /\ inits' = inits + 1
    /\ net' = net \cup {[type |-> "initiation", mac1 |-> inits + 1, addr |-> a,
                         cookie |-> IF Usable THEN maker.cookie ELSE NULL]}
    /\ maker' = [maker EXCEPT !.mac1Sent = TRUE, !.valid = Usable]
    /\ UNCHANGED <<rateVars, consuming, secret>>

\* cm_mac1_last is the additional data of the reply's encryption.
Decrypts(m) == m.mac1 = inits

\* cookie_maker_consume_payload under the read lock, on the one thread that
\* receives handshake messages.
ConsumeCheck(m) ==
    /\ m.type = "reply" /\ consuming = NULL
    /\ maker.mac1Sent
    /\ Decrypts(m)
    /\ consuming' = m.cookie
    /\ UNCHANGED <<rateVars, inits, maker, secret, net>>

\* Mutant: a second reply to the same initiation is taken too.
InstalledAgain(c) == [cookie |-> c, age |-> 0, valid |-> TRUE, mac1Sent |-> maker.mac1Sent]
Installed(c) == [cookie |-> c, age |-> 0, valid |-> TRUE, mac1Sent |-> FALSE]

\* The rest of it, under the write lock.
ConsumeInstall ==
    /\ consuming # NULL
    /\ maker' = Installed(consuming)
    /\ consuming' = NULL
    /\ UNCHANGED <<rateVars, inits, secret, net>>

\* make_cookie's secret.
Redrawn == IF secret.age > MaxAge THEN [n |-> secret.n + 1, age |-> 0] ELSE secret

\* cookie_checker_validate_macs under load: mac2 is made with another cookie,
\* and cookie_checker_create_payload answers.
AnswerWithCookie(m) ==
    LET c == [secret |-> Redrawn.n, addr |-> m.addr] IN
    /\ m.type = "initiation" /\ Redrawn.n <= MaxSecrets
    /\ m.cookie # c
    /\ secret' = Redrawn
    /\ net' = net \cup {[type |-> "reply", mac1 |-> m.mac1, cookie |-> c]}
    /\ UNCHANGED <<rateVars, inits, maker, consuming>>

\* The sender proved its address: ratelimit_allow decides.
AskLimiter(m) ==
    /\ m.type = "initiation" /\ Redrawn.n <= MaxSecrets
    /\ m.cookie = [secret |-> Redrawn.n, addr |-> m.addr]
    /\ secret' = Redrawn
    /\ Allow(m.addr) \/ Refuse(m.addr)
    /\ UNCHANGED <<inits, maker, consuming, net>>

Older(n) == AtMost(n + 1, MaxAge + 1)
Tick ==
    /\ RateTick
    /\ maker' = [maker EXCEPT !.age = IF maker.valid THEN Older(@) ELSE @]
    /\ secret' = [secret EXCEPT !.age = Older(@)]
    /\ UNCHANGED <<inits, consuming, net>>

\* The limiter serves every other sender too.
OtherInitiator(a) == (Allow(a) \/ Refuse(a)) /\ UNCHANGED cookieVars

Collect == Gc /\ UNCHANGED cookieVars

Next ==
    \/ ConsumeInstall \/ Tick \/ Collect
    \/ \E m \in net : ConsumeCheck(m) \/ AnswerWithCookie(m) \/ AskLimiter(m)
    \/ \E a \in Addrs : Mac(a) \/ OtherInitiator(a)

\* Time passes and the callout runs.
Spec == Init /\ [][Next]_vars /\ WF_vars(Tick) /\ WF_vars(Collect)

-----------------------------------------------------------------------------
(* Correctness.                                                              *)

\* NULL is older than every cookie.
NoOlder(c, d) == c # NULL => d # NULL /\ d.secret >= c.secret

\* What the order of the cookies rests on: no message answers an initiation to
\* come, no cookie is ahead of the checker's secret, and neither the cookie being
\* consumed nor a reply the maker still accepts is older than its cookie.
CookieOrder ==
    /\ \A m \in net : m.mac1 <= inits
    /\ \A m \in net : m.type = "reply" => m.cookie.secret <= secret.n
    /\ \A c \in {maker.cookie, consuming} : c # NULL => c.secret <= secret.n
    /\ consuming # NULL => NoOlder(maker.cookie, consuming)
    /\ maker.mac1Sent => \A m \in net :
          m.type = "reply" /\ m.mac1 = inits => NoOlder(maker.cookie, m.cookie)

\* cookie_maker_consume_payload: whatever order replies arrive in, however often,
\* and though the lock is given up in between, the maker never goes from a
\* cookie of one secret back to a cookie of an earlier one.
CookiesMoveForward == [][NoOlder(maker.cookie, maker'.cookie)]_vars
=============================================================================
