----------------------------- MODULE CookieProofs -----------------------------
(* Proofs about the rate limiter and the cookie exchange of wg_cookie.c.      *)
EXTENDS Cookie, TLAPS

\* What the steps below need of the constants.
LEMMA Constants ==
    /\ Cost \in Nat /\ TokenMax \in Nat /\ Timeout \in Nat
    /\ 0 < Cost /\ Cost <= TokenMax /\ TokenMax <= Timeout
    /\ NULL \notin Entries /\ NULL \notin 0..Timeout
BY RateAssumption DEF Entries

\* Every table the limiter starts with is well formed.
LEMMA RateTypeInit == RateInit => RateTypeOK
BY DEF RateInit, RateTypeOK

\* Tokens never exceed the bucket.
LEMMA TokensBounded ==
    ASSUME RateTypeOK, NEW a \in Addrs, entry[a] # NULL
    PROVE  /\ entry[a] \in Entries
           /\ Tokens(a) \in 0..TokenMax
           /\ Tokens(a) >= Cost => Tokens(a) - Cost \in 0..TokenMax
<1>1. entry[a] \in Entries
    BY DEF RateTypeOK
<1>2. entry[a].tokens \in 0..TokenMax /\ entry[a].idle \in 0..Timeout + 1
    BY <1>1 DEF Entries
<1>3. Tokens(a) \in 0..TokenMax
    BY <1>2, Constants DEF Tokens, AtMost
<1> QED
    BY <1>1, <1>3, Constants

\* Each operation of the limiter keeps the table well formed.
LEMMA RateTypeStep == RateTypeOK /\ [RateNext]_rateVars => RateTypeOK'
<1> SUFFICES ASSUME RateTypeOK, [RateNext]_rateVars PROVE RateTypeOK'
    OBVIOUS
<1>1. CASE RateTick
    <2>1. ASSUME NEW a \in Addrs, entry[a] # NULL
          PROVE  [tokens |-> entry[a].tokens,
                  idle |-> AtMost(entry[a].idle + 1, Timeout + 1)] \in Entries
        <3>1. entry[a] \in Entries
            BY <2>1, TokensBounded
        <3>2. AtMost(entry[a].idle + 1, Timeout + 1) \in 0..Timeout + 1
            BY <3>1, Constants DEF AtMost, Entries
        <3> QED
            BY <3>1, <3>2 DEF Entries
    <2>2. entry' \in [Addrs -> Entries \cup {NULL}]
        BY <1>1, <2>1 DEF RateTick
    <2>3. gcIn' \in 0..Timeout \cup {NULL}
        BY <1>1, Constants DEF RateTick, RateTypeOK
    <2> QED
        BY <2>2, <2>3 DEF RateTypeOK
<1>2. CASE Gc
    BY <1>2, Constants DEF Gc, Rearmed, Scheduled, RateTypeOK
<1>3. ASSUME NEW a \in Addrs, Allow(a) \/ Refuse(a) PROVE RateTypeOK'
    <2>1. CASE AllowKnown(a)
        BY <2>1, TokensBounded, Constants DEF AllowKnown, RateTypeOK, Entries
    <2>2. CASE RefuseKnown(a)
        BY <2>2, TokensBounded, Constants DEF RefuseKnown, RateTypeOK, Entries
    <2>3. CASE AllowNew(a)
        <3>1. [tokens |-> TokenMax - Cost, idle |-> 0] \in Entries
            BY Constants DEF Entries
        <3> QED
            BY <2>3, <3>1, Constants DEF AllowNew, Scheduled, RateTypeOK
    <2>4. CASE RefuseNew(a)
        BY <2>4 DEF RefuseNew, RateTypeOK
    <2> QED
        BY <1>3, <2>1, <2>2, <2>3, <2>4 DEF Allow, Refuse
<1>4. CASE UNCHANGED rateVars
    BY <1>4 DEF rateVars, RateTypeOK
<1> QED
    BY <1>1, <1>2, <1>3, <1>4 DEF RateNext

-----------------------------------------------------------------------------
(* The limiter implements a token bucket.                                    *)

\* An empty table is a set of full buckets.
LEMMA BucketInit == RateInit => Bucket!Init
BY DEF RateInit, Bucket!Init, Level

\* A tick fills every bucket by one, until it is full.
LEMMA BucketTick == RateTypeOK /\ RateTick => Bucket!Tick
<1> SUFFICES ASSUME RateTypeOK, RateTick PROVE Bucket!Tick
    OBVIOUS
<1>1. ASSUME NEW a \in Addrs
      PROVE  Level'[a] = IF Level[a] < TokenMax THEN Level[a] + 1 ELSE TokenMax
    <2>1. CASE entry[a] = NULL
        BY <2>1, Constants DEF RateTick, Level
    <2>2. CASE entry[a] # NULL
        <3> DEFINE older == [tokens |-> entry[a].tokens,
                             idle   |-> AtMost(entry[a].idle + 1, Timeout + 1)]
        <3>1. entry[a] \in Entries
            BY <2>2, TokensBounded
        <3>2. /\ older.tokens = entry[a].tokens
              /\ older.idle = AtMost(entry[a].idle + 1, Timeout + 1)
              /\ older \in Entries
            BY <3>1, Constants DEF Entries, AtMost
        <3>3. entry'[a] = older
            BY <2>2 DEF RateTick
        <3>4. Level'[a] = AtMost(older.tokens + older.idle, TokenMax)
            BY <3>2, <3>3, Constants DEF Level, Tokens
        <3>5. Level[a] = AtMost(entry[a].tokens + entry[a].idle, TokenMax)
            BY <2>2 DEF Level, Tokens
        <3>6. entry[a].tokens \in 0..TokenMax /\ entry[a].idle \in 0..Timeout + 1
            BY <3>1 DEF Entries
        <3> HIDE DEF older
        <3> QED
            BY <3>2, <3>4, <3>5, <3>6, Constants DEF AtMost
    <2> QED
        BY <2>1, <2>2
<1>2. Level' = [a \in Addrs |-> IF Level[a] < TokenMax THEN Level[a] + 1 ELSE TokenMax]
    BY <1>1 DEF Level
<1> QED
    BY <1>2 DEF Bucket!Tick, RateTick

\* The callout changes no bucket: what it removes has been idle long enough to
\* be full.
LEMMA BucketGc == RateTypeOK /\ Gc => UNCHANGED <<Level, answer>>
<1> SUFFICES ASSUME RateTypeOK, Gc PROVE UNCHANGED <<Level, answer>>
    OBVIOUS
<1>1. ASSUME NEW a \in Addrs PROVE Level'[a] = Level[a]
    <2>1. CASE Expired(a)
        <3>1. entry[a] # NULL /\ entry[a] \in Entries /\ entry[a].idle > Timeout
            BY <2>1, TokensBounded DEF Expired
        <3>2. Level[a] = TokenMax
            BY <3>1, Constants DEF Level, Tokens, AtMost, Entries
        <3>3. entry'[a] = NULL
            BY <2>1 DEF Gc
        <3> QED
            BY <3>2, <3>3 DEF Level
    <2>2. CASE ~Expired(a)
        <3>1. entry'[a] = entry[a]
            BY <2>2 DEF Gc
        <3> QED
            BY <3>1 DEF Level, Tokens
    <2> QED
        BY <2>1, <2>2
<1> QED
    BY <1>1 DEF Gc, Level

\* An allowed initiation costs its address Cost, and nobody else anything.
LEMMA BucketAllow ==
    ASSUME RateTypeOK, NEW a \in Addrs, Allow(a) PROVE Bucket!Allow(a)
<1>1. /\ Level[a] >= Cost /\ Level'[a] = Level[a] - Cost
      /\ \A b \in Addrs \ {a} : entry'[b] = entry[b]
      /\ answer' = <<a, TRUE>>
    <2>1. CASE AllowKnown(a)
        <3>1. /\ entry[a] # NULL /\ Tokens(a) >= Cost /\ answer' = <<a, TRUE>>
              /\ entry' = [entry EXCEPT ![a] = [tokens |-> Tokens(a) - Cost, idle |-> 0]]
            BY <2>1 DEF AllowKnown
        <3>2. Tokens(a) - Cost \in 0..TokenMax /\ Tokens(a) \in 0..TokenMax
            BY <3>1, TokensBounded
        <3>3. entry'[a] = [tokens |-> Tokens(a) - Cost, idle |-> 0] /\ entry'[a] \in Entries
            BY <3>1, <3>2, Constants DEF RateTypeOK, Entries
        <3>4. Level'[a] = AtMost(Tokens(a) - Cost + 0, TokenMax)
            BY <3>3, Constants DEF Level, Tokens
        <3>5. Level'[a] = Tokens(a) - Cost
            BY <3>2, <3>4, Constants DEF AtMost
        <3>6. Level[a] = Tokens(a)
            BY <3>1 DEF Level
        <3> QED
            BY <3>1, <3>5, <3>6 DEF RateTypeOK
    <2>2. CASE AllowNew(a)
        <3>1. /\ entry[a] = NULL /\ answer' = <<a, TRUE>>
              /\ entry' = [entry EXCEPT ![a] = [tokens |-> TokenMax - Cost, idle |-> 0]]
            BY <2>2 DEF AllowNew
        <3>2. entry'[a] = [tokens |-> TokenMax - Cost, idle |-> 0] /\ entry'[a] \in Entries
            BY <3>1, Constants DEF RateTypeOK, Entries
        <3>3. Level'[a] = AtMost(TokenMax - Cost + 0, TokenMax)
            BY <3>2, Constants DEF Level, Tokens
        <3>4. Level'[a] = TokenMax - Cost /\ Level[a] = TokenMax
            BY <3>1, <3>3, Constants DEF Level, AtMost
        <3> QED
            BY <3>1, <3>4, Constants DEF RateTypeOK
    <2> QED
        BY <2>1, <2>2 DEF Allow
<1>2. \A b \in Addrs \ {a} : Level'[b] = Level[b]
    BY <1>1 DEF Level, Tokens
<1>3. Level' = [Level EXCEPT ![a] = @ - Cost]
    BY <1>1, <1>2 DEF Level
<1> QED
    BY <1>1, <1>3 DEF Bucket!Allow

\* A refused one has too few tokens, or is new, and keeps what it has.
LEMMA BucketRefuse ==
    ASSUME RateTypeOK, NEW a \in Addrs, Refuse(a) PROVE Bucket!Refuse(a)
<1>1. CASE RefuseKnown(a)
    <2>1. /\ entry[a] # NULL /\ Tokens(a) < Cost /\ answer' = <<a, FALSE>>
          /\ entry' = [entry EXCEPT ![a] = [tokens |-> Tokens(a), idle |-> 0]]
        BY <1>1 DEF RefuseKnown
    <2>2. Tokens(a) \in 0..TokenMax
        BY <2>1, TokensBounded
    <2>3. entry'[a] = [tokens |-> Tokens(a), idle |-> 0] /\ entry'[a] \in Entries
        BY <2>1, <2>2, Constants DEF RateTypeOK, Entries
    <2>4. Level'[a] = AtMost(Tokens(a) + 0, TokenMax)
        BY <2>3, Constants DEF Level, Tokens
    <2>5. Level'[a] = Tokens(a) /\ Level[a] = Tokens(a)
        BY <2>1, <2>2, <2>4, Constants DEF Level, AtMost
    <2>6. \A b \in Addrs \ {a} : entry'[b] = entry[b]
        BY <2>1 DEF RateTypeOK
    <2>7. \A b \in Addrs \ {a} : Level'[b] = Level[b]
        BY <2>6 DEF Level, Tokens
    <2>8. Level' = Level
        BY <2>5, <2>7 DEF Level
    <2> QED
        BY <2>1, <2>5, <2>8 DEF Bucket!Refuse
<1>2. CASE RefuseNew(a)
    BY <1>2 DEF RefuseNew, Bucket!Refuse, Level, Tokens
<1> QED
    BY <1>1, <1>2 DEF Refuse

\* Every step of the limiter is a step of the bucket, or none.
LEMMA BucketStep ==
    RateTypeOK /\ [RateNext]_rateVars => [Bucket!Next]_(Bucket!vars)
<1> SUFFICES ASSUME RateTypeOK, [RateNext]_rateVars PROVE [Bucket!Next]_(Bucket!vars)
    OBVIOUS
<1>1. CASE RateTick
    BY <1>1, BucketTick DEF Bucket!Next
<1>2. CASE Gc
    BY <1>2, BucketGc DEF Bucket!vars
<1>3. ASSUME NEW a \in Addrs, Allow(a) \/ Refuse(a) PROVE Bucket!Next
    BY <1>3, BucketAllow, BucketRefuse DEF Bucket!Next
<1>4. CASE UNCHANGED rateVars
    BY <1>4 DEF rateVars, Bucket!vars, Level, Tokens
<1> QED
    BY <1>1, <1>2, <1>3, <1>4 DEF RateNext

\* ratelimit_allow and ratelimit_gc together are a token bucket per address,
\* for every cost, burst and time-out under which an idle entry has filled up
\* before it is removed.
THEOREM LimiterIsBucket == RateSpec => ImplementsBucket
<1>1. RateSpec => []RateTypeOK
    BY RateTypeInit, RateTypeStep, PTL DEF RateSpec
<1> QED
    BY <1>1, BucketInit, BucketStep, PTL DEF RateSpec, ImplementsBucket, Bucket!Spec

-----------------------------------------------------------------------------
(* The cookie exchange.                                                      *)

\* What the steps below need of the exchange's constants.
LEMMA CookieConstants ==
    /\ MaxAge \in Nat /\ Latency \in 0..MaxAge
    /\ MaxInits \in Nat /\ MaxSecrets \in Nat /\ NULL \notin Cookies
BY AgeAssumption

\* The exchange starts well formed.
LEMMA TypeInit == Init => TypeOK
<1> SUFFICES ASSUME Init PROVE TypeOK
    OBVIOUS
<1>1. RateTypeOK
    BY RateTypeInit DEF Init
<1>2. /\ maker = [cookie |-> NULL, age |-> 0, valid |-> FALSE, mac1Sent |-> FALSE]
      /\ secret \in {[n |-> 0, age |-> 0], [n |-> 0, age |-> MaxAge + 1]}
      /\ inits = 0 /\ consuming = NULL /\ net = {}
    BY DEF Init
<1>3. secret \in [n : 0..MaxSecrets, age : Ages]
    BY <1>2, CookieConstants DEF Ages
<1>4. maker \in [cookie : Cookies \cup {NULL}, age : Ages,
                 valid : BOOLEAN, mac1Sent : BOOLEAN] /\ ~maker.valid
    BY <1>2, CookieConstants DEF Ages
<1> QED
    BY <1>1, <1>2, <1>3, <1>4, CookieConstants DEF TypeOK

\* Every operation of the exchange keeps it well formed.
LEMMA TypeStep == TypeOK /\ [Next]_vars => TypeOK'
<1> DEFINE Maker == [cookie : Cookies \cup {NULL}, age : Ages,
                     valid : BOOLEAN, mac1Sent : BOOLEAN]
<1> SUFFICES ASSUME TypeOK, [Next]_vars PROVE TypeOK'
    OBVIOUS
<1>0. /\ RateTypeOK /\ inits \in 0..MaxInits /\ maker \in Maker
      /\ maker.valid => maker.cookie # NULL
      /\ consuming \in Cookies \cup {NULL}
      /\ secret \in [n : 0..MaxSecrets, age : Ages]
      /\ net \subseteq Initiations \cup Replies
    BY DEF TypeOK
<1>a. ASSUME UNCHANGED rateVars PROVE RateTypeOK'
    BY <1>0, <1>a, RateTypeStep
<1>b. ASSUME NEW a \in Addrs, Allow(a) \/ Refuse(a) PROVE RateTypeOK'
    BY <1>0, <1>b, RateTypeStep DEF RateNext
<1>c. ASSUME Redrawn.n <= MaxSecrets
      PROVE  Redrawn \in [n : 0..MaxSecrets, age : Ages]
    BY <1>0, <1>c, CookieConstants DEF Redrawn, Ages
<1>d. ASSUME NEW m \in net PROVE m \in Initiations \cup Replies /\ m.mac1 \in 1..MaxInits
    BY <1>0 DEF Initiations, Replies
<1>1. ASSUME NEW a \in Addrs, Mac(a) PROVE TypeOK'
    <2> DEFINE c == IF Usable THEN maker.cookie ELSE NULL
               i == [type |-> "initiation", mac1 |-> inits + 1, addr |-> a, cookie |-> c]
    <2>1. inits + 1 \in 1..MaxInits
        BY <1>0, <1>1, CookieConstants DEF Mac
    <2>2. c \in Cookies \cup {NULL}
        BY <1>0
    <2>3. i \in Initiations
        BY <2>1, <2>2 DEF Initiations
    <2>4. net' = net \cup {i}
        BY <1>1 DEF Mac
    <2>5. net' \subseteq Initiations \cup Replies
        BY <1>0, <2>3, <2>4
    <2>6. maker' \in Maker /\ (maker'.valid => maker'.cookie # NULL)
        BY <1>0, <1>1 DEF Mac, Usable
    <2>7. UNCHANGED rateVars /\ inits' = inits + 1 /\ UNCHANGED <<consuming, secret>>
        BY <1>1 DEF Mac
    <2> QED
        BY <1>0, <1>a, <2>1, <2>5, <2>6, <2>7 DEF TypeOK
<1>2. ASSUME NEW m \in net, ConsumeCheck(m) PROVE TypeOK'
    <2>1. m \in Replies
        BY <1>2, <1>d DEF ConsumeCheck, Initiations, Replies
    <2> QED
        BY <1>0, <1>2, <1>a, <2>1 DEF ConsumeCheck, Replies, TypeOK
<1>3. CASE ConsumeInstall
    <2>1. maker' \in Maker /\ (maker'.valid => maker'.cookie # NULL)
        BY <1>0, <1>3, CookieConstants DEF ConsumeInstall, Installed, Ages
    <2> QED
        BY <1>0, <1>3, <1>a, <2>1 DEF ConsumeInstall, TypeOK
<1>4. ASSUME NEW m \in net, AnswerWithCookie(m) PROVE TypeOK'
    <2> DEFINE c == [secret |-> Redrawn.n, addr |-> m.addr]
               r == [type |-> "reply", mac1 |-> m.mac1, cookie |-> c]
    <2>1. m.type = "initiation" /\ Redrawn.n <= MaxSecrets /\ net' = net \cup {r}
        BY <1>4 DEF AnswerWithCookie
    <2>2. m.addr \in Addrs
        BY <1>d, <2>1 DEF Initiations, Replies
    <2>3. c \in Cookies
        BY <1>c, <2>1, <2>2 DEF Cookies
    <2>4. r \in Replies
        BY <1>d, <2>3 DEF Replies
    <2>5. net' \subseteq Initiations \cup Replies
        BY <1>0, <2>1, <2>4
    <2> QED
        BY <1>0, <1>4, <1>a, <1>c, <2>1, <2>5 DEF AnswerWithCookie, TypeOK
<1>5. ASSUME NEW m \in net, AskLimiter(m) PROVE TypeOK'
    <2>1. m.addr \in Addrs
        BY <1>5, <1>d DEF AskLimiter, Initiations, Replies
    <2> QED
        BY <1>0, <1>5, <1>b, <1>c, <2>1 DEF AskLimiter, TypeOK
<1>6. CASE Tick
    <2>1. RateTypeOK'
        BY <1>0, <1>6, RateTypeStep DEF Tick, RateNext
    <2>2. \A n \in Ages : Older(n) \in Ages
        BY CookieConstants DEF Ages, Older, AtMost
    <2>3. maker' \in Maker /\ (maker'.valid => maker'.cookie # NULL)
        BY <1>0, <1>6, <2>2 DEF Tick
    <2>4. secret' \in [n : 0..MaxSecrets, age : Ages]
        BY <1>0, <1>6, <2>2 DEF Tick
    <2> QED
        BY <1>0, <1>6, <2>1, <2>3, <2>4 DEF Tick, TypeOK
<1>7. ASSUME NEW a \in Addrs, OtherInitiator(a) PROVE TypeOK'
    BY <1>0, <1>7, <1>b DEF OtherInitiator, cookieVars, TypeOK
<1>8. CASE Collect
    BY <1>0, <1>8, RateTypeStep DEF Collect, RateNext, cookieVars, TypeOK
<1>9. CASE UNCHANGED vars
    BY <1>0, <1>9, <1>a DEF vars, cookieVars, TypeOK
<1> QED
    BY <1>1, <1>2, <1>3, <1>4, <1>5, <1>6, <1>7, <1>8, <1>9 DEF Next

\* The maker, the checker and the messages stay well formed.
THEOREM CookieTypeCorrect == Spec => []TypeOK
BY TypeInit, TypeStep, PTL DEF Spec

\* The exchange uses the limiter as it is.
LEMMA CookieStep == TypeOK /\ [Next]_vars => [RateNext]_rateVars
<1> SUFFICES ASSUME TypeOK, [Next]_vars PROVE [RateNext]_rateVars
    OBVIOUS
<1>1. ASSUME NEW m \in net, AskLimiter(m) PROVE RateNext
    <2>1. m.addr \in Addrs /\ (Allow(m.addr) \/ Refuse(m.addr))
        BY <1>1 DEF AskLimiter, TypeOK, Initiations, Replies
    <2> QED
        BY <2>1 DEF RateNext
<1> QED
    BY <1>1 DEF Next, vars, rateVars, RateNext, Tick, Collect, OtherInitiator, Mac,
        ConsumeInstall, ConsumeCheck, AnswerWithCookie

\* ratelimit_allow and ratelimit_gc are a token bucket per address within the
\* exchange too, whatever the responder is asked and however time passes.
THEOREM CookieLimiterIsBucket == Spec => ImplementsBucket
<1>1. Spec => RateSpec
    <2>1. Init => RateInit
        BY DEF Init
    <2> QED
        BY <2>1, CookieStep, CookieTypeCorrect, PTL DEF Spec, RateSpec
<1> QED
    BY <1>1, LimiterIsBucket

-----------------------------------------------------------------------------
(* The order of the cookies.                                                 *)

\* No message and no cookie: nothing is out of order.
LEMMA OrderInit == Init => CookieOrder
BY DEF Init, CookieOrder, NoOlder

\* A secret drawn anew comes after the others.
LEMMA RedrawnLater == TypeOK => Redrawn.n \in Nat /\ Redrawn.n >= secret.n
BY CookieConstants DEF TypeOK, Redrawn

\* A message or a cookie has the fields the order speaks of.
LEMMA OrderTypes ==
    ASSUME TypeOK
    PROVE  /\ inits \in Nat /\ secret.n \in Nat
           /\ \A m \in net : m.mac1 \in Nat
           /\ \A m \in net : m.type = "reply" => m.cookie \in Cookies
           /\ \A c \in {maker.cookie, consuming} : c # NULL => c \in Cookies
           /\ \A c \in Cookies : c.secret \in Nat
           /\ maker.mac1Sent \in BOOLEAN
BY DEF TypeOK, Initiations, Replies, Cookies

\* What each operation keeps of the order.
LEMMA OrderStep == TypeOK /\ CookieOrder /\ [Next]_vars => CookieOrder'
<1> SUFFICES ASSUME TypeOK, CookieOrder, [Next]_vars PROVE CookieOrder'
    OBVIOUS
<1>0. /\ \A m \in net : m.mac1 <= inits
      /\ \A m \in net : m.type = "reply" => m.cookie.secret <= secret.n
      /\ \A c \in {maker.cookie, consuming} : c # NULL => c.secret <= secret.n
      /\ consuming # NULL => NoOlder(maker.cookie, consuming)
      /\ maker.mac1Sent => \A m \in net :
             m.type = "reply" /\ m.mac1 = inits => NoOlder(maker.cookie, m.cookie)
    BY DEF CookieOrder
<1>1. ASSUME NEW a \in Addrs, Mac(a) PROVE CookieOrder'
    <2> DEFINE i == [type |-> "initiation", mac1 |-> inits + 1, addr |-> a,
                     cookie |-> IF Usable THEN maker.cookie ELSE NULL]
    <2>1. net' = net \cup {i} /\ inits' = inits + 1 /\ UNCHANGED <<consuming, secret>>
        BY <1>1 DEF Mac
    <2>2. maker'.cookie = maker.cookie
        BY <1>1 DEF Mac, TypeOK
    <2>3. i.type = "initiation" /\ i.mac1 = inits + 1
        OBVIOUS
    <2> HIDE DEF i
    <2>4. \A m \in net' : m.type = "reply" => m \in net /\ m.mac1 # inits'
        BY <1>0, <2>1, <2>3, OrderTypes
    <2>5. \A m \in net' : m.mac1 <= inits'
        BY <1>0, <2>1, <2>3, OrderTypes
    <2> QED
        BY <1>0, <2>1, <2>2, <2>4, <2>5 DEF CookieOrder
<1>2. ASSUME NEW m \in net, ConsumeCheck(m) PROVE CookieOrder'
    <2>1. /\ m.type = "reply" /\ m.mac1 = inits /\ maker.mac1Sent
          /\ consuming' = m.cookie /\ UNCHANGED <<inits, maker, secret, net>>
        BY <1>2 DEF ConsumeCheck, Decrypts
    <2>2. NoOlder(maker.cookie, m.cookie) /\ m.cookie.secret <= secret.n
        BY <1>0, <2>1
    <2> QED
        BY <1>0, <2>1, <2>2 DEF CookieOrder
<1>3. CASE ConsumeInstall
    <2>1. /\ consuming # NULL /\ maker' = Installed(consuming) /\ consuming' = NULL
          /\ UNCHANGED <<inits, secret, net>>
        BY <1>3 DEF ConsumeInstall
    <2>2. maker'.cookie = consuming /\ ~maker'.mac1Sent
        BY <2>1 DEF Installed
    <2> QED
        BY <1>0, <2>1, <2>2 DEF CookieOrder
<1>4. ASSUME NEW m \in net, AnswerWithCookie(m) PROVE CookieOrder'
    <2> DEFINE c == [secret |-> Redrawn.n, addr |-> m.addr]
               r == [type |-> "reply", mac1 |-> m.mac1, cookie |-> c]
    <2>1. /\ net' = net \cup {r} /\ secret'.n = Redrawn.n
          /\ UNCHANGED <<inits, maker, consuming>>
        BY <1>4 DEF AnswerWithCookie
    <2>2. r.mac1 = m.mac1 /\ r.cookie = c /\ c.secret = Redrawn.n
        OBVIOUS
    <2>3. c # NULL
        <3>1. c \in Cookies
            BY <1>4, TypeStep DEF AnswerWithCookie, TypeOK, Initiations, Replies, Cookies, Redrawn
        <3> QED
            BY <3>1, CookieConstants
    <2> HIDE DEF c, r
    <2>4. secret'.n \in Nat /\ secret'.n >= secret.n
        BY <2>1, RedrawnLater
    <2>5. \A d \in Cookies : d.secret <= secret.n => d.secret <= secret'.n
        BY <2>4, OrderTypes
    <2>6. NoOlder(maker.cookie, c)
        BY <1>0, <2>1, <2>2, <2>3, <2>4, <2>5, OrderTypes DEF NoOlder
    <2>7. \A n \in net' : n.mac1 <= inits'
        BY <1>0, <2>1, <2>2
    <2>8. \A n \in net' : n.type = "reply" => n.cookie.secret <= secret'.n
        BY <1>0, <2>1, <2>2, <2>4, <2>5, OrderTypes
    <2>9. \A d \in {maker'.cookie, consuming'} : d # NULL => d.secret <= secret'.n
        BY <1>0, <2>1, <2>5, OrderTypes
    <2>10. maker'.mac1Sent => \A n \in net' :
             n.type = "reply" /\ n.mac1 = inits' => NoOlder(maker'.cookie, n.cookie)
        BY <1>0, <2>1, <2>2, <2>6
    <2> QED
        BY <1>0, <2>1, <2>7, <2>8, <2>9, <2>10 DEF CookieOrder
<1>5. ASSUME NEW m \in net, AskLimiter(m) PROVE CookieOrder'
    <2>1. secret'.n = Redrawn.n /\ UNCHANGED <<inits, maker, consuming, net>>
        BY <1>5 DEF AskLimiter
    <2>2. \A d \in Cookies : d.secret <= secret.n => d.secret <= secret'.n
        BY <2>1, RedrawnLater, OrderTypes
    <2> QED
        BY <1>0, <2>1, <2>2, OrderTypes DEF CookieOrder
<1>6. CASE Tick
    <2>1. /\ maker'.cookie = maker.cookie /\ maker'.mac1Sent = maker.mac1Sent
          /\ secret'.n = secret.n /\ UNCHANGED <<inits, consuming, net>>
        BY <1>6 DEF Tick, TypeOK
    <2> QED
        BY <1>0, <2>1 DEF CookieOrder
<1>7. CASE UNCHANGED cookieVars
    BY <1>0, <1>7 DEF cookieVars, CookieOrder
<1> QED
    BY <1>1, <1>2, <1>3, <1>4, <1>5, <1>6, <1>7 DEF Next, OtherInitiator, Collect, vars

\* The invariant of the exchange, for any number of initiations and secrets.
THEOREM CookiesAlwaysInOrder == Spec => []CookieOrder
BY OrderInit, OrderStep, CookieTypeCorrect, PTL DEF Spec

\* One step never takes the maker back to an older cookie.
LEMMA ForwardStep ==
    TypeOK /\ CookieOrder /\ [Next]_vars => NoOlder(maker.cookie, maker'.cookie)
<1> SUFFICES ASSUME TypeOK, CookieOrder, [Next]_vars
             PROVE  NoOlder(maker.cookie, maker'.cookie)
    OBVIOUS
<1>1. CASE ConsumeInstall
    BY <1>1 DEF ConsumeInstall, Installed, CookieOrder
<1>2. CASE maker'.cookie = maker.cookie
    BY <1>2, OrderTypes DEF NoOlder
<1>3. ASSUME NEW a \in Addrs, Mac(a) PROVE maker'.cookie = maker.cookie
    BY <1>3 DEF Mac, TypeOK
<1>4. CASE Tick
    BY <1>2, <1>4 DEF Tick, TypeOK
<1>5. CASE UNCHANGED maker
    BY <1>2, <1>5
<1> QED
    BY <1>1, <1>2, <1>3, <1>4, <1>5 DEF Next, ConsumeCheck, AnswerWithCookie, AskLimiter,
        OtherInitiator, Collect, cookieVars, vars

\* Whatever the network does with the replies, and though the maker's lock is
\* given up between checking one and installing its cookie, the maker's cookies
\* come from ever later secrets.
THEOREM CookiesAlwaysForward == Spec => CookiesMoveForward
<1>1. TypeOK /\ CookieOrder /\ [Next]_vars => [NoOlder(maker.cookie, maker'.cookie)]_vars
    BY ForwardStep
<1> QED
    BY <1>1, CookieTypeCorrect, CookiesAlwaysInOrder, PTL DEF Spec, CookiesMoveForward

=============================================================================
