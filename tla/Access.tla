------------------------------- MODULE Access -------------------------------
(***************************************************************************)
(* How a session is let in.  The gateway keeps the tenants' apps in step   *)
(* with a sync endpoint (multi_tenancy/store.rs) and gives a tenant who    *)
(* shows the secret of an app a token per protocol (api_token.rs); the     *)
(* media APIs take a session's app, room and peer from its token           *)
(* (api_media/*.rs, media_secure/jwt.rs).                                  *)
(* Signatures and claims are checked by the jwt library, which is modelled *)
(* as it is configured: the issuer has to be the allowed one, and the      *)
(* expiry may be exceeded by its tolerance.                                *)
(***************************************************************************)
EXTENDS Integers, Sequences, FiniteSets

CONSTANTS
    Apps,           \* app ids, "" is the root app
    Secrets,        \* app secrets
    Peers,          \* peers of the one room
    MaxTtl,         \* largest ttl of a token, in ticks
    Tolerance,      \* time tolerance of the jwt library, in ticks
    MaxTokens,      \* bound on tokens
    MaxChanges,     \* bound on changes at the sync endpoint
    MaxFailures     \* bound on failed syncs

VARIABLES
    known,      \* the apps the sync endpoint tells
    syncing,    \* MultiTenancySync: off, sleeping, asking, or the answer it got
    store,      \* MultiTenancyStorageInternal: apps and secrets
    tokens,     \* tokens that were given
    session,    \* the last session that was let in, with its token
    gone,       \* app -> ticks since the gateway could give a token for it (history)
    used        \* how much of the bounds is used

vars == <<known, syncing, store, tokens, session, gone, used>>

Nil == "none"
Room == "room"
Info == [app : Apps, secret : Secrets]
Kinds == {"whip", "whep", "webrtc", "rtp"}
Sleeping == <<"sleeping">>
Asking == <<"asking">>
Off == <<"off">>

\* Lists the endpoint may tell: each app once.
Lists == {l \in UNION {[1 .. n -> Info] : n \in 0 .. 2} : \A i, j \in DOMAIN l : i # j => l[i].app # l[j].app}

\* The secrets of apps that are gone stay.
sync_MutantSecrets(s, list) ==
    [apps |-> {list[i] : i \in DOMAIN list},
     secrets |-> {list[i] : i \in DOMAIN list} \cup s.secrets]

\* MultiTenancyStorageInternal::sync: both maps are cleared and filled again; of
\* two apps with the same secret the later one has it.
sync(s, list) ==
    [apps |-> {list[i] : i \in DOMAIN list},
     secrets |-> {list[i] : i \in {k \in DOMAIN list : \A j \in DOMAIN list : j > k => list[j].secret # list[k].secret}}]

NoApps == [apps |-> {}, secrets |-> {}]

\* new_with_single: without a sync endpoint there is the root app.
new_with_single(secret) == sync(NoApps, <<[app |-> "", secret |-> secret]>>)

\* validate_app: the app of a secret.
validate_app(secret) == {i.app : i \in {x \in store.secrets : x.secret = secret}}

\* The gateway can give tokens for the app.
Served(s, app) == \E i \in s.secrets : i.app = app

\* encode_token: the app is the subject, unless it is the root app.
encode_token(kind, app, ob, ttl) ==
    [issuer |-> kind, subject |-> IF app = "" THEN Nil ELSE app, ob |-> ob, left |-> ttl, by |-> app]

\* verify_token of the library: the issuer is allowed, and the expiry is not
\* exceeded by more than the tolerance.
verify_token(t, issuer) == t.issuer = issuer /\ t.left >= 0 - Tolerance

\* decode_token: what the token is of this protocol says, if it is not expired.
decode_token(t, kind) ==
    IF verify_token(t, kind) /\ t.left > 0
    THEN {[app |-> IF t.subject = Nil THEN "" ELSE t.subject, ob |-> t.ob]} ELSE {}

------------------------------------------------------------------------------
(* The apps *)

\* The tenants change at the endpoint.
Change(list) ==
    /\ used.changes < MaxChanges /\ list # known
    /\ known' = list /\ used' = [used EXCEPT !.changes = @ + 1]
    /\ UNCHANGED <<syncing, store, tokens, session, gone>>

\* MultiTenancySync::sync: the endpoint is asked,
Ask ==
    /\ syncing = Sleeping
    /\ syncing' = Asking
    /\ UNCHANGED <<known, store, tokens, session, gone, used>>

\* it answers with the apps of this moment,
Answer ==
    /\ syncing = Asking
    /\ syncing' = <<"answer", known>>
    /\ UNCHANGED <<known, store, tokens, session, gone, used>>

\* which are stored, and the loop sleeps.
Apply ==
    /\ syncing[1] = "answer"
    /\ store' = sync(store, syncing[2])
    /\ syncing' = Sleeping
    /\ gone' = [a \in Apps |-> IF Served(store', a) THEN 0 ELSE gone[a]]
    /\ UNCHANGED <<known, tokens, session, used>>

\* The error ends the loop.
Fail_MutantEnds ==
    /\ syncing \notin {Sleeping, Off} /\ used.failures < MaxFailures
    /\ syncing' = Off /\ used' = [used EXCEPT !.failures = @ + 1]
    /\ UNCHANGED <<known, store, tokens, session, gone>>

\* run_loop: a failed request or answer is logged and the loop sleeps.
Fail ==
    /\ syncing \notin {Sleeping, Off} /\ used.failures < MaxFailures
    /\ syncing' = Sleeping /\ used' = [used EXCEPT !.failures = @ + 1]
    /\ UNCHANGED <<known, store, tokens, session, gone>>

------------------------------------------------------------------------------
(* The token APIs *)

\* A token for the app of the secret; a secret of no app gets an error.
Give(kind, secret, ob, ttl) ==
    /\ used.tokens < MaxTokens
    /\ \E app \in validate_app(secret) : tokens' = tokens \cup {encode_token(kind, app, ob, ttl)}
    /\ used' = [used EXCEPT !.tokens = @ + 1]
    /\ UNCHANGED <<known, syncing, store, session, gone>>

whip_token(secret, peer, ttl) == Give("whip", secret, [room |-> Room, peer |-> peer], ttl)

\* The peer may be left open,
whep_token(secret, peer, ttl) == Give("whep", secret, [room |-> Room, peer |-> peer], ttl)

\* and for webrtc the room too.
webrtc_token(secret, room, peer, ttl) == Give("webrtc", secret, [room |-> room, peer |-> peer], ttl)

rtpengine_token(secret, peer, ttl) == Give("rtp", secret, [room |-> Room, peer |-> peer], ttl)

------------------------------------------------------------------------------
(* The media APIs *)

\* A session is created with the app, room and peer; otherwise the request is refused.
Enter(t, kind, app, room, peer) ==
    /\ session' = {[kind |-> kind, app |-> app, room |-> room, peer |-> peer, token |-> t]}
    /\ UNCHANGED <<known, syncing, store, tokens, gone, used>>

whip_create(t) == \E d \in decode_token(t, "whip") : Enter(t, "whip", d.app, d.ob.room, d.ob.peer)

\* A token without a peer gives the session a random one.
whep_create(t) ==
    \E d \in decode_token(t, "whep") :
        Enter(t, "whep", d.app, d.ob.room, IF d.ob.peer = Nil THEN "whep-random" ELSE d.ob.peer)

\* The join of a request names the room and the peer of the token.
MayJoin(ob, join) == \A j \in join : ob.room = j.room /\ ob.peer = j.peer

\* A request without a join creates a session that joins later, over its
\* data channel, where the token plays no part.
webrtc_connect(t, join) ==
    \E d \in decode_token(t, "webrtc") :
        /\ MayJoin(d.ob, join)
        /\ \/ join = {} /\ Enter(t, "webrtc", d.app, Nil, Nil)
           \/ \E j \in join : Enter(t, "webrtc", d.app, j.room, j.peer)

\* Restarting ICE checks the token as connecting does; the session is the one of
\* the connection id, or a new one if it is gone.
webrtc_restart_ice(t, join) ==
    \E d \in decode_token(t, "webrtc") :
        /\ MayJoin(d.ob, join)
        /\ \/ join = {} /\ Enter(t, "webrtc", d.app, Nil, Nil)
           \/ \E j \in join : Enter(t, "webrtc", d.app, j.room, j.peer)

create_offer(t) == \E d \in decode_token(t, "rtp") : Enter(t, "rtp", d.app, d.ob.room, d.ob.peer)

create_answer(t) == \E d \in decode_token(t, "rtp") : Enter(t, "rtp", d.app, d.ob.room, d.ob.peer)

------------------------------------------------------------------------------
(* Time *)

\* Time passes; an app the gateway can give a token for has not been gone.
Tick ==
    /\ tokens' = {[t EXCEPT !.left = IF @ < 0 - Tolerance THEN @ ELSE @ - 1] : t \in tokens}
    /\ gone' = [a \in Apps |-> IF Served(store, a) THEN 0 ELSE IF gone[a] = MaxTtl THEN gone[a] ELSE gone[a] + 1]
    /\ session' = {}
    /\ UNCHANGED <<known, syncing, store, used>>

Init ==
    /\ known \in Lists
    /\ used \in [changes : {0}, failures : {0}, tokens : {0}, single : BOOLEAN]
    /\ \/ syncing = Sleeping /\ store = NoApps /\ used.single = FALSE
       \/ syncing = Off /\ store \in {new_with_single(s) : s \in Secrets} /\ used.single = TRUE
    /\ tokens = {} /\ session = {}
    /\ gone = [a \in Apps |-> 0]

Joins == {{}} \cup {{[room |-> Room, peer |-> p]} : p \in Peers}
Opt(S) == S \cup {Nil}

Next ==
    \/ \E list \in Lists : Change(list)
    \/ Ask \/ Answer \/ Apply \/ Fail
    \/ \E s \in Secrets, ttl \in 1 .. MaxTtl, p \in Peers :
          \/ whip_token(s, p, ttl) \/ rtpengine_token(s, p, ttl)
          \/ \E o \in {p, Nil} : whep_token(s, o, ttl) \/ \E r \in Opt({Room}) : webrtc_token(s, r, o, ttl)
    \/ \E t \in tokens :
          \/ whip_create(t) \/ whep_create(t) \/ create_offer(t) \/ create_answer(t)
          \/ \E j \in Joins : webrtc_connect(t, j) \/ webrtc_restart_ice(t, j)
    \/ Tick

Spec == Init /\ [][Next]_vars

\* The loop goes on asking, and the endpoint answers or the request times out.
Fairness == WF_vars(Ask) /\ WF_vars(Answer) /\ WF_vars(Apply)
------------------------------------------------------------------------------
(* Properties *)

\* The store holds apps, and no token lives longer than it was given for.
TypeOK ==
    /\ store.secrets \subseteq Info /\ store.apps \subseteq Info
    /\ Cardinality(tokens) <= MaxTokens
    /\ \A t \in tokens : t.issuer \in Kinds /\ t.left \in (0 - Tolerance - 1) .. MaxTtl

\* A secret opens the app that has it now: after any sequence of syncs the two
\* maps of the store agree, and a secret that was changed opens nothing (sync).
TablesAgree == store.secrets \subseteq store.apps /\ \A s \in Secrets : Cardinality(validate_app(s)) <= 1

\* A session that is let in has the app whose secret its token was given for, a
\* token of its own protocol that has not expired, and the room and the peer the
\* token names (decode_token and the media APIs).
LetInByToken ==
    \A s \in session :
        LET t == s.token IN
        /\ t.issuer = s.kind /\ s.app = t.by /\ t.left > 0
        /\ s.room \in {t.ob.room, Nil}
        /\ s.peer \in {t.ob.peer, Nil} \/ (s.kind = "whep" /\ t.ob.peer = Nil)

\* Tokens are the only way an app that was removed is still let in, and for no
\* longer than the largest ttl after the gateway stopped giving tokens for it.
AccessEnds ==
    \A t \in tokens, k \in Kinds : gone[t.by] = MaxTtl => decode_token(t, k) = {}

\* The store follows the endpoint through failed syncs and answers that were
\* stale when they were stored (run_loop).
CatchesUp == used.single \/ []<>(store = sync(NoApps, known))
==============================================================================
