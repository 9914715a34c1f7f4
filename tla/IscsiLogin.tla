----------------------------- MODULE IscsiLogin -----------------------------
(***************************************************************************)
(* The login phase of the node's iSCSI initiator (internal/iscsi/login.go, *)
(* chap.go) against a target that answers, delays and proposes as it       *)
(* likes: security negotiation with or without CHAP, operational           *)
(* negotiation, redirects and session reinstatement.                       *)
(*                                                                         *)
(* A Boolean key is a number 0 or 1, so that "or" is the larger and "and"  *)
(* the smaller.  A key the target declines or ignores keeps its default.   *)
(* The target is external: it keeps its own account of what was agreed.    *)
(***************************************************************************)
EXTENDS Naturals, FiniteSets

CONSTANTS
    LoginKeys,     \* operational keys
    KeyRule,       \* their rule: "min" or "max"
    KeyOffer,      \* what this initiator offers
    KeyDefault,    \* what holds when a key is not negotiated
    KeyLimits,     \* the limits a target may have, each a value by key
    Credentials,   \* subset of {"none", "chap", "mutual"}: configurations
    maxLoginRounds, maxRedirects, LoginMaxRetries

ASSUME LgAssumption ==
    /\ \A k \in LoginKeys : KeyOffer[k] \in Nat /\ KeyDefault[k] \in Nat
    /\ KeyLimits \subseteq [LoginKeys -> Nat]
    /\ Credentials \subseteq {"none", "chap", "mutual"}
    /\ maxLoginRounds \in Nat

\* The keys finalizeNegotiated looks at are among those negotiated.
ASSUME KeysAssumption ==
    {"MaxBurstLength", "FirstBurstLength", "MaxOutstandingR2T"} \subseteq LoginKeys

VARIABLES
    lg,       \* the initiator's loginState
    req,      \* the request on its way
    tg,       \* the target's account of this login
    tsih,     \* loginAttempt.tsih: the session to reinstate, or 0
    handle,   \* session.tsih: the session of the last started login, or 0
    redirects,
    retries

lgVars == <<lg, req, tg, tsih, handle, redirects, retries>>

NoReq == [on |-> FALSE, transit |-> FALSE, offers |-> {}, answers |-> {}, chap |-> {}]

\* What holds for every key until it is negotiated.
rfcDefaults == [k \in LoginKeys |-> KeyDefault[k]]
\* What this initiator proposes for every key.
operationalOffers == [k \in LoginKeys |-> KeyOffer[k]]

\* newLoginState: with credentials only CHAP is offered.
newLoginState(c) ==
    [status |-> "run", creds |-> c, csg |-> "security", rounds |-> 0,
     offered |-> FALSE, answered |-> {}, pending |-> {}, val |-> rfcDefaults,
     authAccepted |-> FALSE, chap |-> IF c = "none" THEN "off" ELSE "awaitMethod",
     send |-> {"AuthMethod"}, hold |-> FALSE]

newTarget ==
    [csg |-> "security", owes |-> {}, asked |-> {}, val |-> rfcDefaults,
     accepted |-> FALSE, proved |-> FALSE]

LgInit ==
    /\ \E c \in Credentials : lg = newLoginState(c)
    /\ tg = newTarget
    /\ req = NoReq
    /\ tsih = 0 /\ handle = 0
    /\ redirects = 0 /\ retries = 0

----------------------------------------------------------------------------
(* The initiator.                                                          *)

\* resolveKey: our offer and the other value under the key's rule.
resolveKey(k, v) ==
    LET o == operationalOffers[k] IN
    IF (KeyRule[k] = "min") = (o < v) THEN o ELSE v

\* offerOperational: once, and not the keys the target already proposed.
offerOperational(l) ==
    IF l.csg = "operational" /\ ~l.offered THEN LoginKeys \ l.answered ELSE {}

\* nextRequest carries everything pending; T is clear while CHAP holds it.
nextRequest ==
    /\ lg.status = "run" /\ ~req.on
    /\ IF lg.rounds = maxLoginRounds
       THEN lg' = [lg EXCEPT !.status = "failed"] /\ UNCHANGED req
       ELSE /\ req' = [on |-> TRUE, transit |-> ~lg.hold, offers |-> offerOperational(lg),
                       answers |-> {<<k, lg.val[k]>> : k \in lg.pending}, chap |-> lg.send]
            /\ lg' = [lg EXCEPT !.rounds = @ + 1, !.hold = FALSE, !.pending = {}, !.send = {},
                                !.offered = @ \/ lg.csg = "operational"]
    /\ UNCHANGED <<tg, tsih, handle, redirects, retries>>

\* applyOperational: an answer to our offer, or a proposal that came first
\* and is answered in place.
applyOperational(l, text) ==
    LET keys == {kv[1] : kv \in text}
        theirs(k) == (CHOOSE kv \in text : kv[1] = k)[2]
    IN  [l EXCEPT !.val = [k \in LoginKeys |-> IF k \in keys THEN resolveKey(k, theirs(k)) ELSE @[k]],
                  !.pending = IF l.offered THEN @ ELSE @ \cup keys,
                  !.answered = IF l.offered THEN @ ELSE @ \cup keys]

\* applyAuthKey without credentials: nothing but AuthMethod=None.
applyAuthKey(l, auth) ==
    IF l.chap # "off" \/ auth = {} THEN l
    ELSE IF auth = {"None"} THEN [l EXCEPT !.authAccepted = TRUE]
    ELSE [l EXCEPT !.status = "failed"]

onMethod(l, auth) ==
    IF auth = {"CHAP"}
    THEN [l EXCEPT !.chap = "awaitChallenge", !.send = {"algorithm"}, !.hold = TRUE]
    ELSE [l EXCEPT !.status = "failed"]

onChallenge(l, auth) ==
    IF auth # {"challenge"} THEN [l EXCEPT !.status = "failed"]
    ELSE IF l.creds = "mutual"
    THEN [l EXCEPT !.chap = "awaitMutual", !.send = {"response", "challenge"}]
    ELSE [l EXCEPT !.chap = "awaitResult", !.send = {"response"}]

onMutualResponse(l, auth) ==
    IF auth = {"proof"} THEN [l EXCEPT !.chap = "done"] ELSE [l EXCEPT !.status = "failed"]

\* chapState.advance, by the authentication keys of one response.
advance(l, auth) ==
    CASE l.chap = "awaitMethod" -> onMethod(l, auth)
      [] l.chap = "awaitChallenge" -> onChallenge(l, auth)
      [] l.chap = "awaitMutual" -> onMutualResponse(l, auth)
      [] OTHER -> IF auth = {} THEN [l EXCEPT !.chap = "done"]
                  ELSE [l EXCEPT !.status = "failed"]

\* advanceCHAP: authentication keys outside the security stage are refused.
advanceCHAP(l, auth) ==
    IF l.status # "run" \/ l.chap = "off" THEN l
    ELSE IF l.csg # "security"
    THEN IF auth = {} THEN l ELSE [l EXCEPT !.status = "failed"]
    ELSE advance(l, auth)

securityDone(l) == IF l.chap = "off" THEN l.authAccepted ELSE l.chap = "done"

\* finalizeNegotiated: the constraints between keys that the kernel checks
\* when the connection starts, applied on this side alone.
finalizeNegotiated(v) ==
    [k \in LoginKeys |->
        IF k = "FirstBurstLength" /\ v[k] > v["MaxBurstLength"] THEN v["MaxBurstLength"]
        ELSE IF k = "MaxOutstandingR2T" /\ v[k] = 0 THEN 1
        ELSE v[k]]

finishAnyway(l, id) == [l EXCEPT !.status = "done", !.val = finalizeNegotiated(@)]

\* finish: operational negotiation took place, nothing is unanswered, and
\* the response names the session.
finish(l, id) ==
    IF l.offered /\ l.csg = "operational" /\ l.pending = {} /\ id # 0
    THEN [l EXCEPT !.status = "done", !.val = finalizeNegotiated(@)]
    ELSE [l EXCEPT !.status = "failed"]

\* transition follows the stage the target moves to.
transition(l, nsg, id) ==
    IF l.status # "run" \/ nsg = "stay" THEN l
    ELSE IF nsg = "full" THEN finish(l, id)
    ELSE IF l.csg = "security" /\ ~securityDone(l) THEN [l EXCEPT !.status = "failed"]
    ELSE [l EXCEPT !.csg = "operational"]

\* loginSession: what one complete response does.
loginSession(text, auth, nsg, id) ==
    transition(advanceCHAP(applyAuthKey(applyOperational(lg, text), auth), auth), nsg, id)

----------------------------------------------------------------------------
(* The target.                                                             *)

\* What it learns from the request.
Learned ==
    LET settled == {kv[1] : kv \in req.answers}
        value(k) == (CHOOSE kv \in req.answers : kv[1] = k)[2]
    IN  [tg EXCEPT
          !.val = [k \in LoginKeys |-> IF k \in settled THEN value(k) ELSE @[k]],
          !.asked = @ \ settled,
          !.owes = @ \cup req.offers,
          !.accepted = @ \/ "response" \in req.chap]

\* What it may propose: in the security stage, before the initiator offered,
\* keys whose answer it is not waiting for.
MayPropose ==
    IF tg.csg = "security" THEN LoginKeys \ (tg.asked \cup tg.owes \cup req.offers) ELSE {}

\* A response: some of the answers it owes, proposals of its own before the
\* initiator offered, an authentication step, a stage and, with the last
\* one, the TSIH of the session.
Respond(answer, propose, limit, auth, nsg, id) ==
    LET t == Learned
        text == {<<k, resolveKey(k, limit[k])>> : k \in answer}
                    \cup {<<k, limit[k]>> : k \in propose}
    IN  /\ req.on /\ lg.status = "run"
        /\ answer \subseteq t.owes
        /\ propose \subseteq MayPropose
        /\ nsg # "stay" => req.transit
        /\ id # 0 => nsg = "full"
        /\ nsg = "operational" => t.csg = "security"
        /\ lg' = loginSession(text, auth, nsg, id)
        /\ tg' = [t EXCEPT
             !.owes = @ \ answer,
             !.asked = @ \cup propose,
             !.val = [k \in LoginKeys |-> IF k \in answer THEN resolveKey(k, limit[k]) ELSE @[k]],
             !.csg = IF nsg = "stay" THEN @ ELSE nsg,
             !.proved = @ \/ auth = {"proof"}]
        /\ req' = NoReq
        /\ UNCHANGED <<tsih, handle, redirects, retries>>

\* retryLogin: a redirect is followed a few times, a lost session is logged
\* in anew, anything else fails the login.
Reject(why) ==
    /\ req.on /\ lg.status = "run"
    /\ CASE why = "redirect" -> /\ redirects' = redirects + 1
                                /\ lg' = IF redirects < maxRedirects THEN newLoginState(lg.creds)
                                         ELSE [lg EXCEPT !.status = "failed"]
                                /\ redirects' <= maxRedirects + 1
                                /\ UNCHANGED tsih
         [] why = "noSession" -> /\ lg' = IF tsih # 0 THEN newLoginState(lg.creds)
                                          ELSE [lg EXCEPT !.status = "failed"]
                                 /\ tsih' = 0
                                 /\ UNCHANGED redirects
         [] OTHER -> /\ lg' = [lg EXCEPT !.status = "failed"]
                     /\ UNCHANGED <<tsih, redirects>>
    /\ tg' = newTarget
    /\ req' = NoReq
    /\ UNCHANGED <<handle, retries>>

\* loginOnce after the login: pushParams and startConn succeed and the
\* session keeps its TSIH, or one fails and the connection is unbound.
StartConnection(ok) ==
    /\ lg.status = "done"
    /\ lg' = [lg EXCEPT !.status = IF ok THEN "started" ELSE "failed"]
    /\ handle' = IF ok THEN 1 ELSE handle
    /\ UNCHANGED <<req, tg, tsih, redirects, retries>>

\* connectAndLogin again, by the recovery loop: after a failed login, or when
\* a started connection broke.  It asks for the session it had.
RetryLogin ==
    /\ lg.status \in {"failed", "started"} /\ retries < LoginMaxRetries
    /\ retries' = retries + 1 /\ redirects' = 0
    /\ lg' = newLoginState(lg.creds)
    /\ tg' = newTarget /\ req' = NoReq
    /\ tsih' = handle
    /\ UNCHANGED handle

LgNext ==
    \/ nextRequest
    \/ /\ req.on
       /\ \E answer \in SUBSET (tg.owes \cup req.offers), propose \in SUBSET MayPropose,
            limit \in KeyLimits, auth \in {{}, {"None"}, {"CHAP"}, {"challenge"}, {"proof"}},
            nsg \in {"stay", "operational", "full"}, id \in {0, 1} :
            Respond(answer, propose, limit, auth, nsg, id)
    \/ \E why \in {"redirect", "noSession", "refused"} : Reject(why)
    \/ \E ok \in BOOLEAN : StartConnection(ok)
    \/ RetryLogin

LgSpec == LgInit /\ [][LgNext]_lgVars

\* What a key may be settled at: a limit, an offer, a default or one R2T.
LoginValue ==
    (UNION {{limit[k] : k \in LoginKeys} : limit \in KeyLimits}) \cup {1}
        \cup {KeyOffer[k] : k \in LoginKeys} \cup {KeyDefault[k] : k \in LoginKeys}

LgTypeOK ==
    /\ lg.status \in {"run", "failed", "done", "started"}
    /\ lg.val \in [LoginKeys -> LoginValue]
    /\ lg.rounds \in 0..maxLoginRounds

\* A login that completes left both sides with the same parameters, except
\* where finalizeNegotiated corrected this side: a first burst cut to the
\* longest burst and so below what the target agreed to, one outstanding R2T
\* where the target agreed to none (login_test.go,
\* TestLoginTargetDeclaresSmallerLimits).  Every configured authentication is
\* done.  All of it in whatever order the target proposed, answered and
\* changed stages (finish: "target entered full feature phase with unanswered
\* keys"; transition: "target left the security stage before authentication
\* completed").
LoginAgrees ==
    lg.status \in {"done", "started"} =>
        /\ \A k \in LoginKeys : lg.val[k] # tg.val[k] =>
              \/ /\ k = "FirstBurstLength" /\ lg.val[k] < tg.val[k]
                 /\ lg.val[k] = tg.val["MaxBurstLength"]
              \/ k = "MaxOutstandingR2T" /\ tg.val[k] = 0 /\ lg.val[k] = 1
        /\ lg.val["FirstBurstLength"] <= lg.val["MaxBurstLength"]
        /\ lg.val["MaxOutstandingR2T"] >= 1
        /\ lg.creds # "none" => tg.accepted
        /\ lg.creds = "mutual" => tg.proved

=============================================================================
