--------------------------- MODULE SignedIntents ---------------------------
(***************************************************************************)
(* The envelopes the brain tier signs and the sentinel verifies            *)
(* (sentinel/auth.py): a timestamp bounds an envelope's age and a cache of *)
(* nonces bounds its use, so that whatever the network repeats or delays,  *)
(* an envelope is acted on at most once.                                   *)
(*                                                                         *)
(* The two hosts have clocks of their own: an envelope is stamped by the   *)
(* brain's, at most MaxSkew away from the sentinel's, which is `now`.      *)
(* Time is counted in ticks.  A signature that does not verify stands for  *)
(* any copy that is damaged, incomplete or unparseable.                    *)
(***************************************************************************)
EXTENDS Integers, FiniteSets

CONSTANTS
    Envelopes,   \* the envelopes the brain builds; each has its own nonce
    MaxAge,      \* MAX_INTENT_AGE_SEC
    MaxSkew,     \* how far the two hosts' clocks are apart
    Horizon      \* bound: the last tick of a behaviour

ASSUME SignedIntentsAssumption ==
    MaxAge \in Nat \ {0} /\ MaxSkew \in Nat /\ Horizon \in Nat

\* NONCE_TTL_SEC
Ttl == 2 * MaxAge

VARIABLES
    now,       \* the sentinel's clock
    built,     \* envelopes the brain has signed
    sent,      \* sent[e]: the sentinel's clock when e was signed
    stamp,     \* stamp[e]: the brain's clock at that moment, the signed "ts"
    seen,      \* the keys of NonceCache._seen
    seenAt,    \* its values
    accepted   \* history: how often verify said ok to e since the process started

envelopeVars == <<now, built, sent, stamp, seen, seenAt, accepted>>

EnvelopeInit ==
    /\ now = 0
    /\ built = {} /\ seen = {}
    /\ sent = [e \in Envelopes |-> 0]
    /\ stamp = [e \in Envelopes |-> 0]
    /\ seenAt = [e \in Envelopes |-> 0]
    /\ accepted = [e \in Envelopes |-> 0]

\* build_envelope
Build(e) ==
    /\ e \notin built
    /\ built' = built \cup {e}
    /\ sent' = [sent EXCEPT ![e] = now]
    /\ \E skew \in -MaxSkew .. MaxSkew : stamp' = [stamp EXCEPT ![e] = now + skew]
    /\ UNCHANGED <<now, seen, seenAt, accepted>>

---------------------------------------------------------------------------
(* verify *)

\* Fault: an envelope from a clock that runs ahead is refused.
FreshPastOnly(e) == now - stamp[e] <= MaxAge /\ now - stamp[e] >= 0

\* Neither stale nor from the future.
Fresh(e) == now - stamp[e] <= MaxAge /\ now - stamp[e] >= -MaxAge

\* Fault: nonces are kept for one age bound, not two.
SweptEarly == {e \in seen : seenAt[e] > now - MaxAge}

\* What the sweep in check_and_add leaves.
Swept == {e \in seen : seenAt[e] > now - Ttl}

\* A copy of e arrives and everything about it is in order.
Accept(e) ==
    /\ e \in built
    /\ Fresh(e)
    /\ e \notin Swept
    /\ seen' = Swept \cup {e}
    /\ seenAt' = [seenAt EXCEPT ![e] = now]
    /\ accepted' = [accepted EXCEPT ![e] = @ + 1]
    /\ UNCHANGED <<now, built, sent, stamp>>

\* A copy of e arrives too old or too early: refused before the cache is read.
RefuseUnfresh(e) ==
    /\ e \in built
    /\ ~Fresh(e)
    /\ UNCHANGED envelopeVars

\* A copy of e arrives and its nonce is remembered; the cache has been swept.
RefuseReplay(e) ==
    /\ e \in built
    /\ Fresh(e)
    /\ e \in Swept
    /\ seen' = Swept
    /\ UNCHANGED <<now, built, sent, stamp, seenAt, accepted>>

\* A damaged copy of e arrives: refused, and no nonce is consumed.
RefuseDamaged(e) ==
    /\ e \in built
    /\ UNCHANGED envelopeVars

---------------------------------------------------------------------------

\* The cache lives in memory.  `accepted` starts over with it.
SentinelRestart ==
    /\ seen' = {}
    /\ accepted' = [e \in Envelopes |-> 0]
    /\ UNCHANGED <<now, built, sent, stamp, seenAt>>

Tick ==
    /\ now < Horizon
    /\ now' = now + 1
    /\ UNCHANGED <<built, sent, stamp, seen, seenAt, accepted>>

EnvelopeNext ==
    \/ \E e \in Envelopes :
        \/ Build(e)
        \/ Accept(e) \/ RefuseUnfresh(e) \/ RefuseReplay(e) \/ RefuseDamaged(e)
    \/ SentinelRestart
    \/ Tick

EnvelopeSpec == EnvelopeInit /\ [][EnvelopeNext]_envelopeVars

---------------------------------------------------------------------------
(* Properties *)

\* Every variable has its type, and the cache never remembers the future.
EnvelopeTypeOK ==
    /\ now \in 0 .. Horizon
    /\ built \subseteq Envelopes /\ seen \subseteq built
    /\ sent \in [Envelopes -> 0 .. now]
    /\ stamp \in [Envelopes -> -MaxSkew .. now + MaxSkew]
    /\ seenAt \in [Envelopes -> 0 .. now]
    /\ accepted \in [Envelopes -> Nat]

\* "A replay can never slip through the gap between still fresh and already
\* forgotten": while the process lives, verify says ok to an envelope once,
\* whatever copies arrive and whenever the cache is swept.
AcceptedOnce == \A e \in Envelopes : accepted[e] <= 1

\* "The nonce is only consumed after the signature verifies": a remembered
\* nonce belongs to an envelope that was accepted, so a damaged copy never
\* uses up the good one.
NonceMeansAccepted == \A e \in seen : accepted[e] > 0

\* "Generous enough to survive clock skew between two hosts": as long as an
\* envelope is at most MaxAge - MaxSkew old by the sentinel's clock and was not
\* accepted before, an intact copy of it would be.
PromptIsAccepted ==
    \A e \in built :
        accepted[e] = 0 /\ now - sent[e] <= MaxAge - MaxSkew =>
            Fresh(e) /\ e \notin Swept

---------------------------------------------------------------------------
(* The inductive invariant of OperationsProofs *)

\* An accepted envelope is remembered, or it has gone stale; and no stamp is
\* further ahead than the clocks are apart.
Guarded ==
    \A e \in built :
        /\ stamp[e] >= sent[e] - MaxSkew /\ stamp[e] <= sent[e] + MaxSkew
        /\ accepted[e] > 0 =>
              \/ e \in seen /\ stamp[e] <= seenAt[e] + MaxSkew
              \/ now > stamp[e] + MaxAge

IInv ==
    /\ EnvelopeTypeOK
    /\ Guarded
    /\ NonceMeansAccepted
    /\ AcceptedOnce
    /\ \A e \in Envelopes : accepted[e] > 0 => e \in built
=============================================================================
