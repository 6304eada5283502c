----------------------------- MODULE Projection -----------------------------
(***************************************************************************)
(* The marking of a net and its projection from the event log              *)
(* (engine/core-engine/crates/domain/src/{net,projection}.rs).             *)
(*                                                                         *)
(* A marking maps every place to the vector of tokens parked there.  The   *)
(* log is the only source of truth: every marking in the engine is a fold  *)
(* of ApplyEvent over some run of persisted events.                        *)
(***************************************************************************)
EXTENDS Naturals, Sequences

CONSTANTS Place,    \* the places of one net
          TokenId,  \* token identities (UUIDs)
          Color,    \* token payloads, as far as guards tell them apart
          DedupId,  \* idempotency keys of one-shot injections
          NoDedup   \* a TokenCreated without (or with an empty) dedup_id

Token == [id : TokenId, color : Color]

Marking == [Place -> Seq(Token)]

EmptyMarking == [p \in Place |-> << >>]

(***************************************************************************)
(* Domain events, by what they do to a marking.  The lifecycle, bridge,    *)
(* script and pre-dispatch events change no marking and are all of kind    *)
(* "Audit" here.                                                           *)
(***************************************************************************)
FiringKind == {"TransitionFired", "EffectCompleted", "TransitionSkipped"}

ConsumedList == Seq(Place \X TokenId)
ProducedList == Seq(Place \X Token)

TokenCreatedEvent ==
    [kind : {"TokenCreated"}, place : Place, token : Token,
     dedup : DedupId \cup {NoDedup}]
FiringEvent == [kind : FiringKind, consumed : ConsumedList, produced : ProducedList]
TokenGoneEvent == [kind : {"TokenConsumed", "TokenRemoved"}, place : Place, id : TokenId]
TokenUpdatedEvent ==
    [kind : {"TokenUpdated"}, place : Place, id : TokenId, color : Color]
EffectFailedEvent ==
    [kind : {"EffectFailed"}, consumed : ConsumedList, produced : ProducedList,
     tokensConsumed : BOOLEAN]
AuditEvent == [kind : {"Audit"}]

DomainEvent ==
    TokenCreatedEvent \cup FiringEvent \cup TokenGoneEvent \cup TokenUpdatedEvent
        \cup EffectFailedEvent \cup AuditEvent

(***************************************************************************)
(* The position of the first token with the given id, 0 when there is none *)
(* (the `position`/`find` of remove_token and update_token).               *)
(***************************************************************************)
FirstWithId(tokens, id) ==
    LET hits == {i \in DOMAIN tokens : tokens[i].id = id}
    IN  IF hits = {} THEN 0
        ELSE CHOOSE i \in hits : \A j \in hits : i <= j

AddToken(m, p, t) == [m EXCEPT ![p] = Append(@, t)]

\* Removing a token that is not there is a no-op, as in the code.
DropId(tokens, id) ==
    LET i == FirstWithId(tokens, id)
    IN  IF i = 0 THEN tokens
        ELSE SubSeq(tokens, 1, i - 1) \o SubSeq(tokens, i + 1, Len(tokens))

RemoveToken(m, p, id) == [m EXCEPT ![p] = DropId(@, id)]

RecolorId(tokens, id, c) ==
    LET i == FirstWithId(tokens, id)
    IN  IF i = 0 THEN tokens ELSE [tokens EXCEPT ![i] = [id |-> id, color |-> c]]

UpdateToken(m, p, id, c) == [m EXCEPT ![p] = RecolorId(@, id, c)]

\* The two loops of a firing event: every consumed token leaves, then every
\* produced one arrives.
RemoveAll(m, consumed) ==
    LET f[i \in 0..Len(consumed)] ==
            IF i = 0 THEN m
            ELSE RemoveToken(f[i - 1], consumed[i][1], consumed[i][2])
    IN  f[Len(consumed)]

AddAll(m, produced) ==
    LET f[i \in 0..Len(produced)] ==
            IF i = 0 THEN m
            ELSE AddToken(f[i - 1], produced[i][1], produced[i][2])
    IN  f[Len(produced)]

ApplyEvent(m, e) ==
    CASE e.kind = "TokenCreated" -> AddToken(m, e.place, e.token)
      [] e.kind \in FiringKind -> AddAll(RemoveAll(m, e.consumed), e.produced)
      [] e.kind \in {"TokenConsumed", "TokenRemoved"} -> RemoveToken(m, e.place, e.id)
      [] e.kind = "TokenUpdated" -> UpdateToken(m, e.place, e.id, e.color)
      [] e.kind = "EffectFailed" ->
            IF e.tokensConsumed THEN AddAll(RemoveAll(m, e.consumed), e.produced) ELSE m
      [] OTHER -> m

\* project_onto: fold a run of persisted events onto a base marking.
ProjectOnto(base, events) ==
    LET f[i \in 0..Len(events)] ==
            IF i = 0 THEN base ELSE ApplyEvent(f[i - 1], events[i].event)
    IN  f[Len(events)]

\* project_marking
ProjectMarking(events) == ProjectOnto(EmptyMarking, events)
=============================================================================
