----------------------------- MODULE Dispatcher -----------------------------
(* The change-data-capture dispatcher of pkg/cdc/dispatcher.go: publishers    *)
(* put events into a bounded channel, one worker takes them out and starts a  *)
(* goroutine for each webhook, at most maxConcurrentWebhooks at a time.       *)
EXTENDS Integers, Sequences, FiniteSets

CONSTANTS Events,       \* each is published at most once
          Collection,   \* Collection[e]: the collection of an event
          Hooks, Collections,
          Capacity,     \* of eventCh (50000 in the code)
          maxConcurrentWebhooks

ConstantsOK == /\ Collection \in [Events -> Collections]
               /\ Capacity \in Nat /\ maxConcurrentWebhooks \in Nat

VARIABLES subscriptions,  \* the webhooks of each collection, in order
          eventCh,
          current,        \* what the worker has in hand: an event and its hooks left
          posting,        \* the goroutines: pairs of an event and a hook
          posted,         \* the requests made
          kept, dropped,  \* the events that Publish could and could not put
          due             \* history: the hooks of the collection when it was put

vars == <<subscriptions, eventCh, current, posting, posted, kept, dropped, due>>

GetDispatcher == /\ subscriptions = [k \in Collections |-> <<>>]
                 /\ eventCh = <<>> /\ current = <<>>
                 /\ posting = {} /\ posted = {}
                 /\ kept = {} /\ dropped = {} /\ due = {}

HooksOf(k) == {subscriptions[k][i] : i \in DOMAIN subscriptions[k]}

\* A hook that subscribes again would get every event once more.
Subscribe(k, hook) ==
  /\ hook \notin HooksOf(k)
  /\ subscriptions' = [subscriptions EXCEPT ![k] = Append(@, hook)]
  /\ UNCHANGED <<eventCh, current, posting, posted, kept, dropped, due>>

Publish(e) ==
  /\ e \notin kept \cup dropped
  /\ IF Len(eventCh) < Capacity
     THEN /\ eventCh' = Append(eventCh, e)
          /\ kept' = kept \cup {e}
          /\ due' = due \cup ({e} \X HooksOf(Collection[e]))
          /\ UNCHANGED dropped
     ELSE dropped' = dropped \cup {e} /\ UNCHANGED <<eventCh, kept, due>>
  /\ UNCHANGED <<subscriptions, current, posting, posted>>

\* The worker reads the hooks once, when it takes the event.
Take ==
  /\ current = <<>> /\ eventCh # <<>>
  /\ eventCh' = Tail(eventCh)
  /\ LET e == Head(eventCh) hooks == subscriptions[Collection[e]]
     IN  current' = [i \in DOMAIN hooks |-> <<e, hooks[i]>>]
  /\ UNCHANGED <<subscriptions, posting, posted, kept, dropped, due>>

\* Mutant: a hook for which there is no slot is skipped.
SpawnOrSkip ==
  /\ current # <<>>
  /\ current' = Tail(current)
  /\ posting' = IF Cardinality(posting) < maxConcurrentWebhooks
                THEN posting \cup {Head(current)} ELSE posting
  /\ UNCHANGED <<subscriptions, eventCh, posted, kept, dropped, due>>

\* Mutant: no slot is acquired.
SpawnAtOnce ==
  /\ current # <<>>
  /\ current' = Tail(current)
  /\ posting' = posting \cup {Head(current)}
  /\ UNCHANGED <<subscriptions, eventCh, posted, kept, dropped, due>>

\* Acquiring a slot of webhookSem blocks the worker.
Spawn ==
  /\ current # <<>> /\ Cardinality(posting) < maxConcurrentWebhooks
  /\ current' = Tail(current)
  /\ posting' = posting \cup {Head(current)}
  /\ UNCHANGED <<subscriptions, eventCh, posted, kept, dropped, due>>

\* The request ends, with an answer, an error or after the timeout of 3 seconds:
\* the slot is released and nothing is tried again.
Post(p) ==
  /\ p \in posting
  /\ posting' = posting \ {p}
  /\ posted' = posted \cup {p}
  /\ UNCHANGED <<subscriptions, eventCh, current, kept, dropped, due>>

Next == \/ \E k \in Collections, hook \in Hooks : Subscribe(k, hook)
        \/ \E e \in Events : Publish(e)
        \/ Take \/ Spawn
        \/ \E p \in Events \X Hooks : Post(p)

\* The worker goes on and every request ends, at the latest by its timeout.
Fairness == /\ WF_vars(Take) /\ WF_vars(Spawn)
            /\ \A p \in Events \X Hooks : WF_vars(Post(p))

Spec == GetDispatcher /\ [][Next]_vars /\ Fairness
------------------------------------------------------------------------------
TypeOK == /\ Len(eventCh) <= Capacity
          /\ posting \cup posted \subseteq Events \X Hooks
          /\ Cardinality(posting) <= maxConcurrentWebhooks
          /\ kept \cap dropped = {}

\* Every event that Publish could put is sent to every webhook that its
\* collection had by then, however many requests are held up in the meantime.
HooksNotified ==
  \A p \in Events \X Hooks : p \in due ~> p \in posted
==============================================================================
