------------------------------ MODULE Webhooks ------------------------------
(***************************************************************************)
(* Webhooks and their notification after a refresh.  Administrators create, *)
(* update, toggle and delete the rows; pages show a URL only in masked     *)
(* form, so an update that brings the mask back keeps the stored URL, read *)
(* in a transaction before the one that writes the row.  The refresh reads *)
(* the rows once and posts to one endpoint after the other, while they     *)
(* change.  What a payload looks like and how an endpoint is resolved and  *)
(* connected are left out, and so is last_notified, which nothing reads: a *)
(* test changes no more than that.  A URL is one that passed the check of  *)
(* its destination; others change nothing.                                 *)
(***************************************************************************)
EXTENDS Integers, FiniteSets, Absence

CONSTANTS Urls,          \* complete URLs, as administrators enter them
          Categories,    \* of news: critical CVEs, high CVEs, KEV entries
          Preferences,   \* bound: sets of categories a row may want
          Editors,       \* requests that update a row at the same time
          MaxHooks,      \* bound: rows ever created
          MaxEdits       \* bound: changes of rows after their creation

ASSUME WebhooksAssumption == MaxHooks \in Nat /\ IsFiniteSet(Categories)

VARIABLES hooks,      \* webhooks: identifier to row or None
          created,    \* the AUTOINCREMENT counter of the table
          edits,      \* updates between their two transactions
          delivery,   \* the notification that runs, or None
          given,      \* history: the URLs entered for each row
          changes

webhookVars == <<hooks, created, edits, delivery, given, changes>>

Masked == "masked"

Exists(h) == hooks[h] # None

WebhooksInit ==
    /\ hooks = [h \in 1..MaxHooks |-> None]
    /\ created = 0 /\ changes = 0
    /\ edits = [e \in Editors |-> None]
    /\ delivery = None
    /\ given = [h \in 1..MaxHooks |-> {}]

-----------------------------------------------------------------------------
(* The routes of the administrators                                        *)

NewHook(url, active, wants) == [url |-> url, active |-> active, wants |-> wants]

\* Variant: the identifier of a deleted row is used again.
CreateHookAgain(url, active, wants) ==
    /\ \E h \in 1..MaxHooks :
          /\ ~Exists(h) /\ \A k \in 1..(h - 1) : Exists(k)
          /\ created' = IF h > created THEN h ELSE created
          /\ hooks' = [hooks EXCEPT ![h] = NewHook(url, active, wants)]
          /\ given' = [given EXCEPT ![h] = {url}]
    /\ UNCHANGED <<edits, delivery, changes>>

CreateHook(url, active, wants) ==
    /\ created < MaxHooks
    /\ created' = created + 1
    /\ hooks' = [hooks EXCEPT ![created + 1] = NewHook(url, active, wants)]
    /\ given' = [given EXCEPT ![created + 1] = @ \cup {url}]
    /\ UNCHANGED <<edits, delivery, changes>>

Change == changes < MaxEdits /\ changes' = changes + 1

\* The URL an update writes: the stored one for a mask, if the row is there.
UrlFor(h, url) == IF url = Masked /\ Exists(h) THEN hooks[h].url ELSE url

BeginUpdate(e, h, url, active, wants) ==
    /\ edits[e] = None
    /\ Change
    /\ edits' = [edits EXCEPT ![e] = [hook |-> h, url |-> UrlFor(h, url), active |-> active, wants |-> wants]]
    /\ given' = [given EXCEPT ![h] = @ \cup ({url} \ {Masked})]
    /\ UNCHANGED <<hooks, created, delivery>>

FinishUpdate(e) ==
    /\ edits[e] # None
    /\ LET edit == edits[e] IN
       hooks' = [h \in 1..MaxHooks |->
                    IF h = edit.hook /\ Exists(h)
                    THEN [hooks[h] EXCEPT !.url = edit.url, !.active = edit.active, !.wants = edit.wants]
                    ELSE hooks[h]]
    /\ edits' = [edits EXCEPT ![e] = None]
    /\ UNCHANGED <<created, delivery, given, changes>>

DeleteHook(h) ==
    /\ Exists(h)
    /\ Change
    /\ hooks' = [hooks EXCEPT ![h] = None]
    /\ UNCHANGED <<created, edits, delivery, given>>

ToggleHook(h) ==
    /\ Exists(h)
    /\ Change
    /\ hooks' = [hooks EXCEPT ![h].active = ~@]
    /\ UNCHANGED <<created, edits, delivery, given>>

-----------------------------------------------------------------------------
(* The notification of a refresh                                           *)

\* The posts owed: an active row and a category that has news and is wanted.
Owed(rows, news) == {post \in (DOMAIN rows) \X news : post[2] \in rows[post[1]].wants}

Skipped(rows, news) == {h \in DOMAIN rows : rows[h].wants \cap news = {}}

StartDelivery(news) ==
    LET rows == [h \in {k \in 1..created : Exists(k) /\ hooks[k].active} |-> hooks[h]] IN
    /\ delivery = None
    /\ news # {} /\ DOMAIN rows # {}
    /\ delivery' = [rows |-> rows, news |-> news, left |-> Owed(rows, news), tried |-> {},
                    sent |-> 0, failed |-> 0, skipped |-> Cardinality(Skipped(rows, news))]
    /\ UNCHANGED <<hooks, created, edits, given, changes>>

Running == delivery # None

\* Newest row first.
NextPost == CHOOSE post \in delivery.left : \A other \in delivery.left : other[1] <= post[1]

\* Variant: the first failure ends the notification.
PostUntilFailure ==
    /\ Running /\ delivery.left # {}
    /\ LET tried == [delivery EXCEPT !.left = @ \ {NextPost}, !.tried = @ \cup {NextPost}] IN
       \/ delivery' = [tried EXCEPT !.sent = @ + 1]
       \/ delivery' = [tried EXCEPT !.failed = @ + 1, !.left = {}]
    /\ UNCHANGED <<hooks, created, edits, given, changes>>

\* A post is made to the URL that was read.  It is sent if it is accepted and the
\* time is recorded in its row; if either raises, it has failed.
Post ==
    /\ Running /\ delivery.left # {}
    /\ LET tried == [delivery EXCEPT !.left = @ \ {NextPost}, !.tried = @ \cup {NextPost}] IN
       \/ delivery' = [tried EXCEPT !.sent = @ + 1]
       \/ delivery' = [tried EXCEPT !.failed = @ + 1]
    /\ UNCHANGED <<hooks, created, edits, given, changes>>

Over == Running /\ delivery.left = {}

\* The summary is returned to the refresh, or the process dies before.
EndDelivery ==
    /\ Running
    /\ delivery' = None
    /\ UNCHANGED <<hooks, created, edits, given, changes>>

WebhooksNext ==
    \/ \E url \in Urls, active \in BOOLEAN, wants \in Preferences : CreateHook(url, active, wants)
    \/ \E e \in Editors, h \in 1..created, url \in Urls \cup {Masked},
          active \in BOOLEAN, wants \in Preferences : BeginUpdate(e, h, url, active, wants)
    \/ \E e \in Editors : FinishUpdate(e)
    \/ \E h \in 1..created : DeleteHook(h) \/ ToggleHook(h)
    \/ \E news \in SUBSET Categories : StartDelivery(news)
    \/ Post \/ EndDelivery

WebhooksSpec == WebhooksInit /\ [][WebhooksNext]_webhookVars

-----------------------------------------------------------------------------
\* A row never gets the URL of another webhook, nor the mask that pages show in
\* its place: what is stored, and what a notification posts to, was entered for
\* that row, also when the row is changed or deleted and others are created
\* between the two transactions of an update (webhook_service.py:175-207).
OnlyGivenUrls ==
    /\ \A h \in 1..MaxHooks : Exists(h) => hooks[h].url \in given[h]
    /\ Running => \A h \in DOMAIN delivery.rows : delivery.rows[h].url \in given[h]

\* One endpoint's failure costs no other its notice: a notification that is over
\* has posted every category with news to every active webhook that wanted it
\* when the rows were read, though rows were changed or deleted and posts or the
\* records of them failed meanwhile; and what it reports adds up to all posts and
\* rows (webhook_service.py:533-589).
ChannelsTried ==
    Over => LET rows == delivery.rows IN
            /\ \A h \in DOMAIN rows, c \in delivery.news :
                  <<h, c>> \in delivery.tried <=> c \in rows[h].wants
            /\ delivery.sent + delivery.failed = Cardinality(delivery.tried)
            /\ delivery.skipped + Cardinality({post[1] : post \in delivery.tried})
                   = Cardinality(DOMAIN rows)
=============================================================================
