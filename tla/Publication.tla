---------------------------- MODULE Publication ----------------------------
(* What the article side of the CMS promises: articles, named by slugs,     *)
(* belong to the user who seeded them first; every revision of an article   *)
(* comes from its author, and only its author publishes or redacts it.      *)
(* Each request takes effect in one step.  ArticleService implements this.  *)

CONSTANTS
  Users, Slugs,
  Revisions,   \* the ids revisions may get
  Times,       \* the times of publication, never 0
  NoUser, NoRevision

VARIABLES
  author,      \* author[s]: the author of article s, or NoUser
  revision,    \* revision[n]: [slug, by], who staged it, or NoRevision
  published    \* published[n]: when revision n was published, 0 if it is not

vars == <<author, revision, published>>

Init == /\ author = [s \in Slugs |-> NoUser]
        /\ revision = [n \in Revisions |-> NoRevision]
        /\ published = [n \in Revisions |-> 0]

\* The first user to seed a slug becomes its author.
Seed(u, s, n) ==
  /\ author[s] \in {NoUser, u}
  /\ revision[n] = NoRevision
  /\ author' = [author EXCEPT ![s] = u]
  /\ revision' = [revision EXCEPT ![n] = [slug |-> s, by |-> u]]
  /\ UNCHANGED published

Publish(u, n, time) ==
  /\ revision[n] # NoRevision
  /\ author[revision[n].slug] = u
  /\ published' = [published EXCEPT ![n] = time]
  /\ UNCHANGED <<author, revision>>

\* Revisions of s leave the public page.  The ones in kept were staged while
\* the redaction was running; what it must clear is a property of ArticleService.
Redact(u, s, kept) ==
  /\ author[s] = u
  /\ \A n \in kept : revision[n] # NoRevision
  /\ published' = [n \in Revisions |->
       IF revision[n] # NoRevision /\ revision[n].slug = s /\ n \notin kept
         THEN 0 ELSE published[n]]
  /\ UNCHANGED <<author, revision>>

Next == \E u \in Users :
  \/ \E s \in Slugs, n \in Revisions : Seed(u, s, n)
  \/ \E n \in Revisions, time \in Times : Publish(u, n, time)
  \/ \E s \in Slugs, kept \in SUBSET Revisions : Redact(u, s, kept)

Spec == Init /\ [][Next]_vars
=============================================================================
