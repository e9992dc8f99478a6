----------------------------- MODULE Migrations -----------------------------
(***************************************************************************)
(* The revisions of backend/alembic/versions as the statements they run, and *)
(* the schema that the models of backend/app declare.  A schema is a set of   *)
(* objects; an object uses types, functions and extensions and refers to      *)
(* tables.  Columns and indexes go with their table and are left out.         *)
(***************************************************************************)
EXTENDS Naturals, Sequences, SequencesExt

HEAD == 5

Object(name, uses, refs) == [name |-> name, uses |-> uses, refs |-> refs]
Plain(name) == Object(name, {}, {})

\* A foreign key, by what the deletion of the referenced row does.
FK(table) == [table |-> table, ondelete |-> "NO ACTION"]
Cascade(table) == [table |-> table, ondelete |-> "CASCADE"]

Create(o) == [do |-> "create", object |-> o]
CreateIfNotExists(o) == [do |-> "ensure", object |-> o]
Drop(name) == [do |-> "drop", object |-> Plain(name)]

-----------------------------------------------------------------------------
(* The revisions; create_table creates the ENUM types of its columns first *)

create_users ==
  <<CreateIfNotExists(Plain("citext")), Create(Plain("user_role")),
    Create(Object("users", {"citext", "user_role"}, {}))>>
drop_users == <<Drop("users"), Drop("user_role")>>

create_documents ==
  <<Create(Plain("doc_status")), Create(Object("documents", {"doc_status"}, {FK("users")}))>>
drop_documents == <<Drop("documents"), Drop("doc_status")>>

create_chunks ==
  <<CreateIfNotExists(Plain("vector")),
    Create(Object("chunks", {"vector"}, {Cascade("documents")}))>>
drop_chunks == <<Drop("chunks")>>

create_qa_tables ==
  <<Create(Object("conversations", {}, {FK("users")})),
    Create(Object("questions", {}, {Cascade("conversations"), FK("users")})),
    Create(Plain("answer_status")),
    Create(Object("answers", {"answer_status"}, {Cascade("questions")})),
    Create(Object("citations", {}, {Cascade("answers"), Cascade("chunks")}))>>
drop_qa_tables ==
  <<Drop("citations"), Drop("answers"), Drop("questions"), Drop("conversations"),
    Drop("answer_status")>>

\* ENUM(..., create_type=False): the decision has the type of the status.
create_review_and_audit ==
  <<Create(Object("review_decisions", {"answer_status"}, {Cascade("answers"), FK("users")})),
    Create(Object("audit_events", {}, {FK("users")})),
    Create(Plain("audit_events_immutable")),
    Create(Object("audit_events_no_rewrite", {"audit_events_immutable"},
                  {FK("audit_events")}))>>
drop_review_and_audit ==
  <<Drop("audit_events_no_rewrite"), Drop("audit_events_immutable"), Drop("audit_events"),
    Drop("review_decisions")>>

upgrade == <<create_users, create_documents, create_chunks, create_qa_tables,
             create_review_and_audit>>
downgrade == <<drop_users, drop_documents, drop_chunks, drop_qa_tables,
               drop_review_and_audit>>

-----------------------------------------------------------------------------
(* The declarative models, with the trigger that audit/models.py counts on *)

auth_models == {Plain("citext"), Plain("user_role"),
                Object("users", {"citext", "user_role"}, {})}
document_models == {Plain("doc_status"), Object("documents", {"doc_status"}, {FK("users")})}
ingestion_models == {Plain("vector"), Object("chunks", {"vector"}, {Cascade("documents")})}
qa_models == {Object("conversations", {}, {FK("users")}),
              Object("questions", {}, {Cascade("conversations"), FK("users")}),
              Plain("answer_status"),
              Object("answers", {"answer_status"}, {Cascade("questions")}),
              Object("citations", {}, {Cascade("answers"), Cascade("chunks")})}
review_models ==
  {Object("review_decisions", {"answer_status"}, {Cascade("answers"), FK("users")})}
audit_models ==
  {Object("audit_events", {}, {FK("users")}), Plain("audit_events_immutable"),
   Object("audit_events_no_rewrite", {"audit_events_immutable"}, {FK("audit_events")})}

Declared == auth_models \cup document_models \cup ingestion_models \cup qa_models
            \cup review_models \cup audit_models

-----------------------------------------------------------------------------
(* What PostgreSQL makes of a statement *)

Needs(o) == o.uses \cup {r.table : r \in o.refs}
Names(schema) == {o.name : o \in schema}

Possible(s, schema) ==
  \/ s.do = "ensure"
  \/ s.do = "create" /\ s.object.name \notin Names(schema) /\ Needs(s.object) \subseteq Names(schema)
  \/ /\ s.do = "drop" /\ s.object.name \in Names(schema)
     /\ \A o \in schema : s.object.name \notin Needs(o)

Effect(s, schema) == IF s.do = "drop" THEN {o \in schema : o.name # s.object.name}
                     ELSE schema \cup {s.object}

\* The schema that a transaction of these revisions leaves; none if one of its
\* statements fails, and the transaction with it.
Execute(outcome, s) == {Effect(s, schema) : schema \in {x \in outcome : Possible(s, x)}}
Run(revisions, schema) == FoldLeft(Execute, {schema}, FlattenSeq(revisions))

\* alembic upgrade head, alembic downgrade
UpgradeFrom(version, schema) == Run(SubSeq(upgrade, version + 1, HEAD), schema)
DowngradeTo(version, schema) == Run(Reverse(SubSeq(downgrade, version + 1, HEAD)), schema)

\* A database at this revision: migrated so far, or to the head and back by hand.
SchemasAt(version) ==
  Run(SubSeq(upgrade, 1, version), {})
  \cup UNION {DowngradeTo(version, schema) : schema \in Run(upgrade, {})}

\* The revisions in their order make what the models declare, from wherever they start.
ASSUME RevisionsAssumption ==
  /\ SchemasAt(HEAD) = {Declared}
  /\ \A v \in 0..HEAD : \A s \in SchemasAt(v) : UpgradeFrom(v, s) \subseteq {Declared}
=============================================================================
