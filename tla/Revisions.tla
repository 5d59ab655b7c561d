----------------------------- MODULE Revisions ------------------------------
(***************************************************************************)
(* The database schema, as the thirty Alembic revisions build it up and    *)
(* take it down, and as models.py declares it.                             *)
(*                                                                         *)
(* A schema is what an insert, a delete or a query can run into: columns   *)
(* that are required or may be NULL, keys that must be unique (a partial   *)
(* index has a condition), references and what a deletion does to them,    *)
(* named checks, and the labels of the enum types.  Column types, defaults *)
(* and the indexes that only make queries fast are left out.               *)
(***************************************************************************)
EXTENDS Naturals

NoSchema ==
  [required |-> {}, nullable |-> {}, unique |-> {}, refs |-> {}, checks |-> {},
   labels |-> {}]

Of(t, names) == {t} \X names
Row == {"id", "created_at", "updated_at"}
Key(t, names) == <<t, names, "TRUE">>   \* no condition

(***************************************************************************)
(* The statements of a revision.  A dropped column takes the keys and      *)
(* references on it along, a dropped table all it has.                     *)
(***************************************************************************)
Plus(s, changes) ==
  [f \in DOMAIN s |-> IF f \in DOMAIN changes THEN s[f] \cup changes[f] ELSE s[f]]

Minus(s, changes) ==
  [f \in DOMAIN s |-> IF f \in DOMAIN changes THEN s[f] \ changes[f] ELSE s[f]]

WithoutTable(s, t) ==
  [f \in DOMAIN s |->
     IF f = "labels" THEN s[f] ELSE {item \in s[f] : item[1] # t}]

WithoutColumns(s, t, names) ==
  [s EXCEPT
     !.required = @ \ Of(t, names),
     !.nullable = @ \ Of(t, names),
     !.unique = {k \in @ : ~(k[1] = t /\ k[2] \cap names # {})},
     !.refs = {r \in @ : ~(r[1] = t /\ r[2] \in names)}]

WithoutCheck(s, t, name) ==
  [s EXCEPT !.checks = {c \in @ : ~(c[1] = t /\ c[2] = name)}]

WithoutType(s, type) ==
  [s EXCEPT !.labels = {l \in @ : l[1] # type}]

Labels(s, type) == {l[2] : l \in {x \in s.labels : x[1] = type}}
Retyped(s, type, labels) == Plus(WithoutType(s, type), [labels |-> Of(type, labels)])

-----------------------------------------------------------------------------
(***************************************************************************)
(* Upgrades.                                                               *)
(***************************************************************************)
Upgrade0001(s) == Plus(s,
  [required |->
     Of("workspaces", Row \cup {"name", "slug"})
       \cup Of("teams", Row \cup {"workspace_id", "name"})
       \cup Of("members", Row \cup {"workspace_id", "type", "name", "priority"})
       \cup Of("credentials", Row \cup {"member_id"})
       \cup Of("tasks", Row \cup {"workspace_id", "created_by_id", "title",
                                  "status", "priority"}),
   nullable |->
     Of("members", {"team_id", "email"})
       \cup Of("credentials", {"password_hash", "agent_secret_hash"})
       \cup Of("tasks", {"assignee_id", "description", "due_at"}),
   unique |-> {Key("workspaces", {"slug"}), Key("teams", {"workspace_id", "name"}),
               Key("members", {"workspace_id", "email"}),
               Key("credentials", {"member_id"})},
   refs |-> {<<"teams", "workspace_id", "workspaces", "CASCADE">>,
             <<"members", "workspace_id", "workspaces", "CASCADE">>,
             <<"members", "team_id", "teams", "SET_NULL">>,
             <<"credentials", "member_id", "members", "CASCADE">>,
             <<"tasks", "workspace_id", "workspaces", "CASCADE">>,
             <<"tasks", "created_by_id", "members", "RESTRICT">>,
             <<"tasks", "assignee_id", "members", "SET_NULL">>},
   checks |-> {<<"members", "ck_members_human_must_have_email", "human_email">>,
               <<"credentials", "ck_credentials_at_least_one_secret",
                 "password_or_agent_secret">>},
   labels |-> Of("member_type", {"HUMAN", "AGENT"})
                \cup Of("task_status", {"PENDING", "IN_PROGRESS", "DONE", "CANCELLED"})])

Upgrade0002(s) == Plus(s,
  [nullable |-> Of("tasks", {"blocked_reason"}),
   labels |-> Of("task_status", {"BLOCKED"})])

Upgrade0003(s) == Plus(
  WithoutCheck(s, "credentials", "ck_credentials_at_least_one_secret"),
  [nullable |-> Of("credentials", {"oauth_provider", "oauth_id"}),
   unique |-> {Key("credentials", {"oauth_provider", "oauth_id"})},
   checks |-> {<<"credentials", "at_least_one_secret",
                 "password_agent_secret_or_oauth_identity">>},
   labels |-> Of("oauth_provider", {"GOOGLE", "GITHUB"})])

Upgrade0004(s) == Plus(s,
  [required |->
     Of("members", {"role"})
       \cup Of("invites", Row \cup {"workspace_id", "invited_by_id", "email", "role",
                                    "token_hash", "expires_at"}),
   nullable |-> Of("invites", {"accepted_at"}),
   unique |-> {Key("invites", {"token_hash"})},
   refs |-> {<<"invites", "workspace_id", "workspaces", "CASCADE">>,
             <<"invites", "invited_by_id", "members", "RESTRICT">>},
   labels |-> Of("member_role", {"OWNER", "ADMIN", "MEMBER"})])

Upgrade0005(s) == Plus(s,
  [required |-> Of("tasks", {"tokens_used"})
                  \cup Of("task_ratings", Row \cup {"task_id", "rated_by_id", "score"}),
   nullable |-> Of("members", {"model"}) \cup Of("tasks", {"completed_at"})
                  \cup Of("task_ratings", {"rated_member_id", "feedback"}),
   unique |-> {Key("task_ratings", {"task_id"})},
   refs |-> {<<"task_ratings", "task_id", "tasks", "CASCADE">>,
             <<"task_ratings", "rated_by_id", "members", "RESTRICT">>,
             <<"task_ratings", "rated_member_id", "members", "SET_NULL">>},
   checks |-> {<<"task_ratings", "score_range", "0_to_100">>}])

Upgrade0006(s) == Plus(s, [nullable |-> Of("members", {"last_seen_at"})])

Upgrade0007(s) == Plus(
  Retyped(s, "task_status", {"PENDING", "IN_PROGRESS", "DONE", "CANCELLED"}),
  [required |-> Of("workspaces", {"task_prefix", "next_task_seq"})
                  \cup Of("tasks", {"seq", "is_blocked"}),
   unique |-> {Key("tasks", {"workspace_id", "seq"})}])

Upgrade0008(s) == Plus(s,
  [required |-> Of("task_comments", Row \cup {"task_id", "body"}),
   nullable |-> Of("task_comments", {"author_member_id"}),
   refs |-> {<<"task_comments", "task_id", "tasks", "CASCADE">>,
             <<"task_comments", "author_member_id", "members", "SET_NULL">>}])

Upgrade0009(s) == Plus(s,
  [required |-> Of("task_relations", Row \cup {"source_task_id", "target_task_id",
                                               "relation_type"}),
   unique |-> {Key("task_relations", {"source_task_id", "target_task_id",
                                      "relation_type"})},
   refs |-> {<<"task_relations", "source_task_id", "tasks", "CASCADE">>,
             <<"task_relations", "target_task_id", "tasks", "CASCADE">>},
   checks |-> {<<"task_relations", "task_relations_no_self_link", "two_tasks">>},
   labels |-> Of("task_relation_type", {"BLOCKS", "MITIGATES", "DUPLICATES",
                                        "RELATES_TO"})])

Upgrade0010(s) == Plus(s,
  [required |-> Of("projects", Row \cup {"workspace_id", "name", "status"}),
   nullable |-> Of("projects", {"description"}) \cup Of("tasks", {"project_id", "team_id"}),
   unique |-> {Key("projects", {"workspace_id", "name"})},
   refs |-> {<<"projects", "workspace_id", "workspaces", "CASCADE">>,
             <<"tasks", "project_id", "projects", "SET_NULL">>,
             <<"tasks", "team_id", "teams", "SET_NULL">>},
   labels |-> Of("project_status", {"ACTIVE", "ARCHIVED"})])

Upgrade0011(s) == Plus(s,
  [required |-> Of("task_activities", {"id", "task_id", "event_type", "payload",
                                       "created_at"}),
   nullable |-> Of("task_activities", {"actor_member_id"}),
   refs |-> {<<"task_activities", "task_id", "tasks", "CASCADE">>,
             <<"task_activities", "actor_member_id", "members", "SET_NULL">>}])

Upgrade0012(s) == Plus(s,
  [nullable |-> Of("members", {"team_role"}),
   labels |-> Of("team_role", {"HEAD", "MANAGER", "LEAD", "MEMBER"})])

Upgrade0014(s) == Plus(s, [labels |-> Of("task_status", {"IN_REVIEW"})])

Upgrade0015(s) == Plus(s,
  [required |-> Of("task_requests", Row \cup {"source_task_id", "suggested_title",
                                              "status"}),
   nullable |-> Of("task_requests", {"requested_team_id", "requester_member_id",
                                     "suggested_description", "justification",
                                     "fulfilled_task_id", "reject_reason",
                                     "resolver_member_id", "resolved_at"}),
   refs |-> {<<"task_requests", "source_task_id", "tasks", "CASCADE">>,
             <<"task_requests", "requested_team_id", "teams", "SET_NULL">>,
             <<"task_requests", "requester_member_id", "members", "SET_NULL">>,
             <<"task_requests", "fulfilled_task_id", "tasks", "SET_NULL">>,
             <<"task_requests", "resolver_member_id", "members", "SET_NULL">>}])

Upgrade0016(s) == Plus(s, [unique |-> {Key("workspaces", {"name"})}])

Upgrade0017(s) == Plus(s,
  [required |-> Of("users", Row \cup {"email", "full_name"}),
   nullable |-> Of("users", {"password_hash", "oauth_provider", "oauth_id"})
                  \cup Of("members", {"user_id"}),
   unique |-> {Key("users", {"email"}), Key("users", {"oauth_provider", "oauth_id"}),
               Key("members", {"workspace_id", "user_id"})},
   refs |-> {<<"members", "user_id", "users", "RESTRICT">>},
   checks |-> {<<"users", "users_at_least_one_secret", "password_or_oauth_identity">>,
               <<"members", "members_human_has_user", "human_user_agent_none">>}])

Upgrade0018(s) ==
  Retyped(s, "member_role", {"WORKSPACE_OWNER", "WORKSPACE_ADMIN", "WORKSPACE_MEMBER"})

Upgrade0019(s) == Plus(s,
  [required |-> Of("notifications", {"id", "user_id", "type", "preview", "created_at"}),
   nullable |-> Of("notifications", {"source_task_id", "source_comment_id",
                                     "source_member_id", "read_at"}),
   refs |-> {<<"notifications", "user_id", "users", "RESTRICT">>,
             <<"notifications", "source_task_id", "tasks", "SET_NULL">>,
             <<"notifications", "source_comment_id", "task_comments", "SET_NULL">>,
             <<"notifications", "source_member_id", "members", "SET_NULL">>},
   labels |-> Of("notification_type", {"MENTION_TASK", "MENTION_COMMENT"})])

Upgrade0020(s) == Plus(s,
  [required |-> Of("departments", Row \cup {"workspace_id", "name"})
                  \cup Of("members", {"is_suspended"}),
   nullable |-> Of("departments", {"description"})
                  \cup Of("teams", {"department_id", "description"}),
   unique |-> {Key("departments", {"workspace_id", "name"})},
   refs |-> {<<"departments", "workspace_id", "workspaces", "CASCADE">>,
             <<"teams", "department_id", "departments", "SET_NULL">>}])

Upgrade0021(s) == Plus(
  Retyped(s, "member_role",
          (Labels(s, "member_role") \ {"WORKSPACE_MEMBER"}) \cup {"WORKSPACE_USER"}),
  [required |-> Of("audit_logs", {"id", "workspace_id", "action", "resource_type",
                                  "changes", "created_at"}),
   nullable |-> Of("audit_logs", {"actor_member_id", "resource_id"}),
   refs |-> {<<"audit_logs", "workspace_id", "workspaces", "CASCADE">>,
             <<"audit_logs", "actor_member_id", "members", "SET_NULL">>}])

Upgrade0022(s) == Plus(Retyped(s, "team_role", {"MANAGER", "LEAD", "MEMBER"}),
  [nullable |-> Of("departments", {"head_id"}),
   refs |-> {<<"departments", "head_id", "members", "SET_NULL">>}])

Upgrade0023(s) == Plus(s,
  [unique |-> {<<"departments", {"head_id"}, "head_id_IS_NOT_NULL">>}])

Upgrade0024(s) == Plus(s,
  [unique |-> {<<"members", {"team_id"}, "MANAGER">>, <<"members", {"team_id"}, "LEAD">>}])

Upgrade0026(s) == Plus(s, [required |-> Of("users", {"is_superadmin"})])

Upgrade0027(s) == Plus(s, [nullable |-> Of("workspaces", {"suspended_at"})])

Upgrade0028(s) == Plus(s,
  [required |-> Of("users", {"is_banned"}),
   nullable |-> Of("users", {"sessions_invalidated_at"})])

Upgrade0029(s) == Plus(
  WithoutColumns(WithoutCheck(s, "credentials", "at_least_one_secret"),
                 "credentials", {"agent_secret_hash"}),
  [required |-> Of("agent_api_keys", {"id", "member_id", "secret_hash", "prefix", "last4",
                                      "created_by_member_id", "created_at"}),
   nullable |-> Of("agent_api_keys", {"label", "last_used_at", "revoked_at"}),
   unique |-> {Key("agent_api_keys", {"secret_hash"})},
   refs |-> {<<"agent_api_keys", "member_id", "members", "CASCADE">>,
             <<"agent_api_keys", "created_by_member_id", "members", "RESTRICT">>},
   checks |-> {<<"credentials", "at_least_one_secret", "password_or_oauth_identity">>}])

\* Mutant: the label that the model has is never added.
Upgrade0030Missing(s) == s

Upgrade0030(s) == Plus(s, [labels |-> Of("notification_type", {"CROSS_TEAM_REQUEST"})])

Upgraded(s, v) ==
  CASE v = 1 -> Upgrade0001(s)  [] v = 2 -> Upgrade0002(s)  [] v = 3 -> Upgrade0003(s)
    [] v = 4 -> Upgrade0004(s)  [] v = 5 -> Upgrade0005(s)  [] v = 6 -> Upgrade0006(s)
    [] v = 7 -> Upgrade0007(s)  [] v = 8 -> Upgrade0008(s)  [] v = 9 -> Upgrade0009(s)
    [] v = 10 -> Upgrade0010(s) [] v = 11 -> Upgrade0011(s) [] v = 12 -> Upgrade0012(s)
    [] v = 14 -> Upgrade0014(s) [] v = 15 -> Upgrade0015(s) [] v = 16 -> Upgrade0016(s)
    [] v = 17 -> Upgrade0017(s) [] v = 18 -> Upgrade0018(s) [] v = 19 -> Upgrade0019(s)
    [] v = 20 -> Upgrade0020(s) [] v = 21 -> Upgrade0021(s) [] v = 22 -> Upgrade0022(s)
    [] v = 23 -> Upgrade0023(s) [] v = 24 -> Upgrade0024(s) [] v = 26 -> Upgrade0026(s)
    [] v = 27 -> Upgrade0027(s) [] v = 28 -> Upgrade0028(s) [] v = 29 -> Upgrade0029(s)
    [] v = 30 -> Upgrade0030(s)
    [] OTHER -> s                \* 0013 and 0025 only touch rows

-----------------------------------------------------------------------------
(***************************************************************************)
(* Downgrades.  PostgreSQL cannot take a label from an enum type, and      *)
(* 0002, 0014 and 0030 leave theirs behind.                                *)
(***************************************************************************)
Downgrade0001(s) ==
  WithoutType(WithoutType(
    WithoutTable(WithoutTable(WithoutTable(WithoutTable(WithoutTable(s,
      "tasks"), "credentials"), "members"), "teams"), "workspaces"),
    "task_status"), "member_type")

Downgrade0002(s) == WithoutColumns(s, "tasks", {"blocked_reason"})

Downgrade0003(s) ==
  WithoutType(
    WithoutColumns(
      Plus(WithoutCheck(s, "credentials", "ck_credentials_at_least_one_secret"),
           [checks |-> {<<"credentials", "at_least_one_secret",
                          "password_or_agent_secret">>}]),
      "credentials", {"oauth_id", "oauth_provider"}),
    "oauth_provider")

Downgrade0004(s) ==
  WithoutType(WithoutColumns(WithoutTable(s, "invites"), "members", {"role"}), "member_role")

Downgrade0005(s) ==
  WithoutColumns(WithoutColumns(WithoutTable(s, "task_ratings"),
    "tasks", {"tokens_used", "completed_at"}), "members", {"model"})

Downgrade0006(s) == WithoutColumns(s, "members", {"last_seen_at"})

Downgrade0007(s) ==
  WithoutColumns(WithoutColumns(
    Minus(Retyped(s, "task_status", {"PENDING", "IN_PROGRESS", "BLOCKED", "DONE", "CANCELLED"}),
          [unique |-> {Key("tasks", {"workspace_id", "seq"})}]),
    "tasks", {"is_blocked", "seq"}), "workspaces", {"next_task_seq", "task_prefix"})

Downgrade0008(s) == WithoutTable(s, "task_comments")

Downgrade0009(s) == WithoutType(WithoutTable(s, "task_relations"), "task_relation_type")

Downgrade0010(s) ==
  WithoutType(WithoutTable(WithoutColumns(s, "tasks", {"team_id", "project_id"}), "projects"),
              "project_status")

Downgrade0011(s) == WithoutTable(s, "task_activities")

Downgrade0012(s) == WithoutType(WithoutColumns(s, "members", {"team_role"}), "team_role")

Downgrade0015(s) == WithoutTable(s, "task_requests")

Downgrade0016(s) == Minus(s, [unique |-> {Key("workspaces", {"name"})}])

\* Mutant: the members' link to their user is left standing.
Downgrade0017KeepsUserId(s) ==
  WithoutTable(
    WithoutCheck(Minus(s, [unique |-> {Key("members", {"workspace_id", "user_id"})}]),
                 "members", "members_human_has_user"),
    "users")

Downgrade0017(s) ==
  WithoutTable(
    WithoutColumns(
      WithoutCheck(Minus(s, [unique |-> {Key("members", {"workspace_id", "user_id"})}]),
                   "members", "members_human_has_user"),
      "members", {"user_id"}),
    "users")

Downgrade0018(s) == Retyped(s, "member_role", {"OWNER", "ADMIN", "MEMBER"})

Downgrade0019(s) == WithoutType(WithoutTable(s, "notifications"), "notification_type")

Downgrade0020(s) ==
  WithoutTable(WithoutColumns(WithoutColumns(s, "members", {"is_suspended"}),
    "teams", {"description", "department_id"}), "departments")

Downgrade0021(s) ==
  Retyped(WithoutTable(s, "audit_logs"), "member_role",
          (Labels(s, "member_role") \ {"WORKSPACE_USER"}) \cup {"WORKSPACE_MEMBER"})

Downgrade0022(s) ==
  WithoutColumns(Retyped(s, "team_role", {"HEAD", "MANAGER", "LEAD", "MEMBER"}),
                 "departments", {"head_id"})

Downgrade0023(s) ==
  Minus(s, [unique |-> {<<"departments", {"head_id"}, "head_id_IS_NOT_NULL">>}])

Downgrade0024(s) ==
  Minus(s, [unique |-> {<<"members", {"team_id"}, "LEAD">>,
                        <<"members", {"team_id"}, "MANAGER">>}])

Downgrade0026(s) == WithoutColumns(s, "users", {"is_superadmin"})
Downgrade0027(s) == WithoutColumns(s, "workspaces", {"suspended_at"})
Downgrade0028(s) == WithoutColumns(s, "users", {"sessions_invalidated_at", "is_banned"})

Downgrade0029(s) ==
  WithoutTable(
    Plus(WithoutCheck(s, "credentials", "at_least_one_secret"),
         [nullable |-> Of("credentials", {"agent_secret_hash"}),
          checks |-> {<<"credentials", "at_least_one_secret",
                        "password_agent_secret_or_oauth_identity">>}]),
    "agent_api_keys")

Downgraded(s, v) ==
  CASE v = 1 -> Downgrade0001(s)  [] v = 2 -> Downgrade0002(s)  [] v = 3 -> Downgrade0003(s)
    [] v = 4 -> Downgrade0004(s)  [] v = 5 -> Downgrade0005(s)  [] v = 6 -> Downgrade0006(s)
    [] v = 7 -> Downgrade0007(s)  [] v = 8 -> Downgrade0008(s)  [] v = 9 -> Downgrade0009(s)
    [] v = 10 -> Downgrade0010(s) [] v = 11 -> Downgrade0011(s) [] v = 12 -> Downgrade0012(s)
    [] v = 15 -> Downgrade0015(s) [] v = 16 -> Downgrade0016(s) [] v = 17 -> Downgrade0017(s)
    [] v = 18 -> Downgrade0018(s) [] v = 19 -> Downgrade0019(s) [] v = 20 -> Downgrade0020(s)
    [] v = 21 -> Downgrade0021(s) [] v = 22 -> Downgrade0022(s) [] v = 23 -> Downgrade0023(s)
    [] v = 24 -> Downgrade0024(s) [] v = 26 -> Downgrade0026(s) [] v = 27 -> Downgrade0027(s)
    [] v = 28 -> Downgrade0028(s) [] v = 29 -> Downgrade0029(s)
    [] OTHER -> s                  \* 0013, 0014, 0025 and 0030 undo nothing

Latest == 30
SchemaAt[v \in 0..Latest] == IF v = 0 THEN NoSchema ELSE Upgraded(SchemaAt[v - 1], v)

=============================================================================
