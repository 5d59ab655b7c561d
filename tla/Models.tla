------------------------------- MODULE Models --------------------------------
(***************************************************************************)
(* The schema that the program believes in: the SQLAlchemy models and the  *)
(* enums of the domain.  Every insert and query is compiled from them.     *)
(***************************************************************************)
EXTENDS Revisions

UserModel ==
  [required |-> Of("users", Row \cup {"email", "full_name", "is_superadmin", "is_banned"}),
   nullable |-> Of("users", {"password_hash", "oauth_provider", "oauth_id",
                             "sessions_invalidated_at"}),
   unique |-> {Key("users", {"email"}), Key("users", {"oauth_provider", "oauth_id"})},
   checks |-> {<<"users", "password_or_oauth_identity">>}]

WorkspaceModel ==
  [required |-> Of("workspaces", Row \cup {"name", "slug", "task_prefix", "next_task_seq"}),
   nullable |-> Of("workspaces", {"suspended_at"}),
   unique |-> {Key("workspaces", {"name"}), Key("workspaces", {"slug"})}]

DepartmentModel ==
  [required |-> Of("departments", Row \cup {"workspace_id", "name"}),
   nullable |-> Of("departments", {"description", "head_id"}),
   unique |-> {Key("departments", {"workspace_id", "name"}),
               <<"departments", {"head_id"}, "head_id_IS_NOT_NULL">>},
   refs |-> {<<"departments", "workspace_id", "workspaces", "CASCADE">>,
             <<"departments", "head_id", "members", "SET_NULL">>}]

TeamModel ==
  [required |-> Of("teams", Row \cup {"workspace_id", "name"}),
   nullable |-> Of("teams", {"description", "department_id"}),
   unique |-> {Key("teams", {"workspace_id", "name"})},
   refs |-> {<<"teams", "workspace_id", "workspaces", "CASCADE">>,
             <<"teams", "department_id", "departments", "SET_NULL">>}]

ProjectModel ==
  [required |-> Of("projects", Row \cup {"workspace_id", "name", "status"}),
   nullable |-> Of("projects", {"description"}),
   unique |-> {Key("projects", {"workspace_id", "name"})},
   refs |-> {<<"projects", "workspace_id", "workspaces", "CASCADE">>}]

MemberModel ==
  [required |-> Of("members", Row \cup {"workspace_id", "type", "name", "priority", "role",
                                        "is_suspended"}),
   nullable |-> Of("members", {"user_id", "team_id", "email", "team_role", "model",
                               "last_seen_at"}),
   unique |-> {Key("members", {"workspace_id", "email"}),
               Key("members", {"workspace_id", "user_id"})},
   refs |-> {<<"members", "workspace_id", "workspaces", "CASCADE">>,
             <<"members", "user_id", "users", "RESTRICT">>,
             <<"members", "team_id", "teams", "SET_NULL">>},
   checks |-> {<<"members", "human_email">>, <<"members", "human_user_agent_none">>}]

CredentialsModel ==
  [required |-> Of("credentials", Row \cup {"member_id"}),
   nullable |-> Of("credentials", {"password_hash", "oauth_provider", "oauth_id"}),
   unique |-> {Key("credentials", {"member_id"}),
               Key("credentials", {"oauth_provider", "oauth_id"})},
   refs |-> {<<"credentials", "member_id", "members", "CASCADE">>},
   checks |-> {<<"credentials", "password_or_oauth_identity">>}]

AgentApiKeyModel ==
  [required |-> Of("agent_api_keys", {"id", "member_id", "secret_hash", "prefix", "last4",
                                      "created_by_member_id", "created_at"}),
   nullable |-> Of("agent_api_keys", {"label", "last_used_at", "revoked_at"}),
   unique |-> {Key("agent_api_keys", {"secret_hash"})},
   refs |-> {<<"agent_api_keys", "member_id", "members", "CASCADE">>,
             <<"agent_api_keys", "created_by_member_id", "members", "RESTRICT">>}]

TaskModel ==
  [required |-> Of("tasks", Row \cup {"workspace_id", "created_by_id", "title", "status",
                                      "priority", "seq", "is_blocked", "tokens_used"}),
   nullable |-> Of("tasks", {"assignee_id", "description", "project_id", "team_id", "due_at",
                             "completed_at", "blocked_reason"}),
   unique |-> {Key("tasks", {"workspace_id", "seq"})},
   refs |-> {<<"tasks", "workspace_id", "workspaces", "CASCADE">>,
             <<"tasks", "created_by_id", "members", "RESTRICT">>,
             <<"tasks", "assignee_id", "members", "SET_NULL">>,
             <<"tasks", "project_id", "projects", "SET_NULL">>,
             <<"tasks", "team_id", "teams", "SET_NULL">>}]

InviteModel ==
  [required |-> Of("invites", Row \cup {"workspace_id", "invited_by_id", "email", "role",
                                        "token_hash", "expires_at"}),
   nullable |-> Of("invites", {"accepted_at"}),
   unique |-> {Key("invites", {"token_hash"})},
   refs |-> {<<"invites", "workspace_id", "workspaces", "CASCADE">>,
             <<"invites", "invited_by_id", "members", "RESTRICT">>}]

TaskActivityModel ==
  [required |-> Of("task_activities", {"id", "task_id", "event_type", "payload",
                                       "created_at"}),
   nullable |-> Of("task_activities", {"actor_member_id"}),
   refs |-> {<<"task_activities", "task_id", "tasks", "CASCADE">>,
             <<"task_activities", "actor_member_id", "members", "SET_NULL">>}]

TaskCommentModel ==
  [required |-> Of("task_comments", Row \cup {"task_id", "body"}),
   nullable |-> Of("task_comments", {"author_member_id"}),
   refs |-> {<<"task_comments", "task_id", "tasks", "CASCADE">>,
             <<"task_comments", "author_member_id", "members", "SET_NULL">>}]

TaskRequestModel ==
  [required |-> Of("task_requests", Row \cup {"source_task_id", "suggested_title",
                                              "status"}),
   nullable |-> Of("task_requests", {"requested_team_id", "requester_member_id",
                                     "suggested_description", "justification",
                                     "fulfilled_task_id", "reject_reason",
                                     "resolver_member_id", "resolved_at"}),
   refs |-> {<<"task_requests", "source_task_id", "tasks", "CASCADE">>,
             <<"task_requests", "requested_team_id", "teams", "SET_NULL">>,
             <<"task_requests", "requester_member_id", "members", "SET_NULL">>,
             <<"task_requests", "fulfilled_task_id", "tasks", "SET_NULL">>,
             <<"task_requests", "resolver_member_id", "members", "SET_NULL">>}]

TaskRelationModel ==
  [required |-> Of("task_relations", Row \cup {"source_task_id", "target_task_id",
                                               "relation_type"}),
   unique |-> {Key("task_relations", {"source_task_id", "target_task_id",
                                      "relation_type"})},
   refs |-> {<<"task_relations", "source_task_id", "tasks", "CASCADE">>,
             <<"task_relations", "target_task_id", "tasks", "CASCADE">>},
   checks |-> {<<"task_relations", "two_tasks">>}]

TaskRatingModel ==
  [required |-> Of("task_ratings", Row \cup {"task_id", "rated_by_id", "score"}),
   nullable |-> Of("task_ratings", {"rated_member_id", "feedback"}),
   unique |-> {Key("task_ratings", {"task_id"})},
   refs |-> {<<"task_ratings", "task_id", "tasks", "CASCADE">>,
             <<"task_ratings", "rated_by_id", "members", "RESTRICT">>,
             <<"task_ratings", "rated_member_id", "members", "SET_NULL">>},
   checks |-> {<<"task_ratings", "0_to_100">>}]

NotificationModel ==
  [required |-> Of("notifications", {"id", "user_id", "type", "preview", "created_at"}),
   nullable |-> Of("notifications", {"source_task_id", "source_comment_id",
                                     "source_member_id", "read_at"}),
   refs |-> {<<"notifications", "user_id", "users", "RESTRICT">>,
             <<"notifications", "source_task_id", "tasks", "SET_NULL">>,
             <<"notifications", "source_comment_id", "task_comments", "SET_NULL">>,
             <<"notifications", "source_member_id", "members", "SET_NULL">>}]

AuditLogModel ==
  [required |-> Of("audit_logs", {"id", "workspace_id", "action", "resource_type",
                                  "changes", "created_at"}),
   nullable |-> Of("audit_logs", {"actor_member_id", "resource_id"}),
   refs |-> {<<"audit_logs", "workspace_id", "workspaces", "CASCADE">>,
             <<"audit_logs", "actor_member_id", "members", "SET_NULL">>}]

Enums ==
  [labels |->
     Of("member_type", {"HUMAN", "AGENT"})
       \cup Of("member_role", {"WORKSPACE_OWNER", "WORKSPACE_ADMIN", "WORKSPACE_USER"})
       \cup Of("team_role", {"MANAGER", "LEAD", "MEMBER"})
       \cup Of("task_status", {"PENDING", "IN_PROGRESS", "IN_REVIEW", "DONE", "CANCELLED"})
       \cup Of("oauth_provider", {"GOOGLE", "GITHUB"})
       \cup Of("task_relation_type", {"BLOCKS", "MITIGATES", "DUPLICATES", "RELATES_TO"})
       \cup Of("project_status", {"ACTIVE", "ARCHIVED"})
       \cup Of("notification_type", {"MENTION_TASK", "MENTION_COMMENT",
                                     "CROSS_TEAM_REQUEST"})]

ModelSchema ==
  LET parts == {UserModel, WorkspaceModel, DepartmentModel, TeamModel, ProjectModel,
                MemberModel, CredentialsModel, AgentApiKeyModel, TaskModel, InviteModel,
                TaskActivityModel, TaskCommentModel, TaskRequestModel, TaskRelationModel,
                TaskRatingModel, NotificationModel, AuditLogModel, Enums}
  IN [f \in DOMAIN NoSchema |->
        UNION {p[f] : p \in {q \in parts : f \in DOMAIN q}}]

(***************************************************************************)
(* A schema serves the models if it has every column, reference, check,    *)
(* key and label they declare, and demands no column they do not write.    *)
(***************************************************************************)
Serves(s) ==
  /\ s.required = ModelSchema.required
  /\ s.nullable = ModelSchema.nullable
  /\ s.refs = ModelSchema.refs
  /\ {<<c[1], c[3]>> : c \in s.checks} = ModelSchema.checks
  /\ ModelSchema.unique \subseteq s.unique
  /\ ModelSchema.labels \subseteq s.labels
=============================================================================
