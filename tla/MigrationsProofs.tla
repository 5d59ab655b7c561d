-------------------------- MODULE MigrationsProofs ---------------------------
(***************************************************************************)
(* Theorems about Migrations, for every database that satisfies            *)
(* MigrationsAssumption: any rows, any version, any sequence of commands.  *)
(*                                                                         *)
(* Two facts carry them.  Rules: of the keys, checks and labels that a row *)
(* can offend, a schema has those of its version, whichever way it came    *)
(* there.  Sound: the rows fit the schema, and are what the program of the *)
(* version takes for granted.  Each revision is taken once, up (RowsUp,    *)
(* RoomUp) and down (RowsDown, RoomDown); Climbing and Descending say what *)
(* a command under way has not touched of the rows it falls back to.       *)
(*                                                                         *)
(* The schemas as a whole need two facts more.  Rests: the schema holds    *)
(* what the revisions up to its version have made, and nothing else but    *)
(* labels.  It is kept because an upgrade adds what is New at the revision *)
(* and a downgrade takes exactly that (UpgradesSum, DowngradesSift), but   *)
(* for 0003 and 0029, which SecretsUp follows.  HeadServes: what the       *)
(* thirty make together is what the models declare.                        *)
(***************************************************************************)
EXTENDS Migrations, FiniteSetTheorems, WellFoundedInduction, TLAPS

-----------------------------------------------------------------------------
(***************************************************************************)
(* Schemas.                                                                *)
(***************************************************************************)
Fields == {"required", "nullable", "unique", "refs", "checks", "labels"}
Keys == {NameKey, SeqKey, UserKey, RankKey("MANAGER"), RankKey("LEAD"), HeadKey}
Checks == {SecretCheck, HumanCheck}
Statuses(s) == {l \in s.labels : l[1] = "task_status"}

\* Whatever rows s admits, t admits.
Loosens(s, t) ==
  /\ DOMAIN t = Fields
  /\ t.unique \cap Keys \subseteq s.unique
  /\ t.checks \cap Checks \subseteq s.checks
  /\ Statuses(t) = Statuses(s)

\* The change from s to t is nothing to any row.
Quiet(s, t) == Loosens(s, t) /\ Loosens(t, s)

LEMMA QuietItself ==
  ASSUME NEW s, DOMAIN s = Fields
  PROVE  Quiet(s, s)
BY DEF Quiet, Loosens, Statuses

LEMMA PlusQuiet ==
  ASSUME NEW s, NEW t, Quiet(s, t), NEW c,
         "unique" \in DOMAIN c => c.unique \cap Keys = {},
         "checks" \in DOMAIN c => c.checks \cap Checks = {},
         "labels" \in DOMAIN c => \A l \in c.labels : l[1] # "task_status"
  PROVE  Quiet(s, Plus(t, c))
BY DEF Quiet, Loosens, Statuses, Plus, Fields

LEMMA MinusLoosens ==
  ASSUME NEW s, NEW t, Loosens(s, t), NEW c, "labels" \notin DOMAIN c
  PROVE  Loosens(s, Minus(t, c))
BY DEF Loosens, Statuses, Minus, Fields

LEMMA WithoutTableLoosens ==
  ASSUME NEW s, NEW t, Loosens(s, t), NEW table
  PROVE  Loosens(s, WithoutTable(t, table))
BY DEF Loosens, Statuses, WithoutTable, Fields

LEMMA WithoutTableQuiet ==
  ASSUME NEW s, NEW t, Quiet(s, t), NEW table,
         \A k \in Keys \cup Checks : k[1] # table
  PROVE  Quiet(s, WithoutTable(t, table))
BY DEF Quiet, Loosens, Statuses, WithoutTable, Fields

LEMMA WithoutColumnsLoosens ==
  ASSUME NEW s, NEW t, Loosens(s, t), NEW table, NEW names
  PROVE  Loosens(s, WithoutColumns(t, table, names))
BY DEF Loosens, Statuses, WithoutColumns, Fields

LEMMA WithoutColumnsQuiet ==
  ASSUME NEW s, NEW t, Quiet(s, t), NEW table, NEW names,
         \A k \in Keys : k[1] = table => k[2] \cap names = {}
  PROVE  Quiet(s, WithoutColumns(t, table, names))
BY DEF Quiet, Loosens, Statuses, WithoutColumns, Fields

LEMMA WithoutCheckLoosens ==
  ASSUME NEW s, NEW t, Loosens(s, t), NEW table, NEW name
  PROVE  Loosens(s, WithoutCheck(t, table, name))
BY DEF Loosens, Statuses, WithoutCheck, Fields

LEMMA WithoutCheckQuiet ==
  ASSUME NEW s, NEW t, Quiet(s, t), NEW table, NEW name,
         \A c \in Checks : c[1] # table
  PROVE  Quiet(s, WithoutCheck(t, table, name))
BY DEF Quiet, Loosens, Statuses, WithoutCheck, Fields

LEMMA WithoutTypeQuiet ==
  ASSUME NEW s, NEW t, Quiet(s, t), NEW type, type # "task_status"
  PROVE  Quiet(s, WithoutType(t, type))
BY DEF Quiet, Loosens, Statuses, WithoutType, Fields

LEMMA RetypedQuiet ==
  ASSUME NEW s, NEW t, Quiet(s, t), NEW type, type # "task_status", NEW labels
  PROVE  Quiet(s, Retyped(t, type, labels))
<1>1. PICK c : c = [labels |-> Of(type, labels)]
  OBVIOUS
<1>2. DOMAIN c = {"labels"} /\ \A l \in c.labels : l[1] = type
  BY <1>1 DEF Of
<1>3. Quiet(s, WithoutType(t, type))
  BY WithoutTypeQuiet
<1>4. Quiet(s, Plus(WithoutType(t, type), c))
  BY <1>2, <1>3, PlusQuiet
<1> QED
  BY <1>1, <1>4 DEF Retyped

LEMMA UpgradedIs ==
  ASSUME NEW s
  PROVE  /\ Upgraded(s, 1) = Upgrade0001(s) /\ Upgraded(s, 2) = Upgrade0002(s)
         /\ Upgraded(s, 3) = Upgrade0003(s) /\ Upgraded(s, 4) = Upgrade0004(s)
         /\ Upgraded(s, 5) = Upgrade0005(s) /\ Upgraded(s, 6) = Upgrade0006(s)
         /\ Upgraded(s, 7) = Upgrade0007(s) /\ Upgraded(s, 8) = Upgrade0008(s)
         /\ Upgraded(s, 9) = Upgrade0009(s) /\ Upgraded(s, 10) = Upgrade0010(s)
         /\ Upgraded(s, 11) = Upgrade0011(s) /\ Upgraded(s, 12) = Upgrade0012(s)
         /\ Upgraded(s, 14) = Upgrade0014(s) /\ Upgraded(s, 15) = Upgrade0015(s)
         /\ Upgraded(s, 16) = Upgrade0016(s) /\ Upgraded(s, 17) = Upgrade0017(s)
         /\ Upgraded(s, 18) = Upgrade0018(s) /\ Upgraded(s, 19) = Upgrade0019(s)
         /\ Upgraded(s, 20) = Upgrade0020(s) /\ Upgraded(s, 21) = Upgrade0021(s)
         /\ Upgraded(s, 22) = Upgrade0022(s) /\ Upgraded(s, 23) = Upgrade0023(s)
         /\ Upgraded(s, 24) = Upgrade0024(s) /\ Upgraded(s, 26) = Upgrade0026(s)
         /\ Upgraded(s, 27) = Upgrade0027(s) /\ Upgraded(s, 28) = Upgrade0028(s)
         /\ Upgraded(s, 29) = Upgrade0029(s) /\ Upgraded(s, 30) = Upgrade0030(s)
         /\ Upgraded(s, 13) = s /\ Upgraded(s, 25) = s
BY DEF Upgraded

LEMMA DowngradedIs ==
  ASSUME NEW s
  PROVE  /\ Downgraded(s, 1) = Downgrade0001(s) /\ Downgraded(s, 2) = Downgrade0002(s)
         /\ Downgraded(s, 3) = Downgrade0003(s) /\ Downgraded(s, 4) = Downgrade0004(s)
         /\ Downgraded(s, 5) = Downgrade0005(s) /\ Downgraded(s, 6) = Downgrade0006(s)
         /\ Downgraded(s, 7) = Downgrade0007(s) /\ Downgraded(s, 8) = Downgrade0008(s)
         /\ Downgraded(s, 9) = Downgrade0009(s) /\ Downgraded(s, 10) = Downgrade0010(s)
         /\ Downgraded(s, 11) = Downgrade0011(s) /\ Downgraded(s, 12) = Downgrade0012(s)
         /\ Downgraded(s, 15) = Downgrade0015(s) /\ Downgraded(s, 16) = Downgrade0016(s)
         /\ Downgraded(s, 17) = Downgrade0017(s) /\ Downgraded(s, 18) = Downgrade0018(s)
         /\ Downgraded(s, 19) = Downgrade0019(s) /\ Downgraded(s, 20) = Downgrade0020(s)
         /\ Downgraded(s, 21) = Downgrade0021(s) /\ Downgraded(s, 22) = Downgrade0022(s)
         /\ Downgraded(s, 23) = Downgrade0023(s) /\ Downgraded(s, 24) = Downgrade0024(s)
         /\ Downgraded(s, 26) = Downgrade0026(s) /\ Downgraded(s, 27) = Downgrade0027(s)
         /\ Downgraded(s, 28) = Downgrade0028(s) /\ Downgraded(s, 29) = Downgrade0029(s)
         /\ Downgraded(s, 13) = s /\ Downgraded(s, 14) = s
         /\ Downgraded(s, 25) = s /\ Downgraded(s, 30) = s
BY DEF Downgraded

\* What PostgreSQL compares rows by is created by these few revisions.
LEMMA QuietUpgrades ==
  ASSUME NEW s, DOMAIN s = Fields, NEW v \in (1..30) \ {1, 2, 7, 14, 16, 17, 23, 24}
  PROVE  Quiet(s, Upgraded(s, v))
<1>0. Quiet(s, s)
  BY QuietItself
<1> USE UpgradedIs
    DEF Keys, Checks, NameKey, SeqKey, UserKey, RankKey, HeadKey, SecretCheck, HumanCheck, Key, Of
<1>3. Quiet(s, Upgraded(s, 3))
  BY <1>0, PlusQuiet, WithoutCheckQuiet DEF Upgrade0003
<1>4. Quiet(s, Upgraded(s, 4))
  BY <1>0, PlusQuiet DEF Upgrade0004
<1>5. Quiet(s, Upgraded(s, 5))
  BY <1>0, PlusQuiet DEF Upgrade0005
<1>6. Quiet(s, Upgraded(s, 6))
  BY <1>0, PlusQuiet DEF Upgrade0006
<1>8. Quiet(s, Upgraded(s, 8))
  BY <1>0, PlusQuiet DEF Upgrade0008
<1>9. Quiet(s, Upgraded(s, 9))
  BY <1>0, PlusQuiet DEF Upgrade0009
<1>10. Quiet(s, Upgraded(s, 10))
  BY <1>0, PlusQuiet DEF Upgrade0010
<1>11. Quiet(s, Upgraded(s, 11))
  BY <1>0, PlusQuiet DEF Upgrade0011
<1>12. Quiet(s, Upgraded(s, 12))
  BY <1>0, PlusQuiet DEF Upgrade0012
<1>15. Quiet(s, Upgraded(s, 15))
  BY <1>0, PlusQuiet DEF Upgrade0015
<1>18. Quiet(s, Upgraded(s, 18))
  BY <1>0, RetypedQuiet DEF Upgrade0018
<1>19. Quiet(s, Upgraded(s, 19))
  BY <1>0, PlusQuiet DEF Upgrade0019
<1>20. Quiet(s, Upgraded(s, 20))
  BY <1>0, PlusQuiet DEF Upgrade0020
<1>21. Quiet(s, Upgraded(s, 21))
  <2>1. PICK labels : labels = (Labels(s, "member_role") \ {"WORKSPACE_MEMBER"})
                                \cup {"WORKSPACE_USER"}
    OBVIOUS
  <2>2. Quiet(s, Retyped(s, "member_role", labels))
    BY <1>0, RetypedQuiet
  <2> QED
    BY <2>1, <2>2, PlusQuiet DEF Upgrade0021
<1>22. Quiet(s, Upgraded(s, 22))
  BY <1>0, RetypedQuiet, PlusQuiet DEF Upgrade0022
<1>26. Quiet(s, Upgraded(s, 26))
  BY <1>0, PlusQuiet DEF Upgrade0026
<1>27. Quiet(s, Upgraded(s, 27))
  BY <1>0, PlusQuiet DEF Upgrade0027
<1>28. Quiet(s, Upgraded(s, 28))
  BY <1>0, PlusQuiet DEF Upgrade0028
<1>29. Quiet(s, Upgraded(s, 29))
  BY <1>0, WithoutCheckQuiet, WithoutColumnsQuiet, PlusQuiet DEF Upgrade0029
<1>30. Quiet(s, Upgraded(s, 30))
  BY <1>0, PlusQuiet DEF Upgrade0030
<1>31. Quiet(s, Upgraded(s, 13)) /\ Quiet(s, Upgraded(s, 25))
  BY <1>0
<1> QED
  BY <1>3, <1>4, <1>5, <1>6, <1>8, <1>9, <1>10, <1>11, <1>12, <1>15, <1>18, <1>19, <1>20,
     <1>21, <1>22, <1>26, <1>27, <1>28, <1>29, <1>30, <1>31

LEMMA QuietDowngrades ==
  ASSUME NEW s, DOMAIN s = Fields, NEW v \in (1..30) \ {1, 7, 16, 17, 20, 22, 23, 24}
  PROVE  Quiet(s, Downgraded(s, v))
<1>0. Quiet(s, s)
  BY QuietItself
<1> USE DowngradedIs
    DEF Keys, Checks, NameKey, SeqKey, UserKey, RankKey, HeadKey, SecretCheck, HumanCheck, Key, Of
<1>2. Quiet(s, Downgraded(s, 2))
  BY <1>0, WithoutColumnsQuiet DEF Downgrade0002
<1>3. Quiet(s, Downgraded(s, 3))
  BY <1>0, WithoutCheckQuiet, PlusQuiet, WithoutColumnsQuiet, WithoutTypeQuiet DEF Downgrade0003
<1>4. Quiet(s, Downgraded(s, 4))
  BY <1>0, WithoutTableQuiet, WithoutColumnsQuiet, WithoutTypeQuiet DEF Downgrade0004
<1>5. Quiet(s, Downgraded(s, 5))
  BY <1>0, WithoutTableQuiet, WithoutColumnsQuiet DEF Downgrade0005
<1>6. Quiet(s, Downgraded(s, 6))
  BY <1>0, WithoutColumnsQuiet DEF Downgrade0006
<1>8. Quiet(s, Downgraded(s, 8))
  BY <1>0, WithoutTableQuiet DEF Downgrade0008
<1>9. Quiet(s, Downgraded(s, 9))
  BY <1>0, WithoutTableQuiet, WithoutTypeQuiet DEF Downgrade0009
<1>10. Quiet(s, Downgraded(s, 10))
  BY <1>0, WithoutColumnsQuiet, WithoutTableQuiet, WithoutTypeQuiet DEF Downgrade0010
<1>11. Quiet(s, Downgraded(s, 11))
  BY <1>0, WithoutTableQuiet DEF Downgrade0011
<1>12. Quiet(s, Downgraded(s, 12))
  BY <1>0, WithoutColumnsQuiet, WithoutTypeQuiet DEF Downgrade0012
<1>15. Quiet(s, Downgraded(s, 15))
  BY <1>0, WithoutTableQuiet DEF Downgrade0015
<1>18. Quiet(s, Downgraded(s, 18))
  BY <1>0, RetypedQuiet DEF Downgrade0018
<1>19. Quiet(s, Downgraded(s, 19))
  BY <1>0, WithoutTableQuiet, WithoutTypeQuiet DEF Downgrade0019
<1>21. Quiet(s, Downgraded(s, 21))
  <2>1. PICK labels : labels = (Labels(s, "member_role") \ {"WORKSPACE_USER"})
                                \cup {"WORKSPACE_MEMBER"}
    OBVIOUS
  <2>2. Quiet(s, WithoutTable(s, "audit_logs"))
    BY <1>0, WithoutTableQuiet
  <2> QED
    BY <2>1, <2>2, RetypedQuiet DEF Downgrade0021
<1>26. Quiet(s, Downgraded(s, 26))
  BY <1>0, WithoutColumnsQuiet DEF Downgrade0026
<1>27. Quiet(s, Downgraded(s, 27))
  BY <1>0, WithoutColumnsQuiet DEF Downgrade0027
<1>28. Quiet(s, Downgraded(s, 28))
  BY <1>0, WithoutColumnsQuiet DEF Downgrade0028
<1>29. Quiet(s, Downgraded(s, 29))
  BY <1>0, WithoutCheckQuiet, PlusQuiet, WithoutTableQuiet DEF Downgrade0029
<1>31. \A w \in {13, 14, 25, 30} : Quiet(s, Downgraded(s, w))
  BY <1>0
<1> QED
  BY <1>2, <1>3, <1>4, <1>5, <1>6, <1>8, <1>9, <1>10, <1>11, <1>12, <1>15, <1>18, <1>19,
     <1>21, <1>26, <1>27, <1>28, <1>29, <1>31

LEMMA DowngradesLoosen ==
  ASSUME NEW s, DOMAIN s = Fields, NEW v \in (1..30) \ {1, 7}
  PROVE  Loosens(s, Downgraded(s, v))
<1>0. Loosens(s, s)
  BY QuietItself DEF Quiet
<1> USE DowngradedIs
<1>16. Loosens(s, Downgraded(s, 16))
  BY <1>0, MinusLoosens DEF Downgrade0016
<1>17. Loosens(s, Downgraded(s, 17))
  BY <1>0, MinusLoosens, WithoutCheckLoosens, WithoutColumnsLoosens, WithoutTableLoosens
     DEF Downgrade0017
<1>20. Loosens(s, Downgraded(s, 20))
  BY <1>0, WithoutColumnsLoosens, WithoutTableLoosens DEF Downgrade0020
<1>22. Loosens(s, Downgraded(s, 22))
  BY QuietItself, RetypedQuiet, WithoutColumnsLoosens DEF Quiet, Downgrade0022
<1>23. Loosens(s, Downgraded(s, 23))
  BY <1>0, MinusLoosens DEF Downgrade0023
<1>24. Loosens(s, Downgraded(s, 24))
  BY <1>0, MinusLoosens DEF Downgrade0024
<1> QED
  BY <1>16, <1>17, <1>20, <1>22, <1>23, <1>24, QuietDowngrades DEF Quiet

(***************************************************************************)
(* What the schema of a version holds rows to: which of them exist.        *)
(***************************************************************************)
Basic == {"PENDING", "IN_PROGRESS", "DONE", "CANCELLED"}
Known(v) ==
  IF v = 0 THEN {} ELSE IF v < 7 THEN Basic \cup {"BLOCKED"} ELSE Basic \cup {"IN_REVIEW"}

Rules(v, s) ==
  /\ DOMAIN s = Fields
  /\ \A l \in Statuses(s) : l[2] \in Known(v)
  /\ v < 24 => RankKey("MANAGER") \notin s.unique /\ RankKey("LEAD") \notin s.unique
  /\ v >= 23 => HeadKey \in s.unique
  /\ v >= 17 => HumanCheck \in s.checks

\* Revisions that are nothing to any row keep the rules, but at the versions
\* where the rules change.
LEMMA RulesStay ==
  ASSUME NEW v \in Int, NEW w \in Int, NEW s, NEW t, Rules(v, s), Quiet(s, t),
         v = 0 <=> w = 0, v < 7 <=> w < 7, v < 17 <=> w < 17, v < 23 <=> w < 23,
         v < 24 <=> w < 24
  PROVE  Rules(w, t)
<1>1. Known(v) = Known(w)
  BY DEF Known
<1>2. {RankKey("MANAGER"), RankKey("LEAD"), HeadKey} \subseteq Keys /\ HumanCheck \in Checks
  BY DEF Keys, Checks
<1> QED
  BY <1>1, <1>2 DEF Rules, Quiet, Loosens

LEMMA RetypedStatuses ==
  ASSUME NEW s, DOMAIN s = Fields, NEW names, NEW t, t = Retyped(s, "task_status", names)
  PROVE  /\ DOMAIN t = Fields /\ t.unique = s.unique /\ t.checks = s.checks
         /\ \A l \in Statuses(t) : l[2] \in names
BY DEF Retyped, WithoutType, Plus, Fields, Statuses, Of

LEMMA RulesUp ==
  ASSUME NEW v \in 1..30, NEW s, Rules(v - 1, s)
  PROVE  Rules(v, Upgraded(s, v))
<1> USE UpgradedIs
<1>0. CASE v \notin {1, 2, 7, 14, 16, 17, 23, 24}
  <2>1. Quiet(s, Upgraded(s, v))
    BY <1>0, QuietUpgrades DEF Rules
  <2> QED
    BY <1>0, <2>1, RulesStay
<1>1. CASE v = 1
  BY <1>1 DEF Rules, Upgrade0001, Plus, Fields, Statuses, Known, Basic, Of, Key, RankKey
<1>2. CASE v = 2
  BY <1>2 DEF Rules, Upgrade0002, Plus, Fields, Statuses, Known, Basic, Of
<1>7. CASE v = 7
  <2>1. PICK t : t = Retyped(s, "task_status", Basic)
    OBVIOUS
  <2>2. /\ DOMAIN t = Fields /\ t.unique = s.unique
        /\ \A l \in Statuses(t) : l[2] \in Basic
    BY <2>1, RetypedStatuses DEF Rules
  <2>3. Upgrade0007(s) = Plus(t,
          [required |-> Of("workspaces", {"task_prefix", "next_task_seq"})
                          \cup Of("tasks", {"seq", "is_blocked"}),
           unique |-> {SeqKey}])
    BY <2>1 DEF Upgrade0007, Basic, SeqKey
  <2> QED
    BY <1>7, <2>2, <2>3 DEF Rules, Plus, Fields, Statuses, Known, SeqKey, Key, RankKey
<1>14. CASE v = 14
  BY <1>14 DEF Rules, Upgrade0014, Plus, Fields, Statuses, Known, Basic, Of
<1>16. CASE v = 16
  BY <1>16 DEF Rules, Upgrade0016, Plus, Fields, Statuses, Known, Key, RankKey
<1>17. CASE v = 17
  BY <1>17 DEF Rules, Upgrade0017, Plus, Fields, Statuses, Known, Key, RankKey, HumanCheck
<1>23. CASE v = 23
  BY <1>23 DEF Rules, Upgrade0023, Plus, Fields, Statuses, Known, RankKey, HeadKey
<1>24. CASE v = 24
  BY <1>24 DEF Rules, Upgrade0024, Plus, Fields, Statuses, Known, RankKey, HeadKey
<1> QED
  BY <1>0, <1>1, <1>2, <1>7, <1>14, <1>16, <1>17, <1>23, <1>24

LEMMA RulesDown ==
  ASSUME NEW v \in 1..30, NEW s, Rules(v, s)
  PROVE  Rules(v - 1, Downgraded(s, v))
<1> USE DowngradedIs
<1> PICK t : t = Downgraded(s, v)
  OBVIOUS
<1>a. {RankKey("MANAGER"), RankKey("LEAD"), HeadKey} \subseteq Keys /\ HumanCheck \in Checks
  BY DEF Keys, Checks
<1>0. CASE v \notin {1, 7, 16, 17, 20, 22, 23, 24}
  <2>1. Quiet(s, Downgraded(s, v))
    BY <1>0, QuietDowngrades DEF Rules
  <2> QED
    BY <1>0, <2>1, RulesStay
<1>1. CASE v = 1
  <2>1. PICK u : u = WithoutTable(WithoutTable(WithoutTable(WithoutTable(WithoutTable(s,
                       "tasks"), "credentials"), "members"), "teams"), "workspaces")
    OBVIOUS
  <2>2. Loosens(s, u)
    BY <2>1, QuietItself, WithoutTableLoosens DEF Rules, Quiet
  <2>3. PICK w : w = WithoutType(u, "task_status")
    OBVIOUS
  <2>4. DOMAIN w = Fields /\ Statuses(w) = {} /\ w.unique = u.unique
    BY <2>2, <2>3 DEF Loosens, WithoutType, Fields, Statuses
  <2>5. Quiet(w, t)
    BY <1>1, <2>1, <2>3, <2>4, QuietItself, WithoutTypeQuiet DEF Downgrade0001
  <2> QED
    BY <1>1, <1>a, <2>2, <2>4, <2>5 DEF Rules, Quiet, Loosens
<1>2. CASE v = 7
  <2>1. PICK u : u = Retyped(s, "task_status", Basic \cup {"BLOCKED"})
    OBVIOUS
  <2>2. /\ DOMAIN u = Fields /\ u.unique = s.unique
        /\ \A l \in Statuses(u) : l[2] \in Basic \cup {"BLOCKED"}
    BY <2>1, RetypedStatuses DEF Rules
  <2>3. t = WithoutColumns(WithoutColumns(Minus(u, [unique |-> {SeqKey}]),
              "tasks", {"is_blocked", "seq"}), "workspaces", {"next_task_seq", "task_prefix"})
    BY <1>2, <2>1 DEF Downgrade0007, Basic, SeqKey
  <2>4. Loosens(u, t)
    BY <2>2, <2>3, QuietItself, MinusLoosens, WithoutColumnsLoosens DEF Quiet
  <2> QED
    BY <1>2, <1>a, <2>2, <2>4 DEF Rules, Loosens, Known
<1>3. CASE v \in {16, 17, 20, 22, 23, 24}
  <2>1. Loosens(s, t)
    BY <1>3, DowngradesLoosen DEF Rules
  <2>2. v \in {20, 22, 23, 24} => HumanCheck \in t.checks
    <3>1. CASE v = 20
      <4>1. PICK u : u = WithoutColumns(WithoutColumns(s, "members", {"is_suspended"}),
                           "teams", {"description", "department_id"})
        OBVIOUS
      <4>2. DOMAIN u = Fields /\ u.checks = s.checks
        BY <4>1 DEF Rules, WithoutColumns, Fields
      <4> QED
        BY <3>1, <4>1, <4>2 DEF Rules, Downgrade0020, WithoutTable, Fields, HumanCheck
    <3>2. CASE v = 22
      <4>1. PICK u : u = Retyped(s, "team_role", {"HEAD", "MANAGER", "LEAD", "MEMBER"})
        OBVIOUS
      <4>2. DOMAIN u = Fields /\ u.checks = s.checks
        BY <4>1 DEF Rules, Retyped, Plus, WithoutType, Fields
      <4>3. t = WithoutColumns(u, "departments", {"head_id"})
        BY <3>2, <4>1 DEF Downgrade0022
      <4>4. t.checks = u.checks
        BY <4>2, <4>3 DEF WithoutColumns, Fields
      <4> QED
        BY <3>2, <4>2, <4>4 DEF Rules
    <3>3. CASE v \in {23, 24}
      BY <3>3 DEF Rules, Downgrade0023, Downgrade0024, Minus, Fields
    <3> QED
      BY <3>1, <3>2, <3>3
  <2>3. v = 24 => /\ HeadKey \in t.unique
                  /\ RankKey("MANAGER") \notin t.unique /\ RankKey("LEAD") \notin t.unique
    BY DEF Rules, Downgrade0024, Minus, Fields, HeadKey, RankKey
  <2>4. \A l \in Statuses(t) : l[2] \in Known(v - 1)
    BY <1>3, <2>1 DEF Rules, Loosens, Known
  <2> QED
    BY <1>3, <1>a, <2>1, <2>2, <2>3, <2>4 DEF Rules, Loosens
<1> QED
  BY <1>0, <1>1, <1>2, <1>3

\* Induction on numbers, for want of an induction theorem without an operator.
LEMMA LeastNumber ==
  ASSUME NEW T, T \subseteq Nat, T # {}
  PROVE  \E n \in T : \A m \in T : n <= m
<1>1. PICK R : R = OpToRel(<, Nat)
  OBVIOUS
<1>2. IsWellFoundedOn(R, Nat)
  BY <1>1, NatLessThanWellFounded
<1>3. \A pair \in Nat \X Nat : pair \in R <=> pair[1] < pair[2]
  BY <1>1, Zenon DEF OpToRel
<1>4. PICK n \in T : \A m \in T : <<m, n>> \notin R
  BY <1>2, WFMin
<1>5. ASSUME NEW m \in T PROVE ~(m < n)
  BY <1>3, <1>4
<1> QED
  BY <1>5

\* The schemas up to version n, one from the other.
Built(n, f) ==
  f = [v \in 0..n |-> IF v = 0 THEN NoSchema ELSE Upgraded(f[v - 1], v)]

LEMMA BuiltSteps ==
  ASSUME NEW n, NEW f, Built(n, f), NEW v \in 0..n
  PROVE  f[v] = IF v = 0 THEN NoSchema ELSE Upgraded(f[v - 1], v)
BY Zenon DEF Built

LEMMA AllBuilt == \A n \in Nat : \E f : Built(n, f)
<1> PICK T : T = {n \in Nat : \A f : ~Built(n, f)}
  OBVIOUS
<1>1. SUFFICES ASSUME T # {} PROVE FALSE
  OBVIOUS
<1>2. PICK n \in T : \A m \in T : n <= m
  BY <1>1, LeastNumber
<1>3. n # 0
  <2>1. PICK f : f = [v \in 0..0 |-> NoSchema]
    OBVIOUS
  <2>2. Built(0, f)
    BY <2>1 DEF Built
  <2> QED
    BY <2>2
<1>4. n - 1 \in Nat \ T
  BY <1>2, <1>3
<1>5. PICK g : Built(n - 1, g)
  BY <1>4
<1>6. PICK f : f = [v \in 0..n |-> IF v = n THEN Upgraded(g[n - 1], n) ELSE g[v]]
  OBVIOUS
<1>7. ASSUME NEW v \in 0..n
      PROVE  f[v] = IF v = 0 THEN NoSchema ELSE Upgraded(f[v - 1], v)
  <2>1. CASE v = n
    BY <1>3, <1>4, <1>6, <2>1
  <2>2. CASE v # n
    <3>1. v \in 0..(n - 1) /\ (v # 0 => v - 1 \in 0..n /\ v - 1 # n)
      BY <1>4, <2>2
    <3>2. g[v] = IF v = 0 THEN NoSchema ELSE Upgraded(g[v - 1], v)
      BY <1>5, <3>1, BuiltSteps
    <3> QED
      BY <1>6, <2>2, <3>1, <3>2
  <2> QED
    BY <2>1, <2>2
<1>8. Built(n, f)
  BY <1>6, <1>7 DEF Built
<1> QED
  BY <1>8

LEMMA SchemaAtIs == Built(Latest, SchemaAt)
<1>1. \E f : Built(Latest, f)
  BY AllBuilt DEF Latest
<1> QED
  BY <1>1 DEF Built, SchemaAt

LEMMA SchemaSteps ==
  \A v \in 0..30 : SchemaAt[v] = IF v = 0 THEN NoSchema ELSE Upgraded(SchemaAt[v - 1], v)
<1>1. Built(30, SchemaAt)
  BY SchemaAtIs DEF Latest
<1> QED
  BY <1>1, BuiltSteps, Zenon

LEMMA RulesAtRevisions == \A v \in 0..Latest : Rules(v, SchemaAt[v])
<1>1. PICK T : T = {v \in 0..30 : ~Rules(v, SchemaAt[v])}
  OBVIOUS
<1>2. SUFFICES ASSUME T # {} PROVE FALSE
  BY <1>1 DEF Latest
<1>3. PICK n \in T : \A m \in T : n <= m
  <2>1. T \subseteq Nat
    BY <1>1
  <2> QED
    BY <1>2, <2>1, LeastNumber
<1>4. Rules(0, NoSchema)
  BY DEF Rules, NoSchema, Fields, Statuses
<1>5. n \in 1..30 /\ n - 1 \in 0..30 /\ n - 1 \notin T
  <2>1. SchemaAt[0] = NoSchema
    BY SchemaSteps
  <2>2. n # 0
    BY <1>1, <1>4, <2>1
  <2> QED
    BY <1>1, <1>3, <2>2
<1>6. Rules(n, Upgraded(SchemaAt[n - 1], n))
  BY <1>1, <1>5, RulesUp
<1> QED
  BY SchemaSteps, <1>1, <1>3, <1>5, <1>6

LEMMA Mapped ==
  ASSUME NEW S, NEW T, NEW s \in Seq(S), NEW f, f = [i \in DOMAIN s |-> f[i]],
         \A i \in DOMAIN s : f[i] \in T
  PROVE  f \in Seq(T) /\ Len(f) = Len(s)
<1>1. DOMAIN s = 1..Len(s) /\ Len(s) \in Nat
  OBVIOUS
<1>2. f \in [1..Len(s) -> T]
  BY <1>1
<1> QED
  BY <1>1, <1>2

-----------------------------------------------------------------------------
(***************************************************************************)
(* Rows: what each backfill makes of its table, and that it leaves the     *)
(* others alone.                                                           *)
(***************************************************************************)
Tables == {"names", "tasks", "next", "people", "users", "places", "heads"}
Kept(r, q, changed) == \A table \in Tables \ changed : q[table] = r[table]

LEMMA TablesOf ==
  ASSUME NEW r \in Rows
  PROVE  /\ r.names \in Seq(Name) /\ r.tasks \in Seq(Task) /\ r.next \in [Workspaces -> Nat]
         /\ r.people \in Seq(Person) /\ r.users \subseteq User
         /\ r.places \in Seq(Place) /\ r.heads \in Seq(Nat)
BY DEF Rows

LEMMA NamesPut ==
  ASSUME NEW r \in Rows, NEW x \in Seq(Name), NEW q, q = [r EXCEPT !.names = x]
  PROVE  q \in Rows /\ q.names = x /\ Kept(r, q, {"names"})
BY DEF Rows, Kept, Tables

LEMMA TasksPut ==
  ASSUME NEW r \in Rows, NEW x \in Seq(Task), NEW q, q = [r EXCEPT !.tasks = x]
  PROVE  q \in Rows /\ q.tasks = x /\ Kept(r, q, {"tasks"})
BY DEF Rows, Kept, Tables

LEMMA NumbersPut ==
  ASSUME NEW r \in Rows, NEW x \in Seq(Task), NEW n \in [Workspaces -> Nat],
         NEW q, q = [r EXCEPT !.tasks = x, !.next = n]
  PROVE  q \in Rows /\ q.tasks = x /\ q.next = n /\ Kept(r, q, {"tasks", "next"})
BY DEF Rows, Kept, Tables

LEMMA PeoplePut ==
  ASSUME NEW r \in Rows, NEW x \in Seq(Person), NEW q, q = [r EXCEPT !.people = x]
  PROVE  q \in Rows /\ q.people = x /\ Kept(r, q, {"people"})
BY DEF Rows, Kept, Tables

LEMMA UsersPut ==
  ASSUME NEW r \in Rows, NEW x \in Seq(Person), NEW u, u \subseteq User,
         NEW q, q = [r EXCEPT !.people = x, !.users = u]
  PROVE  q \in Rows /\ q.people = x /\ q.users = u /\ Kept(r, q, {"people", "users"})
BY DEF Rows, Kept, Tables

LEMMA PlacesPut ==
  ASSUME NEW r \in Rows, NEW x \in Seq(Place), NEW q, q = [r EXCEPT !.places = x]
  PROVE  q \in Rows /\ q.places = x /\ Kept(r, q, {"places"})
BY DEF Rows, Kept, Tables

LEMMA HeadsPut ==
  ASSUME NEW r \in Rows, NEW x \in Seq(Nat), NEW q, q = [r EXCEPT !.heads = x]
  PROVE  q \in Rows /\ q.heads = x /\ Kept(r, q, {"heads"})
BY DEF Rows, Kept, Tables

LEMMA ChartPut ==
  ASSUME NEW r \in Rows, NEW x \in Seq(Place), NEW h \in Seq(Nat),
         NEW q, q = [r EXCEPT !.places = x, !.heads = h]
  PROVE  q \in Rows /\ q.places = x /\ q.heads = h /\ Kept(r, q, {"places", "heads"})
BY DEF Rows, Kept, Tables

(***************************************************************************)
(* People.                                                                 *)
(***************************************************************************)
\* The same people in the same order, perhaps with other roles and secrets.
SamePeople(x, y) ==
  /\ DOMAIN y = DOMAIN x
  /\ \A i \in DOMAIN x :
       /\ y[i].workspace = x[i].workspace /\ y[i].type = x[i].type /\ y[i].email = x[i].email

SameAccounts(x, y) == \A i \in DOMAIN x : y[i].user = x[i].user

LEMMA SamePeopleFit ==
  ASSUME NEW s, NEW x, NEW y, SamePeople(x, y), SameAccounts(x, y), PeopleFit(s, x)
  PROVE  PeopleFit(s, y)
BY DEF SamePeople, SameAccounts, PeopleFit

LEMMA SameFounders ==
  ASSUME NEW x \in Seq(Person), NEW y, SamePeople(x, y), NEW i \in DOMAIN x
  PROVE  Founder(x, i) <=> Founder(y, i)
BY DEF SamePeople, Founder

LEMMA FoundersStay ==
  ASSUME NEW x \in Seq(Person), NEW y, SamePeople(x, y), FoundersLead(x),
         \A i \in DOMAIN x : y[i].role = x[i].role
  PROVE  FoundersLead(y)
BY SameFounders DEF SamePeople, FoundersLead

LEMMA UsersStay ==
  ASSUME NEW x, NEW y, SamePeople(x, y), SameAccounts(x, y), NEW u, HumansHaveUsers(x, u)
  PROVE  HumansHaveUsers(y, u)
BY DEF SamePeople, SameAccounts, HumansHaveUsers

LEMMA AddressesStay ==
  ASSUME NEW x, NEW y, SamePeople(x, y), Addressed(x),
         \A i \in DOMAIN x : y[i].secret \in {x[i].secret, None}
  PROVE  Addressed(y)
BY DEF SamePeople, Addressed, None

Rerole(x, role) == [x EXCEPT !.role = role]

LEMMA RoleTyped ==
  ASSUME NEW x \in Person, NEW role \in {"OWNER", "ADMIN", "MEMBER"}, NEW y, y = Rerole(x, role)
  PROVE  /\ y \in Person /\ y.workspace = x.workspace /\ y.type = x.type /\ y.email = x.email
         /\ y.secret = x.secret /\ y.user = x.user /\ y.role = role
BY DEF Person, Rerole

LEMMA Rerolled ==
  ASSUME NEW x \in Seq(Person), NEW y, y = [i \in DOMAIN x |-> y[i]],
         \A i \in DOMAIN x : \E role \in {"OWNER", "ADMIN", "MEMBER"} : y[i] = Rerole(x[i], role)
  PROVE  /\ y \in Seq(Person) /\ SamePeople(x, y) /\ SameAccounts(x, y)
         /\ \A i \in DOMAIN x : y[i].secret = x[i].secret
<1>1. ASSUME NEW i \in DOMAIN x
      PROVE  /\ y[i] \in Person /\ y[i].workspace = x[i].workspace
             /\ y[i].type = x[i].type /\ y[i].email = x[i].email
             /\ y[i].secret = x[i].secret /\ y[i].user = x[i].user
  <2>1. PICK role \in {"OWNER", "ADMIN", "MEMBER"} : y[i] = Rerole(x[i], role)
    OBVIOUS
  <2>2. x[i] \in Person
    OBVIOUS
  <2> QED
    BY <2>1, <2>2, RoleTyped
<1>2. y \in Seq(Person)
  BY <1>1, Mapped
<1>3. DOMAIN y = DOMAIN x
  OBVIOUS
<1> QED
  BY <1>1, <1>2, <1>3 DEF SamePeople, SameAccounts

LEMMA RolesByPriorityRows ==
  ASSUME NEW r \in Rows, NEW q, q = RolesByPriority(r)
  PROVE  /\ q \in Rows /\ Kept(r, q, {"people"}) /\ SamePeople(r.people, q.people)
         /\ SameAccounts(r.people, q.people)
         /\ \A i \in DOMAIN r.people : q.people[i].secret = r.people[i].secret
<1>1. PICK y : y = Each(r.people,
                        LAMBDA x : [x EXCEPT !.role = IF x.top THEN "OWNER" ELSE "MEMBER"])
  OBVIOUS
<1>2. y = [i \in DOMAIN r.people |-> y[i]]
  BY <1>1 DEF Each
<1>3. ASSUME NEW i \in DOMAIN r.people
      PROVE  \E role \in {"OWNER", "ADMIN", "MEMBER"} : y[i] = Rerole(r.people[i], role)
  <2>1. PICK role : role = IF r.people[i].top THEN "OWNER" ELSE "MEMBER"
    OBVIOUS
  <2>2. y[i] = Rerole(r.people[i], role)
    BY <1>1, <2>1 DEF Each, Rerole
  <2> QED
    BY <2>1, <2>2
<1>a. r.people \in Seq(Person)
  BY TablesOf
<1>4. /\ y \in Seq(Person) /\ SamePeople(r.people, y)
      /\ SameAccounts(r.people, y)
      /\ \A i \in DOMAIN r.people : y[i].secret = r.people[i].secret
  BY <1>a, <1>2, <1>3, Rerolled
<1>5. q = [r EXCEPT !.people = y]
  BY <1>1 DEF RolesByPriority
<1> QED
  BY <1>4, <1>5, PeoplePut

LEMMA WorkspaceOwnersRows ==
  ASSUME NEW r \in Rows, NEW q, q = WorkspaceOwners(r)
  PROVE  /\ q \in Rows /\ Kept(r, q, {"people"}) /\ SamePeople(r.people, q.people)
         /\ SameAccounts(r.people, q.people)
         /\ \A i \in DOMAIN r.people : q.people[i].secret = r.people[i].secret
         /\ FoundersLead(q.people)
<1>1. PICK y : y =
        [i \in DOMAIN r.people |->
           IF Founder(r.people, i) /\ r.people[i].role = "MEMBER"
             THEN [r.people[i] EXCEPT !.role = "OWNER"] ELSE r.people[i]]
  OBVIOUS
<1>2. y = [i \in DOMAIN r.people |-> y[i]]
  BY <1>1
<1>3. ASSUME NEW i \in DOMAIN r.people
      PROVE  \E role \in {"OWNER", "ADMIN", "MEMBER"} :
               y[i] = Rerole(r.people[i], role) /\ (Founder(r.people, i) => role # "MEMBER")
  <2>0. r.people[i] \in Person
    BY TablesOf
  <2>1. PICK role : role = IF Founder(r.people, i) /\ r.people[i].role = "MEMBER"
                             THEN "OWNER" ELSE r.people[i].role
    OBVIOUS
  <2>2. y[i] = Rerole(r.people[i], role)
    BY <1>1, <2>0, <2>1 DEF Person, Rerole
  <2>3. role \in {"OWNER", "ADMIN", "MEMBER"} /\ (Founder(r.people, i) => role # "MEMBER")
    BY <2>0, <2>1 DEF Person
  <2> QED
    BY <2>2, <2>3
<1>4. \A i \in DOMAIN r.people :
        \E role \in {"OWNER", "ADMIN", "MEMBER"} : y[i] = Rerole(r.people[i], role)
  BY <1>3
<1>a. r.people \in Seq(Person)
  BY TablesOf
<1>5. /\ y \in Seq(Person) /\ SamePeople(r.people, y)
      /\ SameAccounts(r.people, y)
      /\ \A i \in DOMAIN r.people : y[i].secret = r.people[i].secret
  BY <1>a, <1>2, <1>4, Rerolled
<1>6. FoundersLead(y)
  <2>1. SUFFICES ASSUME NEW i \in DOMAIN y, Founder(y, i) PROVE y[i].role # "MEMBER"
    BY DEF FoundersLead
  <2>2. i \in DOMAIN r.people /\ Founder(r.people, i) /\ r.people[i] \in Person
    BY <1>a, <1>5, <2>1, SameFounders DEF SamePeople
  <2>3. PICK role \in {"OWNER", "ADMIN", "MEMBER"} :
               y[i] = Rerole(r.people[i], role) /\ role # "MEMBER"
    BY <1>3, <2>2
  <2> QED
    BY <2>2, <2>3, RoleTyped
<1>7. q = [r EXCEPT !.people = y]
  BY <1>1 DEF WorkspaceOwners
<1> QED
  BY <1>5, <1>6, <1>7, PeoplePut

LEMMA KeysInsteadOfSecretsRows ==
  ASSUME NEW r \in Rows, NEW q, q = KeysInsteadOfSecrets(r)
  PROVE  /\ q \in Rows /\ Kept(r, q, {"people"}) /\ SamePeople(r.people, q.people)
         /\ SameAccounts(r.people, q.people)
         /\ \A i \in DOMAIN r.people :
              /\ q.people[i].secret \in {r.people[i].secret, None}
              /\ q.people[i].role = r.people[i].role
<1>1. PICK y : y = Each(r.people,
                LAMBDA p : IF p.secret = "agent" THEN [p EXCEPT !.secret = None] ELSE p)
  OBVIOUS
<1>2. y = [i \in DOMAIN r.people |-> y[i]]
  BY <1>1 DEF Each
<1>3. ASSUME NEW i \in DOMAIN r.people
      PROVE  /\ y[i] \in Person /\ y[i].workspace = r.people[i].workspace
             /\ y[i].type = r.people[i].type /\ y[i].email = r.people[i].email
             /\ y[i].secret \in {r.people[i].secret, None} /\ y[i].user = r.people[i].user
             /\ y[i].role = r.people[i].role
  <2>1. r.people[i] \in Person
    BY TablesOf
  <2>2. y[i] = r.people[i] \/ y[i] = [r.people[i] EXCEPT !.secret = None]
    BY <1>1 DEF Each
  <2>3. CASE y[i] = r.people[i]
    BY <2>1, <2>3
  <2>4. CASE y[i] = [r.people[i] EXCEPT !.secret = None]
    BY <2>1, <2>4 DEF Person
  <2> QED
    BY <2>2, <2>3, <2>4
<1>a. r.people \in Seq(Person) /\ \A i \in DOMAIN r.people : y[i] \in Person
  BY <1>3, TablesOf
<1>4. y \in Seq(Person)
  BY <1>a, <1>2, Mapped
<1>5. q = [r EXCEPT !.people = y]
  BY <1>1 DEF KeysInsteadOfSecrets
<1>6. SamePeople(r.people, y) /\ SameAccounts(r.people, y)
  BY <1>2, <1>3 DEF SamePeople, SameAccounts
<1> QED
  BY <1>3, <1>4, <1>5, <1>6, PeoplePut

WithUser(p, user) == [p EXCEPT !.user = user]

LEMMA UserTyped ==
  ASSUME NEW x \in Person, NEW user \in Emails \cup {None}, NEW y, y = WithUser(x, user)
  PROVE  /\ y \in Person /\ y.workspace = x.workspace /\ y.type = x.type /\ y.email = x.email
         /\ y.secret = x.secret /\ y.role = x.role /\ y.user = user
BY DEF Person, WithUser

LEMMA Rehoused ==
  ASSUME NEW x \in Seq(Person), NEW y, y = [i \in DOMAIN x |-> y[i]],
         \A i \in DOMAIN x : \E user \in Emails \cup {None} : y[i] = WithUser(x[i], user)
  PROVE  /\ y \in Seq(Person) /\ SamePeople(x, y)
         /\ \A i \in DOMAIN x : y[i].secret = x[i].secret /\ y[i].role = x[i].role
<1>1. ASSUME NEW i \in DOMAIN x
      PROVE  /\ y[i] \in Person /\ y[i].workspace = x[i].workspace
             /\ y[i].type = x[i].type /\ y[i].email = x[i].email
             /\ y[i].secret = x[i].secret /\ y[i].role = x[i].role
  <2>1. PICK user \in Emails \cup {None} : y[i] = WithUser(x[i], user)
    OBVIOUS
  <2>2. x[i] \in Person
    OBVIOUS
  <2> QED
    BY <2>1, <2>2, UserTyped
<1>2. y \in Seq(Person)
  BY <1>1, Mapped
<1>3. DOMAIN y = DOMAIN x
  OBVIOUS
<1> QED
  BY <1>1, <1>2, <1>3 DEF SamePeople

\* The account that the earliest human of an email gives it.
Account(p) == [email |-> p.email, secret |-> p.secret]

LEMMA UsersOfMembersRows ==
  ASSUME NEW r \in Rows, Addressed(r.people), NEW q, q = UsersOfMembers(r)
  PROVE  /\ q \in Rows /\ Kept(r, q, {"people", "users"}) /\ SamePeople(r.people, q.people)
         /\ \A i \in DOMAIN r.people :
              /\ q.people[i].secret = r.people[i].secret
              /\ q.people[i].role = r.people[i].role
              /\ q.people[i].user = IF r.people[i].type = "HUMAN" THEN r.people[i].email
                                                                  ELSE None
         /\ q.users = {Account(r.people[i]) :
                         i \in {k \in DOMAIN r.people : FirstOfEmail(r.people, k)}}
<1>0. r.people \in Seq(Person) /\ \A i \in DOMAIN r.people : r.people[i] \in Person
  BY TablesOf
<1>1. PICK y : y = Each(r.people,
                 LAMBDA p : [p EXCEPT !.user = IF p.type = "HUMAN" THEN p.email ELSE None])
  OBVIOUS
<1>2. y = [i \in DOMAIN r.people |-> y[i]]
  BY <1>1 DEF Each
<1>3. ASSUME NEW i \in DOMAIN r.people
      PROVE  \E user \in Emails \cup {None} :
               /\ y[i] = WithUser(r.people[i], user)
               /\ user = IF r.people[i].type = "HUMAN" THEN r.people[i].email ELSE None
  <2>1. PICK user : user = IF r.people[i].type = "HUMAN" THEN r.people[i].email ELSE None
    OBVIOUS
  <2>2. y[i] = WithUser(r.people[i], user)
    BY <1>1, <2>1 DEF Each, WithUser
  <2>3. user \in Emails \cup {None}
    BY <1>0, <2>1 DEF Person
  <2> QED
    BY <2>1, <2>2, <2>3
<1>4. \A i \in DOMAIN r.people :
        \E user \in Emails \cup {None} : y[i] = WithUser(r.people[i], user)
  BY <1>3
<1>5. /\ y \in Seq(Person) /\ SamePeople(r.people, y)
      /\ \A i \in DOMAIN r.people :
           y[i].secret = r.people[i].secret /\ y[i].role = r.people[i].role
  BY <1>0, <1>2, <1>4, Rehoused
<1>6. ASSUME NEW i \in DOMAIN r.people
      PROVE  y[i].user = IF r.people[i].type = "HUMAN" THEN r.people[i].email ELSE None
  <2>1. PICK user \in Emails \cup {None} :
          /\ y[i] = WithUser(r.people[i], user)
          /\ user = IF r.people[i].type = "HUMAN" THEN r.people[i].email ELSE None
    BY <1>3
  <2> QED
    BY <1>0, <2>1, UserTyped
<1>7. PICK u : u = {Account(r.people[i]) :
                      i \in {k \in DOMAIN r.people : FirstOfEmail(r.people, k)}}
  OBVIOUS
<1>8. u \subseteq User
  <2>1. SUFFICES ASSUME NEW i \in DOMAIN r.people, FirstOfEmail(r.people, i)
                 PROVE  Account(r.people[i]) \in User
    BY <1>7
  <2>2. /\ r.people[i] \in Person /\ r.people[i].email # None
        /\ r.people[i].secret # "agent"
    BY <1>0, <2>1 DEF FirstOfEmail, Addressed
  <2> QED
    BY <2>2 DEF Person, User, Account
<1>9. q = [r EXCEPT !.people = y, !.users = u]
  BY <1>1, <1>7 DEF UsersOfMembers, Account
<1>10. q \in Rows /\ q.people = y /\ q.users = u /\ Kept(r, q, {"people", "users"})
  BY <1>5, <1>8, <1>9, UsersPut
<1> QED
  BY <1>5, <1>6, <1>7, <1>10

\* Every human has a user; the key and the check that 0017 adds find nothing.
LEMMA UsersOfMembersFit ==
  ASSUME NEW r \in Rows, Addressed(r.people), NEW q, q = UsersOfMembers(r), NEW s
  PROVE  /\ PeopleFit(s, q.people)
         /\ (\A i \in DOMAIN r.people :
               r.people[i].type = "HUMAN" => r.people[i].secret # None) => UsersFit(s, q.users)
         /\ (\A u \in q.users : u.secret # None) => HumansHaveUsers(q.people, q.users)
<1>0. /\ r.people \in Seq(Person) /\ \A i \in DOMAIN r.people : r.people[i] \in Person
      /\ SamePeople(r.people, q.people)
      /\ \A i \in DOMAIN r.people :
           q.people[i].user = IF r.people[i].type = "HUMAN" THEN r.people[i].email ELSE None
      /\ q.users = {Account(r.people[i]) :
                      i \in {k \in DOMAIN r.people : FirstOfEmail(r.people, k)}}
  BY TablesOf, UsersOfMembersRows
<1>1. PeopleFit(s, q.people)
  BY <1>0 DEF PeopleFit, SamePeople, Addressed
<1>2. ASSUME \A i \in DOMAIN r.people :
               r.people[i].type = "HUMAN" => r.people[i].secret # None
      PROVE  UsersFit(s, q.users)
  BY <1>0, <1>2 DEF UsersFit, FirstOfEmail, Account
<1>3. ASSUME \A u \in q.users : u.secret # None,
             NEW i \in DOMAIN q.people, q.people[i].type = "HUMAN"
      PROVE  \E u \in q.users : u.email = q.people[i].user /\ u.secret # None
  <2>1. PICK T : T = {k \in DOMAIN r.people : /\ r.people[k].type = "HUMAN"
                                              /\ r.people[k].email = r.people[i].email}
    OBVIOUS
  <2>2. /\ i \in DOMAIN r.people /\ r.people[i].type = "HUMAN"
        /\ q.people[i].user = r.people[i].email
    BY <1>0, <1>3 DEF SamePeople
  <2>3. i \in T /\ T \subseteq Nat
    BY <1>0, <2>1, <2>2
  <2>4. PICK n \in T : \A m \in T : n <= m
    BY <2>3, LeastNumber
  <2>5. FirstOfEmail(r.people, n)
    <3>1. n \in DOMAIN r.people /\ r.people[n].type = "HUMAN"
          /\ r.people[n].email = r.people[i].email /\ DOMAIN r.people = 1..Len(r.people)
          /\ Len(r.people) \in Nat
      BY <1>0, <2>1
    <3>2. ASSUME NEW j \in 1..(n - 1), r.people[j].type = "HUMAN",
                 r.people[j].email = r.people[n].email
          PROVE  FALSE
      <4>1. j \in T /\ j < n
        BY <2>1, <3>1, <3>2
      <4> QED
        BY <2>3, <2>4, <4>1
    <3> QED
      BY <3>1, <3>2 DEF FirstOfEmail
  <2>6. Account(r.people[n]) \in q.users
    BY <1>0, <2>1, <2>5
  <2>7. Account(r.people[n]).email = q.people[i].user
    BY <2>1, <2>2 DEF Account
  <2> QED
    BY <1>3, <2>6, <2>7
<1> QED
  BY <1>1, <1>2, <1>3 DEF HumansHaveUsers

LEMMA WithoutUsersRows ==
  ASSUME NEW r \in Rows, NEW q, q = WithoutUsers(r)
  PROVE  /\ q \in Rows /\ Kept(r, q, {"people", "users"}) /\ SamePeople(r.people, q.people)
         /\ \A i \in DOMAIN r.people :
              /\ q.people[i].secret = r.people[i].secret
              /\ q.people[i].role = r.people[i].role
              /\ q.people[i].user = None
         /\ q.users = {}
<1>0. r.people \in Seq(Person)
  BY TablesOf
<1>1. PICK y : y = Each(r.people, LAMBDA p : [p EXCEPT !.user = None])
  OBVIOUS
<1>2. y = [i \in DOMAIN r.people |-> y[i]]
  BY <1>1 DEF Each
<1>3. ASSUME NEW i \in DOMAIN r.people
      PROVE  \E user \in Emails \cup {None} : y[i] = WithUser(r.people[i], user)
  <2>1. y[i] = WithUser(r.people[i], None)
    BY <1>1 DEF Each, WithUser
  <2> QED
    BY <2>1
<1>4. /\ y \in Seq(Person) /\ SamePeople(r.people, y)
      /\ \A i \in DOMAIN r.people :
           y[i].secret = r.people[i].secret /\ y[i].role = r.people[i].role
  BY <1>0, <1>2, <1>3, Rehoused
<1>a. \A i \in DOMAIN r.people : y[i].user = None
  <2>1. SUFFICES ASSUME NEW i \in DOMAIN r.people PROVE y[i].user = None
    OBVIOUS
  <2>2. r.people[i] \in Person /\ y[i] = WithUser(r.people[i], None)
    BY <1>0, <1>1 DEF Each, WithUser
  <2> QED
    BY <2>2, UserTyped
<1>5. q = [r EXCEPT !.people = y, !.users = {}]
  BY <1>1 DEF WithoutUsers
<1>6. q \in Rows /\ q.people = y /\ q.users = {} /\ Kept(r, q, {"people", "users"})
  BY <1>4, <1>5, UsersPut
<1> QED
  BY <1>4, <1>a, <1>6

(***************************************************************************)
(* Tasks.                                                                  *)
(***************************************************************************)
\* The same tasks, perhaps with another completed_at.
SameTasks(x, y) ==
  /\ DOMAIN y = DOMAIN x
  /\ \A i \in DOMAIN x :
       /\ y[i].workspace = x[i].workspace /\ y[i].seq = x[i].seq /\ y[i].status = x[i].status

LEMMA SameTasksFit ==
  ASSUME NEW s, NEW x, NEW y, SameTasks(x, y), TasksFit(s, x)
  PROVE  TasksFit(s, y)
BY DEF SameTasks, TasksFit, StatusesFit

LEMMA CounterStays ==
  ASSUME NEW x, NEW y, SameTasks(x, y), NEW next, CounterAhead(x, next)
  PROVE  CounterAhead(y, next)
BY DEF SameTasks, CounterAhead

Complete(t, done) == [t EXCEPT !.completed = done]

LEMMA CompletedTyped ==
  ASSUME NEW x \in Task, NEW done \in BOOLEAN, NEW y, y = Complete(x, done)
  PROVE  y \in Task /\ y.workspace = x.workspace /\ y.seq = x.seq /\ y.status = x.status
BY DEF Task, Complete

LEMMA Recompleted ==
  ASSUME NEW x \in Seq(Task), NEW y, y = [i \in DOMAIN x |-> y[i]],
         \A i \in DOMAIN x : \E done \in BOOLEAN : y[i] = Complete(x[i], done)
  PROVE  y \in Seq(Task) /\ SameTasks(x, y)
<1>1. ASSUME NEW i \in DOMAIN x
      PROVE  /\ y[i] \in Task /\ y[i].workspace = x[i].workspace
             /\ y[i].seq = x[i].seq /\ y[i].status = x[i].status
  <2>1. PICK done \in BOOLEAN : y[i] = Complete(x[i], done)
    OBVIOUS
  <2>2. x[i] \in Task
    OBVIOUS
  <2> QED
    BY <2>1, <2>2, CompletedTyped
<1>2. y \in Seq(Task)
  BY <1>1, Mapped
<1>3. DOMAIN y = DOMAIN x
  OBVIOUS
<1> QED
  BY <1>1, <1>2, <1>3 DEF SameTasks

LEMMA CompletionRows ==
  ASSUME NEW r \in Rows, NEW q, q = CompletedByStatus(r) \/ q = WithoutCompletion(r)
  PROVE  q \in Rows /\ Kept(r, q, {"tasks"}) /\ SameTasks(r.tasks, q.tasks)
<1>0. r.tasks \in Seq(Task)
  BY TablesOf
<1>1. PICK y : /\ y = [i \in DOMAIN r.tasks |-> y[i]]
               /\ \A i \in DOMAIN r.tasks : \E done \in BOOLEAN : y[i] = Complete(r.tasks[i], done)
               /\ q = [r EXCEPT !.tasks = y]
  <2>1. CASE q = CompletedByStatus(r)
    <3>1. PICK y : y = Each(r.tasks, LAMBDA t : [t EXCEPT !.completed = t.status = "DONE"])
      OBVIOUS
    <3>2. y = [i \in DOMAIN r.tasks |-> y[i]]
      BY <3>1 DEF Each
    <3>3. ASSUME NEW i \in DOMAIN r.tasks
          PROVE  \E done \in BOOLEAN : y[i] = Complete(r.tasks[i], done)
      <4>1. y[i] = Complete(r.tasks[i], r.tasks[i].status = "DONE")
        BY <3>1 DEF Each, Complete
      <4> QED
        BY <4>1
    <3>4. q = [r EXCEPT !.tasks = y]
      BY <2>1, <3>1 DEF CompletedByStatus
    <3> QED
      BY <3>2, <3>3, <3>4
  <2>2. CASE q = WithoutCompletion(r)
    <3>1. PICK y : y = Each(r.tasks, LAMBDA t : [t EXCEPT !.completed = FALSE])
      OBVIOUS
    <3>2. y = [i \in DOMAIN r.tasks |-> y[i]]
      BY <3>1 DEF Each
    <3>3. ASSUME NEW i \in DOMAIN r.tasks
          PROVE  \E done \in BOOLEAN : y[i] = Complete(r.tasks[i], done)
      <4>1. y[i] = Complete(r.tasks[i], FALSE)
        BY <3>1 DEF Each, Complete
      <4> QED
        BY <4>1
    <3>4. q = [r EXCEPT !.tasks = y]
      BY <2>2, <3>1 DEF WithoutCompletion
    <3> QED
      BY <3>2, <3>3, <3>4
  <2> QED
    BY <2>1, <2>2
<1>2. y \in Seq(Task) /\ SameTasks(r.tasks, y)
  BY <1>0, <1>1, Recompleted
<1> QED
  BY <1>1, <1>2, TasksPut

\* The number that 0007 gives to a task: how many the workspace had by then.
Before(tasks, i) == {j \in TasksOf(tasks, tasks[i].workspace) : j <= i}

\* Tasks of a workspace are numbered upwards, up to their number.
LEMMA Counts ==
  ASSUME NEW tasks \in Seq(Task), NEW i \in DOMAIN tasks, NEW w, w = tasks[i].workspace
  PROVE  /\ Cardinality(Before(tasks, i)) \in 1..Cardinality(TasksOf(tasks, w))
         /\ \A j \in DOMAIN tasks : j < i /\ tasks[j].workspace = w =>
              Cardinality(Before(tasks, j)) < Cardinality(Before(tasks, i))
<1>1. DOMAIN tasks = 1..Len(tasks) /\ Len(tasks) \in Nat
  OBVIOUS
<1>2. IsFiniteSet(TasksOf(tasks, w)) /\ TasksOf(tasks, w) \subseteq 1..Len(tasks)
  <2>1. TasksOf(tasks, w) \subseteq 1..Len(tasks)
    BY <1>1 DEF TasksOf
  <2>2. IsFiniteSet(1..Len(tasks))
    BY <1>1, FS_Interval
  <2> QED
    BY <2>1, <2>2, FS_Subset
<1>3. /\ Before(tasks, i) \subseteq TasksOf(tasks, w) /\ i \in Before(tasks, i)
  BY <1>1 DEF Before, TasksOf
<1>4. /\ IsFiniteSet(Before(tasks, i))
      /\ Cardinality(Before(tasks, i)) <= Cardinality(TasksOf(tasks, w))
  BY <1>2, <1>3, FS_Subset
<1>5. Cardinality(Before(tasks, i)) \in Nat \ {0} /\ Cardinality(TasksOf(tasks, w)) \in Nat
  BY <1>2, <1>3, <1>4, FS_EmptySet, FS_CardinalityType
<1>6. ASSUME NEW j \in DOMAIN tasks, j < i, tasks[j].workspace = w
      PROVE  Cardinality(Before(tasks, j)) < Cardinality(Before(tasks, i))
  <2>1. Before(tasks, j) \subseteq Before(tasks, i) /\ i \notin Before(tasks, j)
    BY <1>1, <1>6 DEF Before, TasksOf
  <2>2. /\ IsFiniteSet(Before(tasks, j))
        /\ Cardinality(Before(tasks, j)) <= Cardinality(Before(tasks, i))
        /\ Cardinality(Before(tasks, i)) = Cardinality(Before(tasks, j)) =>
             Before(tasks, i) = Before(tasks, j)
    BY <1>4, <2>1, FS_Subset
  <2>3. Cardinality(Before(tasks, j)) \in Nat
    BY <2>2, FS_CardinalityType
  <2> QED
    BY <1>3, <1>5, <2>1, <2>2, <2>3
<1> QED
  BY <1>4, <1>5, <1>6

LEMMA TaskCount ==
  ASSUME NEW tasks \in Seq(Task), NEW w
  PROVE  Cardinality(TasksOf(tasks, w)) \in Nat
<1>1. TasksOf(tasks, w) \subseteq 1..Len(tasks) /\ Len(tasks) \in Nat
  BY DEF TasksOf
<1>2. IsFiniteSet(1..Len(tasks))
  BY <1>1, FS_Interval
<1>3. IsFiniteSet(TasksOf(tasks, w))
  BY <1>1, <1>2, FS_Subset
<1> QED
  BY <1>3, FS_CardinalityType

Numbering(t, n) == Unblocked([t EXCEPT !.seq = n])

LEMMA NumberedTyped ==
  ASSUME NEW x \in Task, NEW n \in Nat, NEW y, y = Numbering(x, n)
  PROVE  /\ y \in Task /\ y.workspace = x.workspace /\ y.seq = n
         /\ y.status = IF x.status = "BLOCKED" THEN "IN_PROGRESS" ELSE x.status
<1>1. PICK z : z = [x EXCEPT !.seq = n]
  OBVIOUS
<1>2. z \in Task /\ z.workspace = x.workspace /\ z.seq = n /\ z.status = x.status
  BY <1>1 DEF Task
<1>3. y = IF z.status = "BLOCKED" THEN [z EXCEPT !.status = "IN_PROGRESS", !.blocked = TRUE]
                                  ELSE z
  BY <1>1 DEF Numbering, Unblocked
<1> QED
  BY <1>2, <1>3 DEF Task

LEMMA PrefixAndNumbersRows ==
  ASSUME NEW r \in Rows, NEW q, q = PrefixAndNumbers(r)
  PROVE  /\ q \in Rows /\ Kept(r, q, {"tasks", "next"}) /\ DOMAIN q.tasks = DOMAIN r.tasks
         /\ CounterAhead(q.tasks, q.next)
         /\ \A i, j \in DOMAIN q.tasks : i # j =>
              <<q.tasks[i].workspace, q.tasks[i].seq>> # <<q.tasks[j].workspace, q.tasks[j].seq>>
         /\ \A i \in DOMAIN r.tasks :
              q.tasks[i].status = IF r.tasks[i].status = "BLOCKED" THEN "IN_PROGRESS"
                                                                   ELSE r.tasks[i].status
<1>0. r.tasks \in Seq(Task) /\ r.next \in [Workspaces -> Nat]
  BY TablesOf
<1>1. PICK x : x = [i \in DOMAIN r.tasks |->
                      [r.tasks[i] EXCEPT !.seq = Cardinality(Before(r.tasks, i))]]
  OBVIOUS
<1>2. PICK n : n = [w \in DOMAIN r.next |-> Cardinality(TasksOf(r.tasks, w)) + 1]
  OBVIOUS
<1>3. PICK y : y = [i \in DOMAIN r.tasks |->
                      Numbering(r.tasks[i], Cardinality(Before(r.tasks, i)))]
  OBVIOUS
<1>4. q = [r EXCEPT !.tasks = y, !.next = n]
  <2>1. PICK m : m = Numbered(r)
    OBVIOUS
  <2>2. m = [r EXCEPT !.tasks = x, !.next = n]
    BY <1>1, <1>2, <2>1 DEF Numbered, Before
  <2>3. Each(x, Unblocked) = y
    BY <1>1, <1>3 DEF Each, Numbering
  <2>4. m.tasks = x /\ [m EXCEPT !.tasks = y] = [r EXCEPT !.tasks = y, !.next = n]
    BY <2>2 DEF Rows
  <2>5. q = [m EXCEPT !.tasks = Each(m.tasks, Unblocked)]
    BY <2>1 DEF PrefixAndNumbers
  <2> QED
    BY <2>3, <2>4, <2>5
<1>5. ASSUME NEW i \in DOMAIN r.tasks
      PROVE  /\ y[i] \in Task /\ y[i].workspace = r.tasks[i].workspace
             /\ y[i].workspace \in Workspaces
             /\ y[i].seq = Cardinality(Before(r.tasks, i))
             /\ y[i].status = IF r.tasks[i].status = "BLOCKED" THEN "IN_PROGRESS"
                                                               ELSE r.tasks[i].status
  <2>1. r.tasks[i] \in Task /\ Cardinality(Before(r.tasks, i)) \in Nat
    <3>1. PICK w : w = r.tasks[i].workspace
      OBVIOUS
    <3>2. Cardinality(TasksOf(r.tasks, w)) \in Nat
      BY <1>0, TaskCount
    <3>3. Cardinality(Before(r.tasks, i)) \in 1..Cardinality(TasksOf(r.tasks, w))
      BY <1>0, <3>1, Counts
    <3> QED
      BY <1>0, <3>2, <3>3
  <2>2. y[i] = Numbering(r.tasks[i], Cardinality(Before(r.tasks, i)))
    BY <1>3
  <2>3. r.tasks[i].workspace \in Workspaces
    BY <2>1 DEF Task
  <2> QED
    BY <2>1, <2>2, <2>3, NumberedTyped
<1>6. y \in Seq(Task) /\ DOMAIN y = DOMAIN r.tasks
  <2>1. y = [i \in DOMAIN r.tasks |-> y[i]]
    BY <1>3
  <2> QED
    BY <1>0, <1>5, <2>1, Mapped
<1>7. n \in [Workspaces -> Nat]
  <2>1. \A w \in Workspaces : Cardinality(TasksOf(r.tasks, w)) \in Nat
    BY <1>0, TaskCount
  <2> QED
    BY <1>0, <1>2, <2>1
<1>8. q \in Rows /\ q.tasks = y /\ q.next = n /\ Kept(r, q, {"tasks", "next"})
  BY <1>4, <1>6, <1>7, NumbersPut
<1>9. CounterAhead(y, n)
  <2>1. SUFFICES ASSUME NEW i \in DOMAIN r.tasks
                 PROVE  y[i].seq \in 1..(n[y[i].workspace] - 1)
    BY <1>6 DEF CounterAhead
  <2>2. PICK w : w = r.tasks[i].workspace
    OBVIOUS
  <2>3. Cardinality(Before(r.tasks, i)) \in 1..Cardinality(TasksOf(r.tasks, w))
    BY <1>0, <2>2, Counts
  <2>4. n[w] = Cardinality(TasksOf(r.tasks, w)) + 1 /\ n[w] \in Nat
    BY <1>0, <1>2, <1>5, <1>7, <2>2
  <2>5. Cardinality(TasksOf(r.tasks, w)) = n[w] - 1
    BY <1>0, <2>4, TaskCount
  <2> QED
    BY <1>5, <2>2, <2>3, <2>5
<1>10. ASSUME NEW i \in DOMAIN y, NEW j \in DOMAIN y, i # j,
              y[i].workspace = y[j].workspace
       PROVE  y[i].seq # y[j].seq
  <2>1. PICK w : w = r.tasks[i].workspace
    OBVIOUS
  <2>2. /\ r.tasks[j].workspace = w /\ i \in DOMAIN r.tasks /\ j \in DOMAIN r.tasks
        /\ y[i].seq = Cardinality(Before(r.tasks, i)) /\ y[i].seq \in Nat
        /\ y[j].seq = Cardinality(Before(r.tasks, j)) /\ y[j].seq \in Nat
    BY <1>5, <1>6, <1>10, <2>1 DEF Task
  <2>3. i < j \/ j < i
    BY <1>0, <1>10, <2>2
  <2>4. /\ i < j => Cardinality(Before(r.tasks, i)) < Cardinality(Before(r.tasks, j))
        /\ j < i => Cardinality(Before(r.tasks, j)) < Cardinality(Before(r.tasks, i))
    BY <1>0, <2>1, <2>2, Counts
  <2> QED
    BY <2>2, <2>3, <2>4
<1> QED
  BY <1>5, <1>6, <1>8, <1>9, <1>10

Unnumber(t, status) == [t EXCEPT !.status = status, !.blocked = FALSE, !.seq = 0]

LEMMA UnnumberedTyped ==
  ASSUME NEW x \in Task,
         NEW status \in {"PENDING", "IN_PROGRESS", "BLOCKED", "IN_REVIEW", "DONE", "CANCELLED"},
         NEW y, y = Unnumber(x, status)
  PROVE  y \in Task /\ y.status = status
BY DEF Task, Unnumber

LEMMA UnnumberedRows ==
  ASSUME NEW r \in Rows, NEW q, q = Unnumbered(r)
  PROVE  /\ q \in Rows /\ Kept(r, q, {"tasks", "next"}) /\ DOMAIN q.tasks = DOMAIN r.tasks
         /\ \A i \in DOMAIN r.tasks : q.tasks[i].status \in {r.tasks[i].status, "BLOCKED"}
<1>0. r.tasks \in Seq(Task) /\ r.next \in [Workspaces -> Nat]
  BY TablesOf
<1>1. PICK y : y = Each(r.tasks, LAMBDA t :
                     [t EXCEPT !.status = IF t.blocked THEN "BLOCKED" ELSE t.status,
                               !.blocked = FALSE, !.seq = 0])
  OBVIOUS
<1>2. PICK n : n = [w \in DOMAIN r.next |-> 0]
  OBVIOUS
<1>3. y = [i \in DOMAIN r.tasks |-> y[i]] /\ n \in [Workspaces -> Nat]
  BY <1>0, <1>1, <1>2 DEF Each
<1>4. ASSUME NEW i \in DOMAIN r.tasks
      PROVE  y[i] \in Task /\ y[i].status \in {r.tasks[i].status, "BLOCKED"}
  <2>1. PICK st : st = IF r.tasks[i].blocked THEN "BLOCKED" ELSE r.tasks[i].status
    OBVIOUS
  <2>2. y[i] = Unnumber(r.tasks[i], st)
    BY <1>1, <2>1 DEF Each, Unnumber
  <2>3. r.tasks[i] \in Task
    BY <1>0
  <2>4. st \in {"PENDING", "IN_PROGRESS", "BLOCKED", "IN_REVIEW", "DONE", "CANCELLED"}
    BY <2>1, <2>3 DEF Task
  <2>5. y[i] \in Task /\ y[i].status = st
    BY <2>2, <2>3, <2>4, UnnumberedTyped
  <2> QED
    BY <2>1, <2>5
<1>5. y \in Seq(Task)
  BY <1>0, <1>3, <1>4, Mapped
<1>6. q = [r EXCEPT !.tasks = y, !.next = n]
  BY <1>1, <1>2 DEF Unnumbered
<1>7. q \in Rows /\ q.tasks = y /\ q.next = n /\ Kept(r, q, {"tasks", "next"})
  BY <1>3, <1>5, <1>6, NumbersPut
<1> QED
  BY <1>3, <1>4, <1>7

(***************************************************************************)
(* Workspace names.                                                        *)
(***************************************************************************)
\* How many workspaces bear the name of i by then: 0016's row number.
Rank(names, i) == Cardinality({j \in 1..i : names[j] = names[i]})

\* A later workspace of the same name has a higher rank.
LEMMA Ranks ==
  ASSUME NEW names \in Seq(Name), NEW i \in DOMAIN names
  PROVE  /\ Rank(names, i) \in Nat
         /\ \A j \in DOMAIN names :
              j < i /\ names[j] = names[i] => Rank(names, j) < Rank(names, i)
<1>1. DOMAIN names = 1..Len(names) /\ Len(names) \in Nat /\ i \in Nat
  OBVIOUS
<1>2. PICK S : S = {j \in 1..i : names[j] = names[i]}
  OBVIOUS
<1>3. IsFiniteSet(1..i) /\ S \subseteq 1..i
  BY <1>1, <1>2, FS_Interval
<1>4. IsFiniteSet(S)
  BY <1>3, FS_Subset
<1>5. Cardinality(S) \in Nat /\ Rank(names, i) = Cardinality(S)
  BY <1>2, <1>4, FS_CardinalityType DEF Rank
<1>6. ASSUME NEW j \in DOMAIN names, j < i, names[j] = names[i]
      PROVE  Rank(names, j) < Rank(names, i)
  <2>1. PICK P : P = {k \in 1..j : names[k] = names[j]}
    OBVIOUS
  <2>2. P \subseteq S /\ i \in S /\ i \notin P
    BY <1>1, <1>2, <1>6, <2>1
  <2>3. /\ IsFiniteSet(P) /\ Cardinality(P) <= Cardinality(S)
        /\ Cardinality(S) = Cardinality(P) => S = P
    BY <1>4, <2>2, FS_Subset
  <2>4. Cardinality(P) \in Nat /\ Rank(names, j) = Cardinality(P)
    BY <2>1, <2>3, FS_CardinalityType DEF Rank
  <2> QED
    BY <1>5, <2>2, <2>3, <2>4
<1> QED
  BY <1>5, <1>6

Ranked(name, rank) == IF rank = 1 THEN name ELSE <<name[1], Append(name[2], rank)>>

LEMMA RankedTyped ==
  ASSUME NEW x \in Name, NEW rank \in Nat
  PROVE  Ranked(x, rank) \in Name
<1>1. x[1] \in Words /\ x[2] \in Seq(Nat)
  BY DEF Name
<1>2. PICK suffixes : suffixes = Append(x[2], rank)
  OBVIOUS
<1>3. suffixes \in Seq(Nat)
  BY <1>1, <1>2
<1>4. <<x[1], suffixes>> \in Name
  BY <1>1, <1>3 DEF Name
<1> QED
  BY <1>2, <1>4 DEF Ranked

LEMMA RankedApart ==
  ASSUME NEW x \in Name, NEW y \in Name, x[2] = <<>>, y[2] = <<>>,
         NEW m \in Nat, NEW n \in Nat, x = y => m # n
  PROVE  Ranked(x, m) # Ranked(y, n)
<1>1. x = <<x[1], <<>>>> /\ y = <<y[1], <<>>>>
  BY DEF Name
<1>2. \A k \in Nat : Append(<<>>, k) = <<k>>
  OBVIOUS
<1>3. \A k \in Nat : Ranked(x, k) = IF k = 1 THEN x ELSE <<x[1], <<k>>>>
  BY <1>2 DEF Ranked
<1>4. \A k \in Nat : Ranked(y, k) = IF k = 1 THEN y ELSE <<y[1], <<k>>>>
  BY <1>2 DEF Ranked
<1>5. \A k, l \in Nat : <<k>> # <<>> /\ (<<k>> = <<l>> => k = l)
  OBVIOUS
<1>6. CASE m = 1 /\ n = 1
  BY <1>3, <1>4, <1>6
<1>7. CASE m = 1 /\ n # 1
  <2>1. Ranked(x, m)[2] = <<>> /\ Ranked(y, n)[2] = <<n>>
    BY <1>1, <1>3, <1>4, <1>7
  <2> QED
    BY <1>5, <2>1
<1>8. CASE m # 1 /\ n = 1
  <2>1. Ranked(x, m)[2] = <<m>> /\ Ranked(y, n)[2] = <<>>
    BY <1>1, <1>3, <1>4, <1>8
  <2> QED
    BY <1>5, <2>1
<1>9. CASE m # 1 /\ n # 1
  <2>1. /\ Ranked(x, m)[1] = x[1] /\ Ranked(x, m)[2] = <<m>>
        /\ Ranked(y, n)[1] = y[1] /\ Ranked(y, n)[2] = <<n>>
    BY <1>3, <1>4, <1>9
  <2> QED
    BY <1>1, <1>5, <2>1
<1> QED
  BY <1>6, <1>7, <1>8, <1>9

LEMMA DistinctNamesRows ==
  ASSUME NEW r \in Rows, NEW q, q = DistinctNames(r)
  PROVE  /\ q \in Rows /\ Kept(r, q, {"names"}) /\ DOMAIN q.names = DOMAIN r.names
         /\ (\A i \in DOMAIN r.names : r.names[i][2] = <<>>) =>
              \A i, j \in DOMAIN q.names : i # j => q.names[i] # q.names[j]
<1>0. r.names \in Seq(Name) /\ DOMAIN r.names \subseteq Nat
  BY TablesOf
<1>1. PICK y : y = [i \in DOMAIN r.names |-> Ranked(r.names[i], Rank(r.names, i))]
  OBVIOUS
<1>2. q = [r EXCEPT !.names = y]
  BY <1>1 DEF DistinctNames, Ranked, Rank
<1>3. \A i \in DOMAIN r.names : Rank(r.names, i) \in Nat /\ r.names[i] \in Name
  BY <1>0, Ranks
<1>4. \A i \in DOMAIN r.names : y[i] \in Name
  BY <1>1, <1>3, RankedTyped
<1>5. y \in Seq(Name) /\ DOMAIN y = DOMAIN r.names
  <2>1. y = [i \in DOMAIN r.names |-> y[i]]
    BY <1>1
  <2> QED
    BY <1>0, <1>4, <2>1, Mapped
<1>6. q \in Rows /\ q.names = y /\ Kept(r, q, {"names"})
  BY <1>2, <1>5, NamesPut
<1>7. ASSUME \A i \in DOMAIN r.names : r.names[i][2] = <<>>,
             NEW i \in DOMAIN r.names, NEW j \in DOMAIN r.names, i # j
      PROVE  y[i] # y[j]
  <2>1. i < j \/ j < i
    BY <1>0, <1>7
  <2>2. r.names[i] = r.names[j] => Rank(r.names, i) # Rank(r.names, j)
    <3>1. /\ i < j /\ r.names[i] = r.names[j] => Rank(r.names, i) < Rank(r.names, j)
          /\ j < i /\ r.names[j] = r.names[i] => Rank(r.names, j) < Rank(r.names, i)
      BY <1>0, Ranks
    <3> QED
      BY <1>3, <2>1, <3>1
  <2>3. Ranked(r.names[i], Rank(r.names, i)) # Ranked(r.names[j], Rank(r.names, j))
    BY <1>3, <1>7, <2>2, RankedApart
  <2> QED
    BY <1>1, <2>3
<1> QED
  BY <1>5, <1>6, <1>7

(***************************************************************************)
(* The org chart.                                                          *)
(***************************************************************************)
LEMMA Replaced ==
  ASSUME NEW x \in Seq(Place), NEW y, y = [i \in DOMAIN x |-> y[i]],
         \A i \in DOMAIN x : y[i] \in Place
  PROVE  y \in Seq(Place) /\ Len(y) = Len(x) /\ DOMAIN y = DOMAIN x
<1>1. y \in Seq(Place) /\ Len(y) = Len(x)
  BY Mapped
<1> QED
  BY <1>1

Rerank(p, rank) == [p EXCEPT !.rank = rank]

LEMMA RankTyped ==
  ASSUME NEW x \in Place, NEW rank \in {"HEAD", "MANAGER", "LEAD", "MEMBER", None},
         NEW y, y = Rerank(x, rank)
  PROVE  y \in Place /\ y.rank = rank /\ y.team = x.team
BY DEF Place, Rerank

LEMMA NobodysHeads ==
  ASSUME NEW x \in Seq(Nat), NEW h, h = [d \in DOMAIN x |-> 0]
  PROVE  h \in Seq(Nat) /\ DOMAIN h = DOMAIN x /\ \A d \in DOMAIN h : h[d] = 0
<1>1. h = [d \in DOMAIN x |-> h[d]] /\ \A d \in DOMAIN x : h[d] = 0
  OBVIOUS
<1>2. \A d \in DOMAIN x : h[d] \in Nat
  BY <1>1
<1>3. h \in Seq(Nat)
  BY <1>1, <1>2, Mapped
<1> QED
  BY <1>1, <1>3

LEMMA HeadsToManagersRows ==
  ASSUME NEW r \in Rows, NEW q, q = HeadsToManagers(r)
  PROVE  /\ q \in Rows /\ Kept(r, q, {"places", "heads"}) /\ Len(q.places) = Len(r.places)
         /\ \A d \in DOMAIN q.heads : q.heads[d] = 0
<1>0. r.places \in Seq(Place) /\ r.heads \in Seq(Nat)
  BY TablesOf
<1>1. PICK y : y = Each(r.places,
                 LAMBDA p : IF p.rank = "HEAD" THEN [p EXCEPT !.rank = "MANAGER"] ELSE p)
  OBVIOUS
<1>2. PICK h : h = [d \in DOMAIN r.heads |-> 0]
  OBVIOUS
<1>3. y = [i \in DOMAIN r.places |-> y[i]]
  BY <1>1 DEF Each
<1>4. ASSUME NEW i \in DOMAIN r.places PROVE y[i] \in Place
  <2>1. r.places[i] \in Place
    BY <1>0
  <2>2. y[i] = r.places[i] \/ y[i] = Rerank(r.places[i], "MANAGER")
    BY <1>1 DEF Each, Rerank
  <2> QED
    BY <2>1, <2>2, RankTyped
<1>5. y \in Seq(Place) /\ Len(y) = Len(r.places)
  BY <1>0, <1>3, <1>4, Replaced
<1>6. h \in Seq(Nat) /\ \A d \in DOMAIN h : h[d] = 0
  BY <1>0, <1>2, NobodysHeads
<1>7. q = [r EXCEPT !.places = y, !.heads = h]
  BY <1>1, <1>2 DEF HeadsToManagers, Each
<1>8. q \in Rows /\ q.places = y /\ q.heads = h /\ Kept(r, q, {"places", "heads"})
  BY <1>5, <1>6, <1>7, ChartPut
<1> QED
  BY <1>5, <1>6, <1>8

LEMMA WithoutHeadsRows ==
  ASSUME NEW r \in Rows, NEW q, q = WithoutHeads(r)
  PROVE  q \in Rows /\ Kept(r, q, {"heads"}) /\ \A d \in DOMAIN q.heads : q.heads[d] = 0
<1>1. r.heads \in Seq(Nat)
  BY TablesOf
<1>2. PICK h : h = [d \in DOMAIN r.heads |-> 0]
  OBVIOUS
<1>3. h \in Seq(Nat) /\ \A d \in DOMAIN h : h[d] = 0
  BY <1>1, <1>2, NobodysHeads
<1>4. q = [r EXCEPT !.heads = h]
  BY <1>2 DEF WithoutHeads, Each
<1> QED
  BY <1>3, <1>4, HeadsPut

LEMMA WithoutRanksRows ==
  ASSUME NEW r \in Rows, NEW q, q = WithoutRanks(r)
  PROVE  q \in Rows /\ Kept(r, q, {"places"}) /\ Len(q.places) = Len(r.places)
<1>0. r.places \in Seq(Place)
  BY TablesOf
<1>1. PICK y : y = Each(r.places, LAMBDA p : [p EXCEPT !.rank = None])
  OBVIOUS
<1>2. y = [i \in DOMAIN r.places |-> y[i]]
  BY <1>1 DEF Each
<1>3. ASSUME NEW i \in DOMAIN r.places PROVE y[i] \in Place
  <2>1. r.places[i] \in Place
    BY <1>0
  <2>2. y[i] = Rerank(r.places[i], None)
    BY <1>1 DEF Each, Rerank
  <2> QED
    BY <2>1, <2>2, RankTyped
<1>4. y \in Seq(Place) /\ Len(y) = Len(r.places)
  BY <1>0, <1>2, <1>3, Replaced
<1>5. q = [r EXCEPT !.places = y]
  BY <1>1 DEF WithoutRanks
<1> QED
  BY <1>4, <1>5, PlacesPut

LEMMA OneDepartmentPerHeadRows ==
  ASSUME NEW r \in Rows, NEW q, q = OneDepartmentPerHead(r)
  PROVE  /\ q \in Rows /\ Kept(r, q, {"heads"}) /\ DOMAIN q.heads = DOMAIN r.heads
         /\ \A d \in DOMAIN q.heads : q.heads[d] \in {0, r.heads[d]}
         /\ \A d, e \in DOMAIN q.heads : d # e /\ q.heads[d] # 0 => q.heads[d] # q.heads[e]
<1>0. r.heads \in Seq(Nat) /\ DOMAIN r.heads \subseteq Nat /\ 0 \in Nat
  BY TablesOf
<1>1. PICK h : h = [d \in DOMAIN r.heads |->
                      IF \E e \in 1..(d - 1) : r.heads[e] = r.heads[d] THEN 0 ELSE r.heads[d]]
  OBVIOUS
<1>2. \A d \in DOMAIN r.heads :
        /\ h[d] \in Nat /\ h[d] \in {0, r.heads[d]}
        /\ h[d] # 0 => \A e \in 1..(d - 1) : r.heads[e] # r.heads[d]
  BY <1>0, <1>1
<1>3. h \in Seq(Nat) /\ DOMAIN h = DOMAIN r.heads
  <2>1. h = [d \in DOMAIN r.heads |-> h[d]]
    BY <1>1
  <2> QED
    BY <1>0, <1>2, <2>1, Mapped
<1>4. q = [r EXCEPT !.heads = h]
  BY <1>1 DEF OneDepartmentPerHead
<1>5. q \in Rows /\ q.heads = h /\ Kept(r, q, {"heads"})
  BY <1>3, <1>4, HeadsPut
<1>6. ASSUME NEW d \in DOMAIN h, NEW e \in DOMAIN h, d # e, h[d] # 0, h[d] = h[e]
      PROVE  FALSE
  <2>1. /\ d \in Nat /\ e \in Nat /\ d >= 1 /\ e >= 1
        /\ h[d] = r.heads[d] /\ h[e] = r.heads[e]
    BY <1>0, <1>2, <1>3, <1>6
  <2>2. CASE d < e
    <3>1. d \in 1..(e - 1)
      BY <2>1, <2>2
    <3> QED
      BY <1>2, <1>3, <1>6, <2>1, <3>1
  <2>3. CASE e < d
    <3>1. e \in 1..(d - 1)
      BY <2>1, <2>3
    <3> QED
      BY <1>2, <1>3, <1>6, <2>1, <3>1
  <2> QED
    BY <1>6, <2>1, <2>2, <2>3
<1> QED
  BY <1>2, <1>3, <1>5, <1>6

Sole(places, rank) ==
  \A i, j \in DOMAIN places :
    i # j /\ places[i].rank = rank /\ places[i].team # None => places[i] # places[j]

\* The pass for one rank keeps what the pass for the other has achieved.
LEMMA OneHolderSole ==
  ASSUME NEW x \in Seq(Place), NEW rank \in {"MANAGER", "LEAD"}, NEW y, y = OneHolder(x, rank)
  PROVE  /\ y \in Seq(Place) /\ Len(y) = Len(x) /\ Sole(y, rank)
         /\ \A other \in {"MANAGER", "LEAD"} : Sole(x, other) => Sole(y, other)
<1>0. DOMAIN x = 1..Len(x) /\ Len(x) \in Nat
  OBVIOUS
<1>1. ASSUME NEW i \in DOMAIN x
      PROVE  \/ /\ y[i] = x[i]
                /\ x[i].rank = rank /\ x[i].team # None =>
                     \A j \in 1..(i - 1) : x[j] # x[i]
             \/ y[i] = Rerank(x[i], "MEMBER")
  BY DEF OneHolder, Rerank
<1>2. ASSUME NEW i \in DOMAIN x PROVE y[i] \in Place
  <2>1. x[i] \in Place
    OBVIOUS
  <2> QED
    BY <1>1, <2>1, RankTyped
<1>3. y \in Seq(Place) /\ Len(y) = Len(x) /\ DOMAIN y = DOMAIN x
  <2>1. y = [i \in DOMAIN x |-> y[i]]
    BY DEF OneHolder
  <2> QED
    BY <1>2, <2>1, Replaced
<1>4. ASSUME NEW i \in DOMAIN x, y[i].rank \in {"MANAGER", "LEAD"}
      PROVE  y[i] = x[i]
  <2>1. x[i] \in Place
    OBVIOUS
  <2>2. y[i] = x[i] \/ y[i].rank = "MEMBER"
    BY <1>1, <2>1, RankTyped
  <2> QED
    BY <1>4, <2>2
<1>5. ASSUME NEW i \in DOMAIN y, NEW j \in DOMAIN y, i # j,
             y[i].rank = rank, y[i].team # None, y[i] = y[j]
      PROVE  FALSE
  <2>1. /\ i \in DOMAIN x /\ j \in DOMAIN x /\ i \in Nat /\ j \in Nat /\ i >= 1 /\ j >= 1
        /\ y[i] = x[i] /\ y[j] = x[j]
    BY <1>0, <1>3, <1>4, <1>5
  <2>2. \A k \in {i, j} : \A l \in 1..(k - 1) : x[l] # x[k]
    <3>1. ASSUME NEW k \in {i, j} PROVE \A l \in 1..(k - 1) : x[l] # x[k]
      <4>1. k \in DOMAIN x /\ y[k].rank = rank /\ y[k] = x[k] /\ x[k].team # None
        BY <1>5, <2>1
      <4>2. x[k] \in Place
        BY <4>1
      <4>3. y[k] # Rerank(x[k], "MEMBER")
        BY <4>1, <4>2, RankTyped
      <4> QED
        BY <1>1, <4>1, <4>3
    <3> QED
      BY <3>1
  <2>3. CASE i < j
    <3>1. i \in 1..(j - 1)
      BY <2>1, <2>3
    <3> QED
      BY <1>5, <2>1, <2>2, <3>1
  <2>4. CASE j < i
    <3>1. j \in 1..(i - 1)
      BY <2>1, <2>4
    <3> QED
      BY <1>5, <2>1, <2>2, <3>1
  <2> QED
    BY <1>5, <2>1, <2>3, <2>4
<1>6. ASSUME NEW other \in {"MANAGER", "LEAD"}, Sole(x, other) PROVE Sole(y, other)
  BY <1>3, <1>4, <1>6 DEF Sole
<1> QED
  BY <1>3, <1>5, <1>6 DEF Sole

LEMMA OneLeaderPerTeamRows ==
  ASSUME NEW r \in Rows, NEW q, q = OneLeaderPerTeam(r), NEW s
  PROVE  /\ q \in Rows /\ Kept(r, q, {"places"}) /\ Len(q.places) = Len(r.places)
         /\ PlacesFit(s, q.places)
<1>1. PICK x : x = OneHolder(r.places, "MANAGER")
  OBVIOUS
<1>2. PICK y : y = OneHolder(x, "LEAD")
  OBVIOUS
<1>3. x \in Seq(Place) /\ Len(x) = Len(r.places) /\ Sole(x, "MANAGER")
  BY <1>1, TablesOf, OneHolderSole
<1>4. y \in Seq(Place) /\ Len(y) = Len(r.places) /\ Sole(y, "MANAGER") /\ Sole(y, "LEAD")
  BY <1>2, <1>3, OneHolderSole
<1>5. q = [r EXCEPT !.places = y]
  BY <1>1, <1>2 DEF OneLeaderPerTeam
<1>6. q \in Rows /\ q.places = y /\ Kept(r, q, {"places"})
  BY <1>4, <1>5, PlacesPut
<1>7. PlacesFit(s, y)
  BY <1>4 DEF PlacesFit, AllDistinct, Sole
<1> QED
  BY <1>4, <1>6, <1>7

LEMMA HeadsAboveTeamsRows ==
  ASSUME NEW r \in Rows, Somebody(r.heads, r.places), NEW q, q = HeadsAboveTeams(r), NEW s
  PROVE  /\ q \in Rows /\ Kept(r, q, {"places"}) /\ Len(q.places) = Len(r.places)
         /\ PlacesFit(s, r.places) => PlacesFit(s, q.places)
         /\ HeadsFit(s, r.heads) /\ HeadKey \in s.unique => HeadsAreNowhereElse(r.heads, q.places)
<1>0. r.places \in Seq(Place) /\ r.heads \in Seq(Nat)
  BY TablesOf
<1>1. PICK y : y = [i \in DOMAIN r.places |->
                      IF \E d \in DOMAIN r.heads : r.heads[d] = i THEN Nowhere ELSE r.places[i]]
  OBVIOUS
<1>2. \A i \in DOMAIN r.places :
        /\ y[i] \in {Nowhere, r.places[i]}
        /\ (\E d \in DOMAIN r.heads : r.heads[d] = i) => y[i] = Nowhere
  BY <1>1
<1>3. y \in Seq(Place) /\ Len(y) = Len(r.places) /\ DOMAIN y = DOMAIN r.places
  <2>1. y = [i \in DOMAIN r.places |-> y[i]]
    BY <1>1
  <2>2. Nowhere \in Place
    BY DEF Nowhere, Place
  <2>3. \A i \in DOMAIN r.places : y[i] \in Place
    BY <1>0, <1>2, <2>2
  <2> QED
    BY <1>0, <2>1, <2>3, Replaced
<1>4. q = [r EXCEPT !.places = y]
  BY <1>1 DEF HeadsAboveTeams
<1>5. q \in Rows /\ q.places = y /\ Kept(r, q, {"places"})
  BY <1>3, <1>4, PlacesPut
<1>6. ASSUME PlacesFit(s, r.places) PROVE PlacesFit(s, y)
  <2>1. Nowhere.team = None
    BY DEF Nowhere
  <2> QED
    BY <1>2, <1>3, <1>6, <2>1 DEF PlacesFit, AllDistinct
<1>7. ASSUME HeadsFit(s, r.heads), HeadKey \in s.unique
      PROVE  HeadsAreNowhereElse(r.heads, y)
  <2>1. SUFFICES ASSUME NEW d \in DOMAIN r.heads, r.heads[d] # 0
                 PROVE  /\ y[r.heads[d]] = Nowhere
                        /\ \A e \in DOMAIN r.heads : r.heads[e] = r.heads[d] => e = d
    BY DEF HeadsAreNowhereElse
  <2>2. r.heads[d] \in DOMAIN r.places
    BY <1>0, <2>1 DEF Somebody
  <2>3. \A e \in DOMAIN r.heads : r.heads[e] = r.heads[d] => e = d
    BY <1>7, <2>1 DEF HeadsFit, AllDistinct
  <2> QED
    BY <1>2, <2>2, <2>3
<1> QED
  BY <1>3, <1>5, <1>6, <1>7

(***************************************************************************)
(* One revision.                                                           *)
(***************************************************************************)
\* Whatever rows s admits, t admits, but for the keys and checks in new.
Freer(s, t, new) ==
  /\ (t.unique \cap Keys) \ new \subseteq s.unique
  /\ (t.checks \cap Checks) \ new \subseteq s.checks

LEMMA FreerFit ==
  ASSUME NEW s, NEW t, NEW new, Freer(s, t, new)
  PROVE  /\ NameKey \notin new => \A x : NamesFit(s, x) => NamesFit(t, x)
         /\ SeqKey \notin new /\ Statuses(s) \subseteq Statuses(t) =>
              \A x : TasksFit(s, x) => TasksFit(t, x)
         /\ SecretCheck \notin new => \A x : UsersFit(s, x) => UsersFit(t, x)
         /\ HumanCheck \notin new /\ UserKey \notin new =>
              \A x : PeopleFit(s, x) => PeopleFit(t, x)
         /\ RankKey("MANAGER") \notin new /\ RankKey("LEAD") \notin new =>
              \A x : PlacesFit(s, x) => PlacesFit(t, x)
         /\ HeadKey \notin new => \A x : HeadsFit(s, x) => HeadsFit(t, x)
<1>0. {NameKey, SeqKey, UserKey, RankKey("MANAGER"), RankKey("LEAD"), HeadKey} \subseteq Keys
      /\ {SecretCheck, HumanCheck} \subseteq Checks
  BY DEF Keys, Checks
<1>1. /\ \A k \in Keys \ new : k \in t.unique => k \in s.unique
      /\ \A c \in Checks \ new : c \in t.checks => c \in s.checks
  BY DEF Freer
<1>2. NameKey \notin new => \A x : NamesFit(s, x) => NamesFit(t, x)
  BY <1>0, <1>1 DEF NamesFit
<1>3. ASSUME SeqKey \notin new, Statuses(s) \subseteq Statuses(t), NEW x, TasksFit(s, x)
      PROVE  TasksFit(t, x)
  <2>1. \A st : <<"task_status", st>> \in s.labels => <<"task_status", st>> \in t.labels
    BY <1>3 DEF Statuses
  <2> QED
    BY <1>0, <1>1, <1>3, <2>1 DEF TasksFit, StatusesFit
<1>4. SecretCheck \notin new => \A x : UsersFit(s, x) => UsersFit(t, x)
  BY <1>0, <1>1 DEF UsersFit
<1>5. HumanCheck \notin new /\ UserKey \notin new =>
        \A x : PeopleFit(s, x) => PeopleFit(t, x)
  BY <1>0, <1>1 DEF PeopleFit
<1>6. RankKey("MANAGER") \notin new /\ RankKey("LEAD") \notin new =>
        \A x : PlacesFit(s, x) => PlacesFit(t, x)
  BY <1>0, <1>1 DEF PlacesFit
<1>7. HeadKey \notin new => \A x : HeadsFit(s, x) => HeadsFit(t, x)
  BY <1>0, <1>1 DEF HeadsFit
<1> QED
  BY <1>2, <1>3, <1>4, <1>5, <1>6, <1>7

LEMMA LoosenedFit ==
  ASSUME NEW s, NEW t, Loosens(s, t)
  PROVE  /\ \A x : NamesFit(s, x) => NamesFit(t, x)
         /\ \A x : TasksFit(s, x) => TasksFit(t, x)
         /\ \A x : UsersFit(s, x) => UsersFit(t, x)
         /\ \A x : PeopleFit(s, x) => PeopleFit(t, x)
         /\ \A x : PlacesFit(s, x) => PlacesFit(t, x)
         /\ \A x : HeadsFit(s, x) => HeadsFit(t, x)
<1>1. Freer(s, t, {}) /\ Statuses(s) \subseteq Statuses(t)
  BY DEF Loosens, Freer
<1> QED
  BY <1>1, FreerFit

\* The keys and checks that the other upgrades bring.
LEMMA UpgradesAdd ==
  ASSUME NEW s, DOMAIN s = Fields
  PROVE  /\ Freer(s, Upgraded(s, 1), {})
         /\ Freer(s, Upgraded(s, 2), {}) /\ Statuses(s) \subseteq Statuses(Upgraded(s, 2))
         /\ Freer(s, Upgraded(s, 7), {SeqKey})
         /\ \A st \in Basic : <<"task_status", st>> \in Upgraded(s, 7).labels
         /\ Freer(s, Upgraded(s, 14), {}) /\ Statuses(s) \subseteq Statuses(Upgraded(s, 14))
         /\ Freer(s, Upgraded(s, 16), {NameKey}) /\ Statuses(s) = Statuses(Upgraded(s, 16))
         /\ Freer(s, Upgraded(s, 17), {UserKey, SecretCheck, HumanCheck})
         /\ Statuses(s) = Statuses(Upgraded(s, 17)) /\ SecretCheck \in Upgraded(s, 17).checks
         /\ Freer(s, Upgraded(s, 23), {HeadKey}) /\ Statuses(s) = Statuses(Upgraded(s, 23))
         /\ Freer(s, Upgraded(s, 24), {RankKey("MANAGER"), RankKey("LEAD")})
         /\ Statuses(s) = Statuses(Upgraded(s, 24))
<1> USE UpgradedIs
    DEF Keys, Checks, NameKey, SeqKey, UserKey, RankKey, HeadKey, SecretCheck, HumanCheck,
        Key, Of
<1>1. Freer(s, Upgraded(s, 1), {})
  BY DEF Freer, Upgrade0001, Plus, Fields
<1>2. Freer(s, Upgraded(s, 2), {}) /\ Statuses(s) \subseteq Statuses(Upgraded(s, 2))
  BY DEF Freer, Upgrade0002, Plus, Fields, Statuses
<1>3. /\ Freer(s, Upgraded(s, 7), {SeqKey})
      /\ \A st \in Basic : <<"task_status", st>> \in Upgraded(s, 7).labels
  <2>1. PICK t : t = Retyped(s, "task_status", Basic)
    OBVIOUS
  <2>2. PICK w : w = WithoutType(s, "task_status")
    OBVIOUS
  <2>3. DOMAIN w = Fields /\ w.unique = s.unique /\ w.checks = s.checks
    BY <2>2 DEF WithoutType, Fields
  <2>4. t = Plus(w, [labels |-> Of("task_status", Basic)])
    BY <2>1, <2>2 DEF Retyped
  <2>5. /\ DOMAIN t = Fields /\ t.unique = s.unique /\ t.checks = s.checks
        /\ \A st \in Basic : <<"task_status", st>> \in t.labels
    BY <2>3, <2>4 DEF Plus, Fields
  <2>6. Upgrade0007(s) = Plus(t,
          [required |-> Of("workspaces", {"task_prefix", "next_task_seq"})
                          \cup Of("tasks", {"seq", "is_blocked"}),
           unique |-> {SeqKey}])
    BY <2>1 DEF Upgrade0007, Basic
  <2> QED
    BY <2>5, <2>6 DEF Freer, Plus, Fields
<1>4. Freer(s, Upgraded(s, 14), {}) /\ Statuses(s) \subseteq Statuses(Upgraded(s, 14))
  BY DEF Freer, Upgrade0014, Plus, Fields, Statuses
<1>5. Freer(s, Upgraded(s, 16), {NameKey}) /\ Statuses(s) = Statuses(Upgraded(s, 16))
  BY DEF Freer, Upgrade0016, Plus, Fields, Statuses
<1>6. Freer(s, Upgraded(s, 17), {UserKey, SecretCheck, HumanCheck})
  BY DEF Freer, Upgrade0017, Plus, Fields
<1>7. Statuses(s) = Statuses(Upgraded(s, 17)) /\ SecretCheck \in Upgraded(s, 17).checks
  BY DEF Upgrade0017, Plus, Fields, Statuses
<1>8. Freer(s, Upgraded(s, 23), {HeadKey}) /\ Statuses(s) = Statuses(Upgraded(s, 23))
  BY DEF Freer, Upgrade0023, Plus, Fields, Statuses
<1>9. /\ Freer(s, Upgraded(s, 24), {RankKey("MANAGER"), RankKey("LEAD")})
      /\ Statuses(s) = Statuses(Upgraded(s, 24))
  BY DEF Freer, Upgrade0024, Plus, Fields, Statuses
<1> QED
  BY <1>1, <1>2, <1>3, <1>4, <1>5, <1>6, <1>7, <1>8, <1>9

Rewriting == {4, 5, 7, 13, 16, 17, 22, 23, 24, 25, 29}

LEMMA BackfilledIs ==
  ASSUME NEW r
  PROVE  /\ Backfilled(r, 4) = RolesByPriority(r) /\ Backfilled(r, 5) = CompletedByStatus(r)
         /\ Backfilled(r, 7) = PrefixAndNumbers(r) /\ Backfilled(r, 13) = WorkspaceOwners(r)
         /\ Backfilled(r, 16) = DistinctNames(r) /\ Backfilled(r, 17) = UsersOfMembers(r)
         /\ Backfilled(r, 22) = HeadsToManagers(r)
         /\ Backfilled(r, 23) = OneDepartmentPerHead(r)
         /\ Backfilled(r, 24) = OneLeaderPerTeam(r) /\ Backfilled(r, 25) = HeadsAboveTeams(r)
         /\ Backfilled(r, 29) = KeysInsteadOfSecrets(r)
         /\ \A v \in (1..30) \ Rewriting : Backfilled(r, v) = r
BY DEF Backfilled, Rewriting

LEMMA UndoneIs ==
  ASSUME NEW r
  PROVE  /\ Undone(r, 1) = WithoutRows(r) /\ Undone(r, 5) = WithoutCompletion(r)
         /\ Undone(r, 7) = Unnumbered(r) /\ Undone(r, 12) = WithoutRanks(r)
         /\ Undone(r, 17) = WithoutUsers(r) /\ Undone(r, 22) = WithoutHeads(r)
         /\ \A v \in (1..30) \ {1, 5, 7, 12, 17, 22} : Undone(r, v) = r
BY DEF Undone

\* An upgrade leaves the rows as the program of its version needs them.
LEMMA RowsUp ==
  ASSUME NEW v \in 1..30, NEW s, NEW r, Rules(v - 1, s), Sane(r), Admits(s, r), Obeys(v - 1, r),
         NEW t, t = Upgraded(s, v), NEW q, q = Backfilled(r, v), Admits(t, q)
  PROVE  Sane(q) /\ Obeys(v, q)
<1>0. /\ r \in Rows /\ Somebody(r.heads, r.places) /\ Addressed(r.people)
      /\ r.people \in Seq(Person)
  BY TablesOf DEF Sane
<1>1. CASE v \notin Rewriting
  BY <1>1, BackfilledIs DEF Rewriting, Obeys
<1>2. CASE v \in {4, 13}
  <2>1. /\ q \in Rows /\ Kept(r, q, {"people"}) /\ SamePeople(r.people, q.people)
        /\ \A i \in DOMAIN r.people : q.people[i].secret = r.people[i].secret
        /\ v = 13 => FoundersLead(q.people)
    BY <1>0, <1>2, BackfilledIs, RolesByPriorityRows, WorkspaceOwnersRows
  <2>2. /\ q.tasks = r.tasks /\ q.next = r.next /\ q.places = r.places /\ q.heads = r.heads
    BY <2>1 DEF Kept, Tables
  <2>3. Addressed(q.people)
    BY <1>0, <2>1, AddressesStay
  <2> QED
    BY <1>0, <1>2, <2>1, <2>2, <2>3 DEF Sane, Obeys
<1>3. CASE v = 5
  <2>1. q \in Rows /\ Kept(r, q, {"tasks"})
    BY <1>0, <1>3, BackfilledIs, CompletionRows
  <2>2. q.people = r.people /\ q.places = r.places /\ q.heads = r.heads
    BY <2>1 DEF Kept, Tables
  <2> QED
    BY <1>0, <1>3, <2>1, <2>2 DEF Sane, Obeys
<1>4. CASE v = 7
  <2>1. q \in Rows /\ Kept(r, q, {"tasks", "next"}) /\ CounterAhead(q.tasks, q.next)
    BY <1>0, <1>4, BackfilledIs, PrefixAndNumbersRows
  <2>2. q.people = r.people /\ q.places = r.places /\ q.heads = r.heads
    BY <2>1 DEF Kept, Tables
  <2> QED
    BY <1>0, <1>4, <2>1, <2>2 DEF Sane, Obeys
<1>5. CASE v = 16
  <2>1. q \in Rows /\ Kept(r, q, {"names"})
    BY <1>0, <1>5, BackfilledIs, DistinctNamesRows
  <2>2. /\ q.tasks = r.tasks /\ q.next = r.next /\ q.people = r.people
        /\ q.places = r.places /\ q.heads = r.heads
    BY <2>1 DEF Kept, Tables
  <2> QED
    BY <1>0, <1>5, <2>1, <2>2 DEF Sane, Obeys
<1>6. CASE v = 17
  <2>1. /\ q \in Rows /\ Kept(r, q, {"people", "users"}) /\ SamePeople(r.people, q.people)
        /\ \A i \in DOMAIN r.people : q.people[i].secret = r.people[i].secret
        /\ \A i \in DOMAIN r.people : q.people[i].role = r.people[i].role
    BY <1>0, <1>6, BackfilledIs, UsersOfMembersRows
  <2>2. q.tasks = r.tasks /\ q.next = r.next /\ q.places = r.places /\ q.heads = r.heads
    BY <2>1 DEF Kept, Tables
  <2>3. Addressed(q.people)
    BY <1>0, <2>1, AddressesStay
  <2>4. FoundersLead(q.people)
    <3>1. FoundersLead(r.people)
      BY <1>6 DEF Obeys
    <3> QED
      BY <1>0, <2>1, <3>1, FoundersStay
  <2>5. SecretCheck \in t.checks
    BY <1>6, UpgradesAdd DEF Rules
  <2>6. \A u \in q.users : u.secret # None
    BY <2>5 DEF Admits, UsersFit
  <2>7. HumansHaveUsers(q.people, q.users)
    BY <1>0, <1>6, <2>6, BackfilledIs, UsersOfMembersFit
  <2> QED
    BY <1>0, <1>6, <2>1, <2>2, <2>3, <2>4, <2>7 DEF Sane, Obeys
<1>7. CASE v = 22
  <2>1. /\ q \in Rows /\ Kept(r, q, {"places", "heads"})
        /\ \A d \in DOMAIN q.heads : q.heads[d] = 0
    BY <1>0, <1>7, BackfilledIs, HeadsToManagersRows
  <2>2. q.tasks = r.tasks /\ q.next = r.next /\ q.people = r.people /\ q.users = r.users
    BY <2>1 DEF Kept, Tables
  <2>3. Somebody(q.heads, q.places)
    <3>1. q.places \in Seq(Place)
      BY <2>1, TablesOf
    <3> QED
      BY <2>1, <3>1 DEF Somebody
  <2> QED
    BY <1>0, <1>7, <2>1, <2>2, <2>3 DEF Sane, Obeys
<1>8. CASE v = 23
  <2>1. /\ q \in Rows /\ Kept(r, q, {"heads"}) /\ DOMAIN q.heads = DOMAIN r.heads
        /\ \A d \in DOMAIN q.heads : q.heads[d] \in {0, r.heads[d]}
    BY <1>0, <1>8, BackfilledIs, OneDepartmentPerHeadRows
  <2>2. /\ q.tasks = r.tasks /\ q.next = r.next /\ q.people = r.people /\ q.users = r.users
        /\ q.places = r.places
    BY <2>1 DEF Kept, Tables
  <2>3. Somebody(q.heads, q.places)
    <3>1. q.places \in Seq(Place)
      BY <2>1, TablesOf
    <3> QED
      BY <1>0, <2>1, <2>2, <3>1 DEF Somebody
  <2> QED
    BY <1>0, <1>8, <2>1, <2>2, <2>3 DEF Sane, Obeys
<1>9. CASE v = 24
  <2>1. q \in Rows /\ Kept(r, q, {"places"}) /\ Len(q.places) = Len(r.places)
    BY <1>0, <1>9, BackfilledIs, OneLeaderPerTeamRows
  <2>2. /\ q.tasks = r.tasks /\ q.next = r.next /\ q.people = r.people /\ q.users = r.users
        /\ q.heads = r.heads
    BY <2>1 DEF Kept, Tables
  <2> QED
    BY <1>0, <1>9, <2>1, <2>2 DEF Sane, Obeys, Somebody
<1>10. CASE v = 25
  <2>1. /\ q \in Rows /\ Kept(r, q, {"places"}) /\ Len(q.places) = Len(r.places)
        /\ HeadsFit(s, r.heads) /\ HeadKey \in s.unique =>
             HeadsAreNowhereElse(r.heads, q.places)
    BY <1>0, <1>10, BackfilledIs, HeadsAboveTeamsRows
  <2>2. /\ q.tasks = r.tasks /\ q.next = r.next /\ q.people = r.people /\ q.users = r.users
        /\ q.heads = r.heads
    BY <2>1 DEF Kept, Tables
  <2>3. HeadsFit(s, r.heads) /\ HeadKey \in s.unique
    BY <1>10 DEF Admits, Rules
  <2> QED
    BY <1>0, <1>10, <2>1, <2>2, <2>3 DEF Sane, Obeys, Somebody
<1>11. CASE v = 29
  <2>1. /\ q \in Rows /\ Kept(r, q, {"people"}) /\ SamePeople(r.people, q.people)
        /\ SameAccounts(r.people, q.people)
        /\ \A i \in DOMAIN r.people : q.people[i].secret \in {r.people[i].secret, None}
        /\ \A i \in DOMAIN r.people : q.people[i].role = r.people[i].role
    <3>1. q = KeysInsteadOfSecrets(r)
      BY <1>11, BackfilledIs
    <3> QED
      BY <1>0, <3>1, KeysInsteadOfSecretsRows
  <2>2. /\ q.tasks = r.tasks /\ q.next = r.next /\ q.users = r.users
        /\ q.places = r.places /\ q.heads = r.heads
    BY <2>1 DEF Kept, Tables
  <2>3. FoundersLead(r.people) /\ HumansHaveUsers(r.people, r.users)
    BY <1>11 DEF Obeys
  <2>4. Addressed(q.people)
    BY <1>0, <2>1, AddressesStay
  <2>5. FoundersLead(q.people)
    BY <1>0, <2>1, <2>3, FoundersStay
  <2>6. HumansHaveUsers(q.people, r.users)
    BY <2>1, <2>3, UsersStay
  <2> QED
    BY <1>0, <1>11, <2>1, <2>2, <2>4, <2>5, <2>6 DEF Sane, Obeys
<1> QED
  BY <1>1, <1>2, <1>3, <1>4, <1>5, <1>6, <1>7, <1>8, <1>9, <1>10, <1>11 DEF Rewriting

ASuffix(r) == \E i \in DOMAIN r.names : r.names[i][2] # <<>>
TooLong(r) == \E i \in DOMAIN r.names : DistinctNames(r).names[i] \notin Fitting
ALostSecret(r) ==
  \E i \in DOMAIN r.people : r.people[i].type = "HUMAN" /\ r.people[i].secret = None

LEMMA SameDistinct ==
  ASSUME NEW r \in Rows, NEW q \in Rows, q.names = r.names
  PROVE  DistinctNames(q).names = DistinctNames(r).names
BY DEF DistinctNames, Rows

\* A backfill makes room for the keys and checks of its revision.
LEMMA RoomUp ==
  ASSUME NEW v \in 1..30, NEW s, NEW r, Rules(v - 1, s), Sane(r), Admits(s, r),
         NEW t, t = Upgraded(s, v), NEW q, q = Backfilled(r, v), ~Admits(t, q)
  PROVE  \/ v = 16 /\ (ASuffix(r) \/ TooLong(r))
         \/ v = 17 /\ ALostSecret(r)
<1>0. /\ r \in Rows /\ Somebody(r.heads, r.places) /\ Addressed(r.people)
      /\ r.tasks \in Seq(Task) /\ DOMAIN s = Fields
  BY TablesOf DEF Sane, Rules
<1>1. /\ NamesFit(s, r.names) /\ TasksFit(s, r.tasks) /\ UsersFit(s, r.users)
      /\ PeopleFit(s, r.people) /\ PlacesFit(s, r.places) /\ HeadsFit(s, r.heads)
  BY DEF Admits
<1>2. CASE v \notin {1, 2, 7, 14, 16, 17, 23, 24}
  <2>1. Loosens(s, t)
    BY <1>0, <1>2, QuietUpgrades DEF Quiet
  <2>2. /\ NamesFit(t, r.names) /\ TasksFit(t, r.tasks) /\ UsersFit(t, r.users)
        /\ PeopleFit(t, r.people) /\ PlacesFit(t, r.places) /\ HeadsFit(t, r.heads)
    BY <1>1, <2>1, LoosenedFit
  <2>3. CASE v \notin Rewriting
    BY <2>2, <2>3, BackfilledIs DEF Admits, Rewriting
  <2>4. CASE v \in {4, 13, 29}
    <3>1. /\ Kept(r, q, {"people"}) /\ SamePeople(r.people, q.people)
          /\ SameAccounts(r.people, q.people)
      BY <1>0, <2>4, BackfilledIs, RolesByPriorityRows, WorkspaceOwnersRows,
         KeysInsteadOfSecretsRows
    <3>2. PeopleFit(t, q.people)
      BY <2>2, <3>1, SamePeopleFit
    <3>3. /\ q.names = r.names /\ q.tasks = r.tasks /\ q.users = r.users
          /\ q.places = r.places /\ q.heads = r.heads
      BY <3>1 DEF Kept, Tables
    <3> QED
      BY <2>2, <3>2, <3>3 DEF Admits
  <2>5. CASE v = 5
    <3>1. Kept(r, q, {"tasks"}) /\ SameTasks(r.tasks, q.tasks)
      BY <1>0, <2>5, BackfilledIs, CompletionRows
    <3>2. TasksFit(t, q.tasks)
      BY <2>2, <3>1, SameTasksFit
    <3>3. /\ q.names = r.names /\ q.people = r.people /\ q.users = r.users
          /\ q.places = r.places /\ q.heads = r.heads
      BY <3>1 DEF Kept, Tables
    <3> QED
      BY <2>2, <3>2, <3>3 DEF Admits
  <2>6. CASE v = 22
    <3>1. Kept(r, q, {"places", "heads"}) /\ \A d \in DOMAIN q.heads : q.heads[d] = 0
      BY <1>0, <2>6, BackfilledIs, HeadsToManagersRows
    <3>2. HeadsFit(t, q.heads)
      BY <3>1 DEF HeadsFit, AllDistinct
    <3>3. PlacesFit(t, q.places)
      <4>1. Rules(v, t)
        BY RulesUp
      <4> QED
        BY <2>6, <4>1 DEF Rules, PlacesFit
    <3>4. /\ q.names = r.names /\ q.tasks = r.tasks /\ q.people = r.people
          /\ q.users = r.users
      BY <3>1 DEF Kept, Tables
    <3> QED
      BY <2>2, <3>2, <3>3, <3>4 DEF Admits
  <2>7. CASE v = 25
    <3>1. Kept(r, q, {"places"}) /\ (PlacesFit(t, r.places) => PlacesFit(t, q.places))
      BY <1>0, <2>7, BackfilledIs, HeadsAboveTeamsRows
    <3>2. /\ q.names = r.names /\ q.tasks = r.tasks /\ q.people = r.people
          /\ q.users = r.users /\ q.heads = r.heads
      BY <3>1 DEF Kept, Tables
    <3> QED
      BY <2>2, <3>1, <3>2 DEF Admits
  <2> QED
    BY <1>2, <2>3, <2>4, <2>5, <2>6, <2>7 DEF Rewriting
<1>3. CASE v \in {1, 2, 14}
  <2>1. Freer(s, t, {}) /\ (v # 1 => Statuses(s) \subseteq Statuses(t))
    BY <1>0, <1>3, UpgradesAdd
  <2>2. /\ NamesFit(t, r.names) /\ UsersFit(t, r.users)
        /\ PeopleFit(t, r.people) /\ PlacesFit(t, r.places) /\ HeadsFit(t, r.heads)
        /\ v # 1 => TasksFit(t, r.tasks)
    BY <1>1, <2>1, FreerFit
  <2>3. v = 1 => TasksFit(t, r.tasks)
    <3>1. SUFFICES ASSUME v = 1 PROVE DOMAIN r.tasks = {}
      BY DEF TasksFit, StatusesFit
    <3>2. Statuses(s) = {}
      BY <3>1 DEF Rules, Known
    <3>3. \A st : <<"task_status", st>> \notin s.labels
      BY <3>2 DEF Statuses
    <3> QED
      BY <1>1, <3>3 DEF TasksFit, StatusesFit
  <2>4. q = r
    BY <1>3, BackfilledIs DEF Rewriting
  <2> QED
    BY <2>2, <2>3, <2>4 DEF Admits
<1>4. CASE v = 7
  <2>1. Freer(s, t, {SeqKey}) /\ \A st \in Basic : <<"task_status", st>> \in t.labels
    BY <1>0, <1>4, UpgradesAdd
  <2>2. /\ SeqKey # NameKey /\ SeqKey # UserKey /\ SeqKey # HeadKey
        /\ SeqKey # RankKey("MANAGER") /\ SeqKey # RankKey("LEAD")
        /\ SeqKey # SecretCheck /\ SeqKey # HumanCheck
    BY DEF SeqKey, NameKey, UserKey, HeadKey, RankKey, SecretCheck, HumanCheck, Key
  <2>3. /\ NamesFit(t, r.names) /\ UsersFit(t, r.users)
        /\ PeopleFit(t, r.people) /\ PlacesFit(t, r.places) /\ HeadsFit(t, r.heads)
    BY <1>1, <2>1, <2>2, FreerFit
  <2>4. /\ Kept(r, q, {"tasks", "next"}) /\ DOMAIN q.tasks = DOMAIN r.tasks
        /\ \A i, j \in DOMAIN q.tasks : i # j =>
             <<q.tasks[i].workspace, q.tasks[i].seq>> # <<q.tasks[j].workspace, q.tasks[j].seq>>
        /\ \A i \in DOMAIN r.tasks :
             q.tasks[i].status = IF r.tasks[i].status = "BLOCKED" THEN "IN_PROGRESS"
                                                                  ELSE r.tasks[i].status
    <3>1. q = PrefixAndNumbers(r)
      BY <1>4, BackfilledIs
    <3> QED
      BY <1>0, <3>1, PrefixAndNumbersRows
  <2>5. \A i \in DOMAIN q.tasks : <<"task_status", q.tasks[i].status>> \in t.labels
    <3>1. SUFFICES ASSUME NEW i \in DOMAIN r.tasks PROVE q.tasks[i].status \in Basic
      BY <2>1, <2>4
    <3>2. <<"task_status", r.tasks[i].status>> \in Statuses(s)
      BY <1>1 DEF TasksFit, StatusesFit, Statuses
    <3>3. r.tasks[i].status \in Basic \cup {"BLOCKED"}
      BY <1>4, <3>2 DEF Rules, Known
    <3> QED
      BY <2>4, <3>3 DEF Basic
  <2>6. TasksFit(t, q.tasks)
    BY <2>4, <2>5 DEF TasksFit, StatusesFit
  <2>7. /\ q.names = r.names /\ q.people = r.people /\ q.users = r.users
        /\ q.places = r.places /\ q.heads = r.heads
    BY <2>4 DEF Kept, Tables
  <2> QED
    BY <2>3, <2>6, <2>7 DEF Admits
<1>5. CASE v = 16
  <2>1. Freer(s, t, {NameKey}) /\ Statuses(s) \subseteq Statuses(t)
    BY <1>0, <1>5, UpgradesAdd
  <2>2. /\ NameKey # SeqKey /\ NameKey # UserKey /\ NameKey # HeadKey
        /\ NameKey # RankKey("MANAGER") /\ NameKey # RankKey("LEAD")
        /\ NameKey # SecretCheck /\ NameKey # HumanCheck
    BY DEF SeqKey, NameKey, UserKey, HeadKey, RankKey, SecretCheck, HumanCheck, Key
  <2>3. /\ TasksFit(t, r.tasks) /\ UsersFit(t, r.users)
        /\ PeopleFit(t, r.people) /\ PlacesFit(t, r.places) /\ HeadsFit(t, r.heads)
    BY <1>1, <2>1, <2>2, FreerFit
  <2>4. /\ Kept(r, q, {"names"})
        /\ ~ASuffix(r) => \A i, j \in DOMAIN q.names : i # j => q.names[i] # q.names[j]
    <3>1. q = DistinctNames(r)
      BY <1>5, BackfilledIs
    <3>2. ~ASuffix(r) => \A i \in DOMAIN r.names : r.names[i][2] = <<>>
      BY DEF ASuffix
    <3> QED
      BY <1>0, <3>1, <3>2, DistinctNamesRows
  <2>5. ~ASuffix(r) /\ ~TooLong(r) => NamesFit(t, q.names)
    <3>1. q = DistinctNames(r) /\ DOMAIN q.names = DOMAIN r.names
      BY <1>0, <1>5, BackfilledIs, DistinctNamesRows
    <3> QED
      BY <2>4, <3>1 DEF NamesFit, AllDistinct, TooLong
  <2>6. /\ q.tasks = r.tasks /\ q.people = r.people /\ q.users = r.users
        /\ q.places = r.places /\ q.heads = r.heads
    BY <2>4 DEF Kept, Tables
  <2>7. ASSUME ~ASuffix(r), ~TooLong(r) PROVE Admits(t, q)
    BY <2>3, <2>5, <2>6, <2>7 DEF Admits
  <2>8. CASE ASuffix(r) \/ TooLong(r)
    BY <1>5, <2>8
  <2> QED
    BY <2>7, <2>8
<1>6. CASE v = 17
  <2>1. /\ Freer(s, t, {UserKey, SecretCheck, HumanCheck})
        /\ Statuses(s) \subseteq Statuses(t)
    BY <1>0, <1>6, UpgradesAdd
  <2>2. \A k \in {NameKey, SeqKey, HeadKey, RankKey("MANAGER"), RankKey("LEAD")} :
          k \notin {UserKey, SecretCheck, HumanCheck}
    BY DEF SeqKey, NameKey, UserKey, HeadKey, RankKey, SecretCheck, HumanCheck, Key
  <2>3. /\ NamesFit(t, r.names) /\ TasksFit(t, r.tasks)
        /\ PlacesFit(t, r.places) /\ HeadsFit(t, r.heads)
    BY <1>1, <2>1, <2>2, FreerFit
  <2>4. /\ PeopleFit(t, q.people)
        /\ ~ALostSecret(r) => UsersFit(t, q.users)
    BY <1>0, <1>6, BackfilledIs, UsersOfMembersFit DEF ALostSecret
  <2>5. Kept(r, q, {"people", "users"})
    BY <1>0, <1>6, BackfilledIs, UsersOfMembersRows
  <2>6. /\ q.names = r.names /\ q.tasks = r.tasks
        /\ q.places = r.places /\ q.heads = r.heads
    BY <2>5 DEF Kept, Tables
  <2> QED
    BY <1>6, <2>3, <2>4, <2>6 DEF Admits
<1>7. CASE v = 23
  <2>1. Freer(s, t, {HeadKey}) /\ Statuses(s) \subseteq Statuses(t)
    BY <1>0, <1>7, UpgradesAdd
  <2>2. \A k \in {NameKey, SeqKey, UserKey, RankKey("MANAGER"), RankKey("LEAD"),
                  SecretCheck, HumanCheck} : k # HeadKey
    BY DEF SeqKey, NameKey, UserKey, HeadKey, RankKey, SecretCheck, HumanCheck, Key
  <2>3. /\ NamesFit(t, r.names) /\ TasksFit(t, r.tasks) /\ UsersFit(t, r.users)
        /\ PeopleFit(t, r.people) /\ PlacesFit(t, r.places)
    BY <1>1, <2>1, <2>2, FreerFit
  <2>4. /\ Kept(r, q, {"heads"})
        /\ \A d, e \in DOMAIN q.heads : d # e /\ q.heads[d] # 0 => q.heads[d] # q.heads[e]
    BY <1>0, <1>7, BackfilledIs, OneDepartmentPerHeadRows
  <2>5. HeadsFit(t, q.heads)
    BY <2>4 DEF HeadsFit, AllDistinct
  <2>6. /\ q.names = r.names /\ q.tasks = r.tasks /\ q.people = r.people
        /\ q.users = r.users /\ q.places = r.places
    BY <2>4 DEF Kept, Tables
  <2> QED
    BY <2>3, <2>5, <2>6 DEF Admits
<1>8. CASE v = 24
  <2>1. /\ Freer(s, t, {RankKey("MANAGER"), RankKey("LEAD")})
        /\ Statuses(s) \subseteq Statuses(t)
    BY <1>0, <1>8, UpgradesAdd
  <2>2. \A k \in {NameKey, SeqKey, UserKey, HeadKey, SecretCheck, HumanCheck} :
          k # RankKey("MANAGER") /\ k # RankKey("LEAD")
    BY DEF SeqKey, NameKey, UserKey, HeadKey, RankKey, SecretCheck, HumanCheck, Key
  <2>3. /\ NamesFit(t, r.names) /\ TasksFit(t, r.tasks) /\ UsersFit(t, r.users)
        /\ PeopleFit(t, r.people) /\ HeadsFit(t, r.heads)
    BY <1>1, <2>1, <2>2, FreerFit
  <2>4. Kept(r, q, {"places"}) /\ PlacesFit(t, q.places)
    BY <1>0, <1>8, BackfilledIs, OneLeaderPerTeamRows
  <2>5. /\ q.names = r.names /\ q.tasks = r.tasks /\ q.people = r.people
        /\ q.users = r.users /\ q.heads = r.heads
    BY <2>4 DEF Kept, Tables
  <2> QED
    BY <2>3, <2>4, <2>5 DEF Admits
<1> QED
  BY <1>2, <1>3, <1>4, <1>5, <1>6, <1>7, <1>8

LEMMA DowngradesDrop ==
  ASSUME NEW s, DOMAIN s = Fields
  PROVE  /\ Freer(s, Downgraded(s, 7), {})
         /\ \A st \in Basic \cup {"BLOCKED"} : <<"task_status", st>> \in Downgraded(s, 7).labels
         /\ SeqKey \notin Downgraded(s, 7).unique
         /\ HumanCheck \notin Downgraded(s, 17).checks
<1> USE DowngradedIs
<1>1. /\ Freer(s, Downgraded(s, 7), {})
      /\ \A st \in Basic \cup {"BLOCKED"} : <<"task_status", st>> \in Downgraded(s, 7).labels
      /\ SeqKey \notin Downgraded(s, 7).unique
  <2>1. PICK u : u = Retyped(s, "task_status", Basic \cup {"BLOCKED"})
    OBVIOUS
  <2>2. PICK w : w = WithoutType(s, "task_status")
    OBVIOUS
  <2>3. DOMAIN w = Fields /\ w.unique = s.unique /\ w.checks = s.checks
    BY <2>2 DEF WithoutType, Fields
  <2>4. u = Plus(w, [labels |-> Of("task_status", Basic \cup {"BLOCKED"})])
    BY <2>1, <2>2 DEF Retyped
  <2>5. /\ DOMAIN u = Fields /\ u.unique = s.unique /\ u.checks = s.checks
        /\ \A st \in Basic \cup {"BLOCKED"} : <<"task_status", st>> \in u.labels
    BY <2>3, <2>4 DEF Plus, Fields, Of
  <2>6. PICK x : x = Minus(u, [unique |-> {SeqKey}])
    OBVIOUS
  <2>7. DOMAIN x = Fields /\ x.unique = u.unique \ {SeqKey} /\ x.checks = u.checks
        /\ x.labels = u.labels
    BY <2>5, <2>6 DEF Minus, Fields
  <2>8. PICK y : y = WithoutColumns(x, "tasks", {"is_blocked", "seq"})
    OBVIOUS
  <2>9. DOMAIN y = Fields /\ y.unique \subseteq x.unique /\ y.checks = x.checks
        /\ y.labels = x.labels
    BY <2>7, <2>8 DEF WithoutColumns, Fields
  <2>10. PICK z : z = WithoutColumns(y, "workspaces", {"next_task_seq", "task_prefix"})
    OBVIOUS
  <2>11. DOMAIN z = Fields /\ z.unique \subseteq y.unique /\ z.checks = y.checks
         /\ z.labels = y.labels
    BY <2>9, <2>10 DEF WithoutColumns, Fields
  <2>12. Downgraded(s, 7) = z
    BY <2>1, <2>6, <2>8, <2>10 DEF Downgrade0007, Basic, SeqKey
  <2> QED
    BY <2>5, <2>7, <2>9, <2>11, <2>12 DEF Freer
<1>2. HumanCheck \notin Downgraded(s, 17).checks
  <2>1. PICK w : w = Minus(s, [unique |-> {UserKey}])
    OBVIOUS
  <2>2. PICK x : x = WithoutCheck(w, "members", "members_human_has_user")
    OBVIOUS
  <2>3. DOMAIN w = Fields
    BY <2>1 DEF Minus
  <2>4. DOMAIN x = Fields /\ HumanCheck \notin x.checks
    BY <2>2, <2>3 DEF WithoutCheck, Fields, HumanCheck
  <2>5. PICK y : y = WithoutColumns(x, "members", {"user_id"})
    OBVIOUS
  <2>6. DOMAIN y = Fields /\ y.checks = x.checks
    BY <2>4, <2>5 DEF WithoutColumns, Fields
  <2>7. Downgraded(s, 17) = WithoutTable(y, "users")
    BY <2>1, <2>2, <2>5 DEF Downgrade0017, UserKey
  <2>8. WithoutTable(y, "users").checks \subseteq y.checks
    BY <2>6 DEF WithoutTable, Fields
  <2> QED
    BY <2>4, <2>6, <2>7, <2>8
<1> QED
  BY <1>1, <1>2

LEMMA NothingLeft ==
  ASSUME NEW r \in Rows, NEW q, q = WithoutRows(r)
  PROVE  /\ q \in Rows /\ DOMAIN q.names = {} /\ DOMAIN q.tasks = {} /\ DOMAIN q.people = {}
         /\ q.users = {} /\ DOMAIN q.places = {} /\ DOMAIN q.heads = {}
<1>1. /\ q.names = <<>> /\ q.tasks = <<>> /\ q.people = <<>> /\ q.users = {}
      /\ q.places = <<>> /\ q.heads = <<>> /\ q.next = r.next
      /\ q = [names |-> q.names, tasks |-> q.tasks, next |-> q.next, people |-> q.people,
              users |-> q.users, places |-> q.places, heads |-> q.heads]
  BY DEF WithoutRows, Rows
<1>2. /\ <<>> \in Seq(Name) /\ <<>> \in Seq(Task) /\ <<>> \in Seq(Person)
      /\ <<>> \in Seq(Place) /\ <<>> \in Seq(Nat) /\ DOMAIN <<>> = {}
  OBVIOUS
<1>3. r.next \in [Workspaces -> Nat]
  BY TablesOf
<1>4. q \in Rows
  BY <1>1, <1>2, <1>3 DEF Rows
<1> QED
  BY <1>1, <1>2, <1>4

\* A downgrade leaves the rows as the program of the earlier version needs them.
LEMMA RowsDown ==
  ASSUME NEW v \in 1..30, NEW r, Sane(r), Obeys(v, r), NEW q, q = Undone(r, v)
  PROVE  Sane(q) /\ Obeys(v - 1, q)
<1>0. /\ r \in Rows /\ Somebody(r.heads, r.places) /\ Addressed(r.people)
      /\ r.people \in Seq(Person)
  BY TablesOf DEF Sane
<1>1. CASE v \notin {1, 5, 7, 12, 17, 22}
  BY <1>1, UndoneIs DEF Obeys
<1>2. CASE v = 1
  <2>1. q \in Rows /\ DOMAIN q.people = {} /\ DOMAIN q.heads = {}
    BY <1>0, <1>2, UndoneIs, NothingLeft
  <2> QED
    BY <1>2, <2>1 DEF Sane, Somebody, Addressed, Obeys
<1>3. CASE v \in {5, 7}
  <2>1. q \in Rows /\ Kept(r, q, {"tasks", "next"})
    <3>1. v = 5 => q \in Rows /\ Kept(r, q, {"tasks"})
      BY <1>0, UndoneIs, CompletionRows
    <3>2. v = 7 => q \in Rows /\ Kept(r, q, {"tasks", "next"})
      BY <1>0, UndoneIs, UnnumberedRows
    <3> QED
      BY <1>3, <3>1, <3>2 DEF Kept
  <2>2. q.people = r.people /\ q.places = r.places /\ q.heads = r.heads
    BY <2>1 DEF Kept, Tables
  <2> QED
    BY <1>0, <1>3, <2>1, <2>2 DEF Sane, Obeys
<1>4. CASE v = 12
  <2>1. q \in Rows /\ Kept(r, q, {"places"}) /\ Len(q.places) = Len(r.places)
    BY <1>0, <1>4, UndoneIs, WithoutRanksRows
  <2>2. q.tasks = r.tasks /\ q.next = r.next /\ q.people = r.people /\ q.heads = r.heads
    BY <2>1 DEF Kept, Tables
  <2> QED
    BY <1>0, <1>4, <2>1, <2>2 DEF Sane, Obeys, Somebody
<1>5. CASE v = 17
  <2>1. /\ q \in Rows /\ Kept(r, q, {"people", "users"}) /\ SamePeople(r.people, q.people)
        /\ \A i \in DOMAIN r.people : q.people[i].secret = r.people[i].secret
        /\ \A i \in DOMAIN r.people : q.people[i].role = r.people[i].role
    BY <1>0, <1>5, UndoneIs, WithoutUsersRows
  <2>2. q.tasks = r.tasks /\ q.next = r.next /\ q.places = r.places /\ q.heads = r.heads
    BY <2>1 DEF Kept, Tables
  <2>3. Addressed(q.people)
    BY <1>0, <2>1, AddressesStay
  <2>4. FoundersLead(q.people)
    <3>1. FoundersLead(r.people)
      BY <1>5 DEF Obeys
    <3> QED
      BY <1>0, <2>1, <3>1, FoundersStay
  <2> QED
    BY <1>0, <1>5, <2>1, <2>2, <2>3, <2>4 DEF Sane, Obeys
<1>6. CASE v = 22
  <2>1. /\ q \in Rows /\ Kept(r, q, {"heads"}) /\ \A d \in DOMAIN q.heads : q.heads[d] = 0
    BY <1>0, <1>6, UndoneIs, WithoutHeadsRows
  <2>2. /\ q.tasks = r.tasks /\ q.next = r.next /\ q.people = r.people /\ q.users = r.users
        /\ q.places = r.places
    BY <2>1 DEF Kept, Tables
  <2>3. Somebody(q.heads, q.places)
    <3>1. q.places \in Seq(Place)
      BY <2>1, TablesOf
    <3> QED
      BY <2>1, <3>1 DEF Somebody
  <2> QED
    BY <1>0, <1>6, <2>1, <2>2, <2>3 DEF Sane, Obeys
<1> QED
  BY <1>1, <1>2, <1>3, <1>4, <1>5, <1>6

InReview(r) == \E i \in DOMAIN r.tasks : r.tasks[i].status = "IN_REVIEW"

\* Only the enum of 0006 has no place for a status of a later program.
LEMMA RoomDown ==
  ASSUME NEW v \in 1..30, NEW s, NEW r, Rules(v, s), Sane(r), Admits(s, r),
         NEW t, t = Downgraded(s, v), NEW q, q = Undone(r, v),
         ~Admits(t, q) \/ (v = 7 /\ ~StatusesFit(t, r.tasks))
  PROVE  v = 7 /\ InReview(r)
<1>0. r \in Rows /\ DOMAIN s = Fields
  BY DEF Sane, Rules
<1>1. /\ NamesFit(s, r.names) /\ TasksFit(s, r.tasks) /\ UsersFit(s, r.users)
      /\ PeopleFit(s, r.people) /\ PlacesFit(s, r.places) /\ HeadsFit(s, r.heads)
  BY DEF Admits
<1>2. CASE v = 1
  <2>1. /\ DOMAIN q.names = {} /\ DOMAIN q.tasks = {} /\ DOMAIN q.people = {}
        /\ q.users = {} /\ DOMAIN q.places = {} /\ DOMAIN q.heads = {}
    BY <1>0, <1>2, UndoneIs, NothingLeft
  <2> QED
    BY <1>2, <2>1 DEF Admits, NamesFit, TasksFit, StatusesFit, UsersFit, PeopleFit, PlacesFit, HeadsFit, AllDistinct
<1>3. CASE v = 7
  <2>1. /\ Freer(s, t, {}) /\ SeqKey \notin t.unique
        /\ \A st \in Basic \cup {"BLOCKED"} : <<"task_status", st>> \in t.labels
    BY <1>0, <1>3, DowngradesDrop
  <2>2. /\ NamesFit(t, r.names) /\ UsersFit(t, r.users)
        /\ PeopleFit(t, r.people) /\ PlacesFit(t, r.places) /\ HeadsFit(t, r.heads)
    BY <1>1, <2>1, FreerFit
  <2>3. /\ Kept(r, q, {"tasks", "next"}) /\ DOMAIN q.tasks = DOMAIN r.tasks
        /\ \A i \in DOMAIN r.tasks : q.tasks[i].status \in {r.tasks[i].status, "BLOCKED"}
    <3>1. q = Unnumbered(r)
      BY <1>3, UndoneIs
    <3> QED
      BY <1>0, <3>1, UnnumberedRows
  <2>4. ASSUME ~InReview(r) PROVE TasksFit(t, q.tasks) /\ StatusesFit(t, r.tasks)
    <3>1. SUFFICES ASSUME NEW i \in DOMAIN r.tasks
                   PROVE  {r.tasks[i].status, q.tasks[i].status} \subseteq Basic \cup {"BLOCKED"}
      BY <2>1, <2>3 DEF TasksFit, StatusesFit
    <3>2. <<"task_status", r.tasks[i].status>> \in Statuses(s)
      BY <1>1 DEF TasksFit, StatusesFit, Statuses
    <3>3. r.tasks[i].status \in Basic \cup {"IN_REVIEW"}
      BY <1>3, <3>2 DEF Rules, Known
    <3> QED
      BY <2>3, <2>4, <3>3 DEF InReview
  <2>5. /\ q.names = r.names /\ q.people = r.people /\ q.users = r.users
        /\ q.places = r.places /\ q.heads = r.heads
    BY <2>3 DEF Kept, Tables
  <2>6. ASSUME ~InReview(r) PROVE FALSE
    BY <2>2, <2>4, <2>5, <2>6 DEF Admits
  <2> QED
    BY <1>3, <2>6
<1>4. CASE v \notin {1, 7}
  <2>1. Loosens(s, t)
    BY <1>0, <1>4, DowngradesLoosen
  <2>2. /\ NamesFit(t, r.names) /\ TasksFit(t, r.tasks) /\ UsersFit(t, r.users)
        /\ PeopleFit(t, r.people) /\ PlacesFit(t, r.places) /\ HeadsFit(t, r.heads)
    BY <1>1, <2>1, LoosenedFit
  <2>3. CASE v \notin {1, 5, 7, 12, 17, 22}
    BY <2>2, <2>3, UndoneIs DEF Admits
  <2>4. CASE v = 5
    <3>1. Kept(r, q, {"tasks"}) /\ SameTasks(r.tasks, q.tasks)
      BY <1>0, <2>4, UndoneIs, CompletionRows
    <3>2. TasksFit(t, q.tasks)
      BY <2>2, <3>1, SameTasksFit
    <3>3. /\ q.names = r.names /\ q.people = r.people /\ q.users = r.users
          /\ q.places = r.places /\ q.heads = r.heads
      BY <3>1 DEF Kept, Tables
    <3> QED
      BY <1>4, <2>2, <3>2, <3>3 DEF Admits
  <2>5. CASE v = 12
    <3>1. Kept(r, q, {"places"})
      BY <1>0, <2>5, UndoneIs, WithoutRanksRows
    <3>2. Rules(v - 1, t)
      BY RulesDown
    <3>3. PlacesFit(t, q.places)
      BY <2>5, <3>2 DEF Rules, PlacesFit
    <3>4. /\ q.names = r.names /\ q.tasks = r.tasks /\ q.people = r.people
          /\ q.users = r.users /\ q.heads = r.heads
      BY <3>1 DEF Kept, Tables
    <3> QED
      BY <1>4, <2>2, <3>3, <3>4 DEF Admits
  <2>6. CASE v = 17
    <3>1. /\ Kept(r, q, {"people", "users"}) /\ q.users = {}
          /\ DOMAIN q.people = DOMAIN r.people
          /\ \A i \in DOMAIN r.people : q.people[i].user = None
      BY <1>0, <2>6, UndoneIs, WithoutUsersRows DEF SamePeople
    <3>2. HumanCheck \notin t.checks
      BY <1>0, <2>6, DowngradesDrop
    <3>3. PeopleFit(t, q.people) /\ UsersFit(t, q.users)
      BY <3>1, <3>2 DEF PeopleFit, UsersFit
    <3>4. /\ q.names = r.names /\ q.tasks = r.tasks
          /\ q.places = r.places /\ q.heads = r.heads
      BY <3>1 DEF Kept, Tables
    <3> QED
      BY <1>4, <2>2, <3>3, <3>4 DEF Admits
  <2>7. CASE v = 22
    <3>1. Kept(r, q, {"heads"}) /\ \A d \in DOMAIN q.heads : q.heads[d] = 0
      BY <1>0, <2>7, UndoneIs, WithoutHeadsRows
    <3>2. HeadsFit(t, q.heads)
      BY <3>1 DEF HeadsFit, AllDistinct
    <3>3. /\ q.names = r.names /\ q.tasks = r.tasks /\ q.people = r.people
          /\ q.users = r.users /\ q.places = r.places
      BY <3>1 DEF Kept, Tables
    <3> QED
      BY <1>4, <2>2, <3>2, <3>3 DEF Admits
  <2> QED
    BY <1>4, <2>3, <2>4, <2>5, <2>6, <2>7
<1> QED
  BY <1>2, <1>3, <1>4

-----------------------------------------------------------------------------
(***************************************************************************)
(* The commands.                                                           *)
(***************************************************************************)
Sound(v, s, r) ==
  v \in 0..30 /\ Rules(v, s) /\ Sane(r) /\ Admits(s, r) /\ Obeys(v, r)

SameSecrets(x, y) ==
  /\ DOMAIN y = DOMAIN x
  /\ \A i \in DOMAIN x : y[i].type = x[i].type /\ y[i].secret = x[i].secret

Blocked == <<"task_status", "BLOCKED">>

\* What an upgrade relies on of the rows that it falls back to.
Climbing ==
  version < goal =>
    /\ saved.version <= version
    /\ version < 16 => rows.names = saved.rows.names
    /\ version < 17 => SameSecrets(saved.rows.people, rows.people)
    /\ Blocked \in fresh => saved.version = 1

Descending ==
  goal # NoGoal /\ goal < version =>
    /\ version <= saved.version
    /\ version >= 7 => rows.tasks = saved.rows.tasks

Resting == goal = NoGoal => saved = [version |-> version, schema |-> schema, rows |-> rows]

Inv ==
  /\ goal \in Goals \cup {NoGoal}
  /\ Sound(version, schema, rows)
  /\ saved = [version |-> saved.version, schema |-> saved.schema, rows |-> saved.rows]
  /\ Sound(saved.version, saved.schema, saved.rows)
  /\ Resting /\ Climbing /\ Descending
  /\ goal # NoGoal => refused = 0
  /\ BackfillsMakeRoom

LEMMA Bounds ==
  ASSUME NEW g \in Goals
  PROVE  g \in 0..30 /\ g # NoGoal
BY MigrationsAssumption DEF Latest, NoGoal

LEMMA InitInv == Init => Inv
<1> SUFFICES ASSUME Init PROVE Inv
  OBVIOUS
<1>1. PICK d \in Databases : version = d.version /\ rows = d.rows /\ schema = SchemaAt[d.version]
  BY DEF Init
<1>2. /\ d.version \in 0..30
      /\ Sane(d.rows) /\ Admits(SchemaAt[d.version], d.rows) /\ Obeys(d.version, d.rows)
  BY <1>1, MigrationsAssumption DEF Latest
<1>3. Rules(d.version, SchemaAt[d.version])
  BY <1>2, RulesAtRevisions DEF Latest
<1>4. Sound(version, schema, rows)
  BY <1>1, <1>2, <1>3 DEF Sound
<1>5. /\ saved = [version |-> version, schema |-> schema, rows |-> rows]
      /\ goal = NoGoal /\ refused = 0
  BY DEF Init
<1>6. saved.version = version /\ saved.schema = schema /\ saved.rows = rows
  BY <1>5
<1>7. Climbing /\ Descending
  BY <1>2, <1>1, <1>5 DEF Climbing, Descending, NoGoal
<1> QED
  BY <1>4, <1>5, <1>6, <1>7 DEF Inv, Resting, BackfillsMakeRoom

LEMMA NamesStayUp ==
  ASSUME NEW v \in 1..30, NEW r \in Rows, NEW q, q = Backfilled(r, v)
  PROVE  v < 16 => q.names = r.names
<1>1. CASE v \notin Rewriting
  BY <1>1, BackfilledIs
<1>2. CASE v \in {4, 13}
  <2>1. Kept(r, q, {"people"})
    BY <1>2, BackfilledIs, RolesByPriorityRows, WorkspaceOwnersRows
  <2> QED
    BY <2>1 DEF Kept, Tables
<1>3. CASE v = 5
  <2>1. Kept(r, q, {"tasks"})
    BY <1>3, BackfilledIs, CompletionRows
  <2> QED
    BY <2>1 DEF Kept, Tables
<1>4. CASE v = 7
  <2>1. q = PrefixAndNumbers(r)
    BY <1>4, BackfilledIs
  <2>2. Kept(r, q, {"tasks", "next"})
    BY <2>1, PrefixAndNumbersRows
  <2> QED
    BY <2>2 DEF Kept, Tables
<1> QED
  BY <1>1, <1>2, <1>3, <1>4 DEF Rewriting

LEMMA SecretsStayUp ==
  ASSUME NEW v \in 1..16, NEW r \in Rows, NEW q, q = Backfilled(r, v)
  PROVE  SameSecrets(r.people, q.people)
<1>1. CASE v \notin Rewriting
  BY <1>1, BackfilledIs DEF SameSecrets
<1>2. CASE v \in {4, 13}
  <2>1. /\ SamePeople(r.people, q.people)
        /\ \A i \in DOMAIN r.people : q.people[i].secret = r.people[i].secret
    BY <1>2, BackfilledIs, RolesByPriorityRows, WorkspaceOwnersRows
  <2> QED
    BY <2>1 DEF SamePeople, SameSecrets
<1>3. CASE v \in {5, 7, 16}
  <2>1. v = 5 => Kept(r, q, {"tasks", "next", "names"})
    BY BackfilledIs, CompletionRows DEF Kept
  <2>2. v = 7 => Kept(r, q, {"tasks", "next", "names"})
    <3>1. SUFFICES ASSUME v = 7 PROVE Kept(r, q, {"tasks", "next"})
      BY DEF Kept
    <3>2. q = PrefixAndNumbers(r)
      BY <3>1, BackfilledIs
    <3> QED
      BY <3>2, PrefixAndNumbersRows
  <2>3. v = 16 => Kept(r, q, {"tasks", "next", "names"})
    <3>1. SUFFICES ASSUME v = 16 PROVE Kept(r, q, {"names"})
      BY DEF Kept
    <3>2. q = DistinctNames(r)
      BY <3>1, BackfilledIs
    <3> QED
      BY <3>2, DistinctNamesRows
  <2>4. q.people = r.people
    BY <1>3, <2>1, <2>2, <2>3 DEF Kept, Tables
  <2> QED
    BY <2>4 DEF SameSecrets
<1> QED
  BY <1>1, <1>2, <1>3 DEF Rewriting

LEMMA TasksStayDown ==
  ASSUME NEW v \in 8..30, NEW r \in Rows, NEW q, q = Undone(r, v)
  PROVE  q.tasks = r.tasks
<1>1. CASE v \notin {12, 17, 22}
  BY <1>1, UndoneIs
<1>2. CASE v = 12
  <2>1. Kept(r, q, {"places"})
    BY <1>2, UndoneIs, WithoutRanksRows
  <2> QED
    BY <2>1 DEF Kept, Tables
<1>3. CASE v = 17
  <2>1. Kept(r, q, {"people", "users"})
    BY <1>3, UndoneIs, WithoutUsersRows
  <2> QED
    BY <2>1 DEF Kept, Tables
<1>4. CASE v = 22
  <2>1. Kept(r, q, {"heads"})
    BY <1>4, UndoneIs, WithoutHeadsRows
  <2> QED
    BY <2>1 DEF Kept, Tables
<1> QED
  BY <1>1, <1>2, <1>3, <1>4

LEMMA BeginStep ==
  ASSUME Inv, NEW g \in Goals, Begin(g)
  PROVE  Inv'
<1>1. /\ version' = version /\ schema' = schema /\ rows' = rows /\ goal' = g
      /\ saved' = [version |-> version, schema |-> schema, rows |-> rows]
      /\ fresh' = {} /\ refused' = 0
  BY DEF Begin
<1>2. saved'.version = version /\ saved'.schema = schema /\ saved'.rows = rows
  BY <1>1
<1>3. g \in 0..30 /\ g # NoGoal
  BY Bounds
<1>4. version \in 0..30 /\ Sound(version, schema, rows)
  BY DEF Inv, Sound
<1>5. Sound(version, schema, rows)' /\ Sound(saved.version, saved.schema, saved.rows)'
  BY <1>1, <1>2, <1>4 DEF Sound
<1>6. Climbing' /\ Descending'
  BY <1>1, <1>2, <1>3, <1>4 DEF Climbing, Descending, SameSecrets
<1>7. Resting' /\ BackfillsMakeRoom'
  BY <1>1, <1>3 DEF Resting, BackfillsMakeRoom
<1> QED
  BY <1>1, <1>2, <1>5, <1>6, <1>7 DEF Inv

LEMMA SoundUp ==
  ASSUME NEW v \in 1..30, NEW s, NEW r, Sound(v - 1, s, r),
         NEW t, t = Upgraded(s, v), NEW q, q = Backfilled(r, v), Admits(t, q)
  PROVE  Sound(v, t, q)
<1>1. Rules(v, t)
  BY RulesUp DEF Sound
<1>2. Sane(q) /\ Obeys(v, q)
  BY RowsUp DEF Sound
<1> QED
  BY <1>1, <1>2 DEF Sound

LEMMA SoundDown ==
  ASSUME NEW v \in 1..30, NEW s, NEW r, Sound(v, s, r),
         NEW t, t = Downgraded(s, v), NEW q, q = Undone(r, v), Admits(t, q)
  PROVE  Sound(v - 1, t, q)
<1>1. Rules(v - 1, t)
  BY RulesDown DEF Sound
<1>2. Sane(q) /\ Obeys(v - 1, q)
  BY RowsDown DEF Sound
<1> QED
  BY <1>1, <1>2 DEF Sound

\* Only 0002 adds its label to a type that rows are looked up by.
LEMMA OnlyBlockedIsNew ==
  ASSUME NEW v \in 1..30, Blocked \in NewLabels(v), DOMAIN schema = Fields
  PROVE  v = 2 /\ \E k \in saved.schema.labels : k[1] = "task_status"
<1>1. /\ Blocked \in Upgraded(schema, v).labels \ schema.labels
      /\ v \in {2, 30} /\ \E k \in saved.schema.labels : k[1] = Blocked[1]
  BY DEF NewLabels
<1>2. v # 30
  <2>1. SUFFICES ASSUME v = 30 PROVE FALSE
    OBVIOUS
  <2>2. Upgraded(schema, v).labels =
          schema.labels \cup Of("notification_type", {"CROSS_TEAM_REQUEST"})
    BY <2>1, UpgradedIs DEF Upgrade0030, Plus, Fields
  <2>3. Blocked \in Of("notification_type", {"CROSS_TEAM_REQUEST"})
    BY <1>1, <2>2
  <2> QED
    BY <2>3 DEF Of, Blocked
<1> QED
  BY <1>1, <1>2 DEF Blocked

LEMMA UpgradeStep ==
  ASSUME Inv, Upgrade
  PROVE  Inv'
<1> PICK v : v = version + 1
  OBVIOUS
<1>1. /\ version < goal /\ goal \in Goals \cup {NoGoal} /\ version \in 0..30
      /\ Sound(version, schema, rows)
  BY DEF Upgrade, Inv, Sound
<1>2. goal \in Goals /\ goal # NoGoal /\ goal \in 0..30
  <2>1. goal # NoGoal
    BY <1>1 DEF NoGoal
  <2> QED
    BY <1>1, <2>1, Bounds
<1>3. v \in 1..30 /\ v - 1 = version /\ v <= goal
  BY <1>1, <1>2
<1>4. /\ version' = v /\ schema' = Upgraded(schema, v) /\ rows' = Backfilled(rows, v)
      /\ Admits(schema', rows') /\ goal' = goal /\ refused' = 0 /\ refused = 0
  BY <1>2 DEF Upgrade, UpgradeRuns, Inv
<1>5. Sound(v, schema', rows')
  BY <1>1, <1>3, <1>4, SoundUp
<1>6. /\ rows \in Rows /\ Rules(version, schema)
      /\ saved = [version |-> saved.version, schema |-> saved.schema, rows |-> saved.rows]
      /\ Sound(saved.version, saved.schema, saved.rows)
      /\ saved.version <= version /\ saved.version \in 0..30
      /\ version < 16 => rows.names = saved.rows.names
      /\ version < 17 => SameSecrets(saved.rows.people, rows.people)
      /\ Blocked \in fresh => saved.version = 1
  BY <1>1 DEF Inv, Sound, Sane, Climbing
<1>7. CASE v = 14
  <2>1. /\ saved' = [version |-> version, schema |-> schema', rows |-> rows] /\ fresh' = {}
    BY <1>7 DEF Upgrade
  <2>2. saved'.version = version /\ saved'.schema = schema' /\ saved'.rows = rows
    BY <2>1
  <2>3. rows' = rows
    BY <1>4, <1>7, BackfilledIs DEF Rewriting
  <2>4. Sound(version, schema', rows)
    <3>1. Rules(version, schema')
      BY <1>3, <1>5, <1>7 DEF Sound, Rules, Known
    <3> QED
      BY <1>1, <1>4, <2>3, <3>1 DEF Sound
  <2>5. Climbing' /\ Descending'
    BY <1>2, <1>3, <1>4, <1>7, <2>1, <2>2, <2>3 DEF Climbing, Descending, SameSecrets
  <2>6. Resting' /\ BackfillsMakeRoom'
    BY <1>2, <1>4 DEF Resting, BackfillsMakeRoom
  <2> QED
    BY <1>2, <1>4, <1>5, <2>1, <2>2, <2>4, <2>5, <2>6 DEF Inv
<1>8. CASE v # 14
  <2>1. saved' = saved /\ fresh' = fresh \cup NewLabels(v)
    BY <1>8 DEF Upgrade
  <2>2. v < 16 => rows'.names = saved.rows.names
    BY <1>3, <1>4, <1>6, NamesStayUp
  <2>3. v < 17 => SameSecrets(saved.rows.people, rows'.people)
    <3>1. SUFFICES ASSUME v < 17 PROVE SameSecrets(saved.rows.people, rows'.people)
      OBVIOUS
    <3>2. v \in 1..16 /\ version < 17
      BY <1>3, <3>1
    <3>3. SameSecrets(rows.people, rows'.people)
      BY <1>4, <1>6, <3>2, SecretsStayUp
    <3> QED
      BY <1>6, <3>2, <3>3 DEF SameSecrets
  <2>4. Blocked \in fresh' => saved.version = 1
    <3>1. SUFFICES ASSUME Blocked \in NewLabels(v) PROVE saved.version = 1
      BY <1>6, <2>1
    <3>2. v = 2 /\ \E k \in saved.schema.labels : k[1] = "task_status"
      BY <1>3, <1>6, <3>1, OnlyBlockedIsNew DEF Rules
    <3>3. saved.version # 0
      BY <1>6, <3>2 DEF Sound, Rules, Statuses, Known
    <3> QED
      BY <1>3, <1>6, <3>2, <3>3
  <2>5. saved.version <= v
    BY <1>3, <1>6
  <2>6. Climbing'
    BY <1>4, <2>1, <2>2, <2>3, <2>4, <2>5 DEF Climbing
  <2>7. Descending'
    BY <1>2, <1>3, <1>4 DEF Descending
  <2>8. Resting' /\ BackfillsMakeRoom'
    BY <1>2, <1>4 DEF Resting, BackfillsMakeRoom
  <2> QED
    BY <1>2, <1>4, <1>5, <1>6, <2>1, <2>6, <2>7, <2>8 DEF Inv
<1> QED
  BY <1>7, <1>8

LEMMA DowngradeStep ==
  ASSUME Inv, Downgrade
  PROVE  Inv'
<1>1. /\ goal # NoGoal /\ version > goal /\ goal \in Goals /\ goal \in 0..30
      /\ version \in 0..30 /\ Sound(version, schema, rows)
  BY Bounds DEF Downgrade, Inv, Sound
<1>2. version \in 1..30 /\ version - 1 >= goal
  BY <1>1
<1>3. /\ version' = version - 1 /\ schema' = Downgraded(schema, version)
      /\ rows' = Undone(rows, version) /\ Admits(schema', rows')
      /\ goal' = goal /\ refused' = 0 /\ saved' = saved
  BY <1>1 DEF Downgrade, DowngradeRuns, Inv
<1>4. Sound(version - 1, schema', rows')
  BY <1>1, <1>2, <1>3, SoundDown
<1>5. /\ rows \in Rows
      /\ saved = [version |-> saved.version, schema |-> saved.schema, rows |-> saved.rows]
      /\ Sound(saved.version, saved.schema, saved.rows) /\ saved.version \in 0..30
      /\ version <= saved.version /\ (version >= 7 => rows.tasks = saved.rows.tasks)
  BY <1>1 DEF Inv, Sound, Sane, Descending
<1>6. Descending'
  <2>1. version - 1 >= 7 => rows'.tasks = saved.rows.tasks
    BY <1>2, <1>3, <1>5, TasksStayDown
  <2> QED
    BY <1>2, <1>3, <1>5, <2>1 DEF Descending
<1>7. Climbing'
  BY <1>1, <1>2, <1>3 DEF Climbing
<1>8. Resting' /\ BackfillsMakeRoom'
  BY <1>1, <1>3 DEF Resting, BackfillsMakeRoom
<1> QED
  BY <1>1, <1>3, <1>4, <1>5, <1>6, <1>7, <1>8 DEF Inv

LEMMA CommitStep ==
  ASSUME Inv, Commit
  PROVE  Inv'
<1>1. /\ version' = version /\ schema' = schema /\ rows' = rows /\ goal' = NoGoal
      /\ saved' = [version |-> version, schema |-> schema, rows |-> rows]
      /\ goal = version /\ refused' = refused
  BY DEF Commit
<1>2. saved'.version = version /\ saved'.schema = schema /\ saved'.rows = rows
  BY <1>1
<1>3. version \in 0..30 /\ Sound(version, schema, rows) /\ refused = 0
  BY <1>1 DEF Inv, Sound, NoGoal
<1>4. Sound(version, schema, rows)' /\ Sound(saved.version, saved.schema, saved.rows)'
  BY <1>1, <1>2, <1>3 DEF Sound
<1>5. Climbing' /\ Descending' /\ Resting' /\ BackfillsMakeRoom'
  BY <1>1, <1>3 DEF Climbing, Descending, Resting, BackfillsMakeRoom, NoGoal
<1> QED
  BY <1>1, <1>2, <1>4, <1>5 DEF Inv

\* What follows a rollback, whatever the reason for it.
LEMMA RolledBack ==
  ASSUME Inv, version' = saved.version, schema' = saved.schema, rows' = saved.rows,
         goal' = NoGoal, saved' = saved, BackfillsMakeRoom'
  PROVE  Inv'
<1>1. /\ saved = [version |-> saved.version, schema |-> saved.schema, rows |-> saved.rows]
      /\ Sound(saved.version, saved.schema, saved.rows) /\ saved.version \in 0..30
  BY DEF Inv, Sound
<1>2. Sound(version, schema, rows)' /\ Sound(saved.version, saved.schema, saved.rows)'
  BY <1>1 DEF Sound
<1>3. Climbing' /\ Descending' /\ Resting'
  BY <1>1 DEF Climbing, Descending, Resting, NoGoal
<1> QED
  BY <1>1, <1>2, <1>3 DEF Inv

LEMMA RefuseStep ==
  ASSUME Inv, Refuse
  PROVE  Inv'
<1>0. /\ version' = saved.version /\ schema' = saved.schema /\ rows' = saved.rows
      /\ goal' = NoGoal /\ saved' = saved
  BY DEF Refuse
<1>1. /\ goal \in Goals /\ goal # NoGoal /\ goal \in 0..30 /\ version \in 0..30
      /\ Sound(version, schema, rows) /\ Rules(version, schema) /\ Sane(rows)
      /\ Admits(schema, rows)
  BY Bounds DEF Refuse, Inv, Sound
<1>2. CASE version < goal /\ ~UpgradeRuns(version + 1) /\ refused' = version + 1
  <2> PICK v : v = version + 1
    OBVIOUS
  <2>1. v \in 1..30 /\ v - 1 = version /\ refused' = v
    BY <1>1, <1>2
  <2>2. /\ saved.version <= version /\ saved.version \in 0..30
        /\ version < 16 => rows.names = saved.rows.names
        /\ version < 17 => SameSecrets(saved.rows.people, rows.people)
        /\ Blocked \in fresh => saved.version = 1
    BY <1>2 DEF Inv, Sound, Climbing
  <2>3. ASSUME v = 7, Blocked \in fresh PROVE BackfillsMakeRoom'
    BY <1>0, <2>1, <2>2, <2>3 DEF BackfillsMakeRoom
  <2>4. ASSUME ~(v = 7 /\ Blocked \in fresh) PROVE BackfillsMakeRoom'
    <3>1. ~Admits(Upgraded(schema, v), Backfilled(rows, v))
      BY <1>2, <2>4 DEF UpgradeRuns, Blocked
    <3>2. \/ v = 16 /\ (ASuffix(rows) \/ TooLong(rows))
          \/ v = 17 /\ ALostSecret(rows)
      BY <1>1, <2>1, <3>1, RoomUp
    <3>3. CASE v = 16 /\ (ASuffix(rows) \/ TooLong(rows))
      <4>1. rows'.names = rows.names
        BY <1>0, <2>1, <2>2, <3>3
      <4>2. rows \in Rows /\ rows' \in Rows
        BY <1>0, <1>1 DEF Inv, Sound, Sane
      <4>3. Suffixed' \/ Overflows'
        BY <3>3, <4>1, <4>2, SameDistinct DEF ASuffix, TooLong, Suffixed, Overflows
      <4> QED
        BY <2>1, <3>3, <4>3 DEF BackfillsMakeRoom
    <3>4. CASE v = 17 /\ ALostSecret(rows)
      <4>1. SameSecrets(rows'.people, rows.people)
        BY <1>0, <2>1, <2>2, <3>4
      <4>2. ALostSecret(rows')
        BY <3>4, <4>1 DEF ALostSecret, SameSecrets
      <4> QED
        BY <2>1, <3>4, <4>2 DEF ALostSecret, BackfillsMakeRoom
    <3> QED
      BY <3>2, <3>3, <3>4
  <2> QED
    BY <1>0, <2>3, <2>4, RolledBack
<1>3. CASE version > goal /\ ~DowngradeRuns(version) /\ refused' = version
  <2>1. /\ version \in 1..30 /\ version <= saved.version /\ saved.version \in 0..30
        /\ version >= 7 => rows.tasks = saved.rows.tasks
    BY <1>1, <1>3 DEF Inv, Sound, Descending
  <2>2. ASSUME version = 3 PROVE BackfillsMakeRoom'
    BY <1>0, <1>3, <2>1, <2>2 DEF BackfillsMakeRoom
  <2>3. ASSUME version # 3 PROVE BackfillsMakeRoom'
    <3>1. \/ ~Admits(Downgraded(schema, version), Undone(rows, version))
          \/ version = 7 /\ ~StatusesFit(Downgraded(schema, version), rows.tasks)
      BY <1>3, <2>3 DEF DowngradeRuns
    <3>2. version = 7 /\ InReview(rows)
      BY <1>1, <2>1, <3>1, RoomDown
    <3>3. InReview(rows')
      BY <1>0, <2>1, <3>2 DEF InReview
    <3> QED
      BY <1>0, <1>3, <2>1, <3>2, <3>3 DEF InReview, BackfillsMakeRoom
  <2> QED
    BY <1>0, <2>2, <2>3, RolledBack
<1> QED
  BY <1>2, <1>3 DEF Refuse

LEMMA InterruptStep ==
  ASSUME Inv, Interrupt
  PROVE  Inv'
<1>1. BackfillsMakeRoom'
  BY DEF Interrupt, Inv, BackfillsMakeRoom
<1> QED
  BY <1>1, RolledBack DEF Interrupt

\* The member and the user that a sign-up adds.
Joined == [Newcomer EXCEPT !.secret = None, !.user = Newcomer.email]
SignedUp == [email |-> Newcomer.email, secret |-> Newcomer.secret]

\* Whoever signs up disturbs nobody: the user is new, and so is its key.
LEMMA Welcome ==
  ASSUME NEW x \in Seq(Person), NEW users, users \subseteq User,
         \A a \in users : a.email # Newcomer.email,
         \A i \in DOMAIN x : x[i].email # Newcomer.email,
         Addressed(x), FoundersLead(x), HumansHaveUsers(x, users),
         NEW y, y = Append(x, Joined), NEW all, all = users \cup {SignedUp}
  PROVE  /\ y \in Seq(Person) /\ all \subseteq User /\ Addressed(y) /\ FoundersLead(y)
         /\ HumansHaveUsers(y, all)
         /\ \A s : UsersFit(s, users) => UsersFit(s, all)
         /\ \A s : HumanCheck \in s.checks /\ PeopleFit(s, x) => PeopleFit(s, y)
<1> PICK p : p = Joined
  OBVIOUS
<1> PICK u : u = SignedUp
  OBVIOUS
<1>1. /\ Newcomer \in Person /\ Newcomer.type = "HUMAN" /\ Newcomer.email # None
      /\ Newcomer.role # "MEMBER" /\ Newcomer.secret \in {"password", "oauth"}
  BY MigrationsAssumption
<1>2. /\ p \in Person /\ p.type = "HUMAN" /\ p.email = Newcomer.email /\ p.secret = None
      /\ p.user = Newcomer.email /\ p.role # "MEMBER" /\ p.workspace = Newcomer.workspace
  BY <1>1 DEF Person, Joined
<1>3. u \in User /\ u.email = Newcomer.email /\ u.secret \in {"password", "oauth"}
  BY <1>1 DEF Person, User, SignedUp
<1>4. PICK n : n = Len(x) + 1
  OBVIOUS
<1>5. /\ y \in Seq(Person) /\ n \in Nat /\ DOMAIN x = 1..(n - 1)
      /\ DOMAIN y = 1..n /\ y[n] = p /\ \A i \in DOMAIN x : y[i] = x[i]
  BY <1>2, <1>4
<1>6. DOMAIN y = DOMAIN x \cup {n} /\ n \notin DOMAIN x /\ n \in DOMAIN y
  BY <1>5
<1>7. Addressed(y)
  <2>1. SUFFICES ASSUME NEW i \in DOMAIN y, y[i].type = "HUMAN"
                 PROVE  /\ y[i].email # None /\ y[i].secret # "agent"
                        /\ \A j \in DOMAIN y \ {i} :
                             <<y[j].workspace, y[j].email>> # <<y[i].workspace, y[i].email>>
    BY DEF Addressed
  <2>2. CASE i = n
    BY <1>1, <1>2, <1>5, <1>6, <2>2 DEF None
  <2>3. CASE i # n
    <3>1. i \in DOMAIN x /\ x[i].type = "HUMAN" /\ y[i] = x[i]
      BY <1>5, <1>6, <2>1, <2>3
    <3>2. /\ x[i].email # None /\ x[i].secret # "agent"
          /\ \A j \in DOMAIN x \ {i} :
               <<x[j].workspace, x[j].email>> # <<x[i].workspace, x[i].email>>
      BY <3>1 DEF Addressed
    <3>3. x[i].email # y[n].email
      BY <1>2, <1>5, <3>1
    <3> QED
      BY <1>5, <1>6, <3>1, <3>2, <3>3
  <2> QED
    BY <2>2, <2>3
<1>8. FoundersLead(y)
  <2>1. SUFFICES ASSUME NEW i \in DOMAIN y, Founder(y, i) PROVE y[i].role # "MEMBER"
    BY DEF FoundersLead
  <2>2. CASE i = n
    BY <1>2, <1>5, <2>2
  <2>3. CASE i # n
    <3>1. i \in DOMAIN x /\ y[i] = x[i] /\ \A j \in 1..(i - 1) : y[j] = x[j]
      BY <1>5, <1>6, <2>1, <2>3
    <3>2. Founder(x, i)
      BY <2>1, <3>1 DEF Founder
    <3> QED
      BY <3>1, <3>2 DEF FoundersLead
  <2> QED
    BY <2>2, <2>3
<1>9. HumansHaveUsers(y, all)
  <2>1. SUFFICES ASSUME NEW i \in DOMAIN y, y[i].type = "HUMAN"
                 PROVE  \E a \in all : a.email = y[i].user /\ a.secret # None
    BY DEF HumansHaveUsers
  <2>2. CASE i = n
    <3>1. u \in all /\ u.email = y[i].user /\ u.secret # None
      BY <1>2, <1>3, <1>5, <2>2 DEF None
    <3> QED
      BY <3>1
  <2>3. CASE i # n
    <3>1. i \in DOMAIN x /\ x[i].type = "HUMAN" /\ y[i] = x[i]
      BY <1>5, <1>6, <2>1, <2>3
    <3> QED
      BY <3>1 DEF HumansHaveUsers
  <2> QED
    BY <2>2, <2>3
<1>10. ASSUME NEW s, UsersFit(s, users) PROVE UsersFit(s, all)
  BY <1>3, <1>10 DEF UsersFit, None
<1>11. ASSUME NEW s, HumanCheck \in s.checks, PeopleFit(s, x) PROVE PeopleFit(s, y)
  <2>1. \A i \in DOMAIN x : x[i].type = "HUMAN" <=> x[i].user # None
    BY <1>11 DEF PeopleFit
  <2>2. \A i \in DOMAIN x : x[i].user # Newcomer.email
    <3>1. SUFFICES ASSUME NEW i \in DOMAIN x, x[i].user = Newcomer.email PROVE FALSE
      OBVIOUS
    <3>2. x[i].type = "HUMAN"
      BY <1>1, <2>1, <3>1
    <3>3. PICK a \in users : a.email = x[i].user
      BY <3>2 DEF HumansHaveUsers
    <3> QED
      BY <3>1, <3>3
  <2>3. \A i \in DOMAIN y : y[i].type = "HUMAN" <=> y[i].user # None
    BY <1>1, <1>2, <1>5, <1>6, <2>1
  <2>4. ASSUME UserKey \in s.unique,
               NEW i \in DOMAIN y, NEW j \in DOMAIN y, i # j, y[i].user # None
        PROVE  <<y[i].workspace, y[i].user>> # <<y[j].workspace, y[j].user>>
    <3>1. CASE i # n /\ j # n
      <4>1. i \in DOMAIN x /\ j \in DOMAIN x /\ y[i] = x[i] /\ y[j] = x[j]
        BY <1>5, <1>6, <2>4, <3>1
      <4> QED
        BY <1>11, <2>4, <4>1 DEF PeopleFit
    <3>2. CASE i = n \/ j = n
      BY <1>2, <1>5, <1>6, <2>2, <2>4, <3>2
    <3> QED
      BY <3>1, <3>2
  <2>5. UserKey \in s.unique =>
          \A i, j \in DOMAIN y : i # j /\ y[i].user # None =>
            <<y[i].workspace, y[i].user>> # <<y[j].workspace, y[j].user>>
    BY <2>4
  <2> QED
    BY <2>3, <2>5 DEF PeopleFit
<1> QED
  BY <1>3, <1>5, <1>7, <1>8, <1>9, <1>10, <1>11

LEMMA SignUpStep ==
  ASSUME Inv, SignUp
  PROVE  Inv'
<1>1. /\ goal = NoGoal /\ version >= 17 /\ goal' = goal /\ version' = version
      /\ schema' = schema /\ refused' = refused /\ saved' = [saved EXCEPT !.rows = rows']
      /\ \A u \in rows.users : u.email # Newcomer.email
      /\ \A i \in DOMAIN rows.people : rows.people[i].email # Newcomer.email
  BY DEF SignUp
<1>2. /\ saved = [version |-> version, schema |-> schema, rows |-> rows]
      /\ version \in 0..30 /\ Rules(version, schema) /\ Sane(rows) /\ Admits(schema, rows)
      /\ Obeys(version, rows)
  BY <1>1 DEF Inv, Resting, Sound
<1>3. saved' = [version |-> version, schema |-> schema, rows |-> rows']
  BY <1>1, <1>2
<1>5. PICK y : y = Append(rows.people, Joined)
  OBVIOUS
<1>7. PICK all : all = rows.users \cup {SignedUp}
  OBVIOUS
<1>8. rows' = [rows EXCEPT !.people = y, !.users = all]
  BY <1>5, <1>7 DEF SignUp, Joined, SignedUp
<1>9. /\ rows \in Rows /\ rows.people \in Seq(Person) /\ rows.users \subseteq User
      /\ Addressed(rows.people) /\ Somebody(rows.heads, rows.places)
      /\ FoundersLead(rows.people) /\ HumansHaveUsers(rows.people, rows.users)
  <2>1. /\ rows \in Rows /\ Addressed(rows.people) /\ Somebody(rows.heads, rows.places)
        /\ FoundersLead(rows.people) /\ HumansHaveUsers(rows.people, rows.users)
    BY <1>1, <1>2 DEF Sane, Obeys
  <2> QED
    BY <2>1, TablesOf
<1>10. /\ y \in Seq(Person) /\ all \subseteq User /\ Addressed(y) /\ FoundersLead(y)
       /\ HumansHaveUsers(y, all)
       /\ \A s : UsersFit(s, rows.users) => UsersFit(s, all)
       /\ \A s : HumanCheck \in s.checks /\ PeopleFit(s, rows.people) => PeopleFit(s, y)
  <2>1. PICK x : x = rows.people
    OBVIOUS
  <2>2. PICK users : users = rows.users
    OBVIOUS
  <2>3. /\ x \in Seq(Person) /\ users \subseteq User
        /\ \A a \in users : a.email # Newcomer.email
        /\ \A i \in DOMAIN x : x[i].email # Newcomer.email
        /\ Addressed(x) /\ FoundersLead(x) /\ HumansHaveUsers(x, users)
        /\ y = Append(x, Joined) /\ all = users \cup {SignedUp}
    BY <1>1, <1>5, <1>7, <1>9, <2>1, <2>2
  <2>4. /\ y \in Seq(Person) /\ all \subseteq User /\ Addressed(y) /\ FoundersLead(y)
        /\ HumansHaveUsers(y, all)
        /\ \A s : UsersFit(s, users) => UsersFit(s, all)
        /\ \A s : HumanCheck \in s.checks /\ PeopleFit(s, x) => PeopleFit(s, y)
    BY <2>3, Welcome
  <2> QED
    BY <2>1, <2>2, <2>4
<1>11. /\ rows' \in Rows /\ rows'.people = y /\ rows'.users = all
       /\ Kept(rows, rows', {"people", "users"})
  <2>1. PICK r : r = rows
    OBVIOUS
  <2>2. PICK q : q = rows'
    OBVIOUS
  <2>3. r \in Rows /\ y \in Seq(Person) /\ all \subseteq User
    BY <1>9, <1>10, <2>1
  <2>4. q = [r EXCEPT !.people = y, !.users = all]
    BY <1>8, <2>1, <2>2
  <2>5. q \in Rows /\ q.people = y /\ q.users = all /\ Kept(r, q, {"people", "users"})
    BY <2>3, <2>4 DEF Rows, Kept, Tables
  <2> QED
    BY <2>1, <2>2, <2>5
<1>12. /\ rows'.names = rows.names /\ rows'.tasks = rows.tasks /\ rows'.next = rows.next
       /\ rows'.places = rows.places /\ rows'.heads = rows.heads
  BY <1>11 DEF Kept, Tables
<1>13. Sane(rows')
  BY <1>9, <1>10, <1>11, <1>12 DEF Sane
<1>14. Obeys(version, rows')
  BY <1>1, <1>2, <1>10, <1>11, <1>12 DEF Obeys
<1>15. Admits(schema, rows')
  <2>1. HumanCheck \in schema.checks
    BY <1>1, <1>2 DEF Rules
  <2> QED
    BY <1>2, <1>10, <1>11, <1>12, <2>1 DEF Admits
<1>16. Sound(version, schema, rows')
  BY <1>2, <1>13, <1>14, <1>15 DEF Sound
<1>17. saved'.version = version /\ saved'.schema = schema /\ saved'.rows = rows'
  BY <1>3
<1>18. Climbing' /\ Descending' /\ Resting'
  BY <1>1, <1>2, <1>3 DEF Climbing, Descending, Resting, NoGoal
<1>19. BackfillsMakeRoom'
  <2>1. BackfillsMakeRoom
    BY DEF Inv
  <2>2. (Suffixed => Suffixed') /\ (Overflows => Overflows')
    <3>1. rows \in Rows /\ rows' \in Rows
      BY <1>9, <1>11
    <3> QED
      BY <1>12, <3>1, SameDistinct DEF Suffixed, Overflows
  <2>3. ASSUME NEW i \in DOMAIN rows.people
        PROVE  i \in DOMAIN rows'.people /\ rows'.people[i] = rows.people[i]
    BY <1>5, <1>9, <1>11
  <2> QED
    BY <1>1, <1>12, <2>1, <2>2, <2>3 DEF BackfillsMakeRoom
<1> QED
  BY <1>1, <1>3, <1>16, <1>17, <1>18, <1>19 DEF Inv

LEMMA StutterStep ==
  ASSUME Inv, UNCHANGED vars
  PROVE  Inv'
BY DEF vars, Inv, Resting, Climbing, Descending, BackfillsMakeRoom, Suffixed, Overflows,
       DistinctNames

LEMMA Invariance == Spec => []Inv
<1>1. Inv /\ [Next]_vars => Inv'
  BY BeginStep, UpgradeStep, DowngradeStep, CommitStep, RefuseStep, InterruptStep, SignUpStep,
     StutterStep DEF Next
<1> QED
  BY InitInv, <1>1, PTL DEF Spec

(***************************************************************************)
(* What the program of a version takes for granted holds of every row of   *)
(* every older database, whatever commands were run, refused, interrupted  *)
(* or reverted on the way, and whoever signed up in between: task numbers  *)
(* below their counter, founders with more than a member's role, a user    *)
(* with a secret for every human, department heads on no team and once.    *)
(***************************************************************************)
THEOREM OldRowsObey == Spec => []OldRowsObeyNewRules
<1>1. Inv => OldRowsObeyNewRules
  BY DEF Inv, Sound, OldRowsObeyNewRules
<1> QED
  BY Invariance, <1>1, PTL

(***************************************************************************)
(* No revision is refused by rows that the revision before it admits, but  *)
(* in the cases that BackfillsMakeRoom names: its list is complete for any *)
(* number of workspaces, tasks, people, teams and departments.             *)
(***************************************************************************)
THEOREM BackfillsAlwaysMakeRoom == Spec => []BackfillsMakeRoom
<1>1. Inv => BackfillsMakeRoom
  BY DEF Inv
<1> QED
  BY Invariance, <1>1, PTL

-----------------------------------------------------------------------------
(***************************************************************************)
(* Schemas, item by item: columns, keys, references and checks.  Labels    *)
(* are apart, because PostgreSQL cannot take one back.                     *)
(***************************************************************************)
Items == Fields \ {"labels"}

\* What revision v makes of a schema that has nothing: its new items.
Added(v) == Upgraded(NoSchema, v)

LEMMA Nothing == DOMAIN NoSchema = Fields /\ \A f \in Fields : NoSchema[f] = {}
BY DEF NoSchema, Fields

LEMMA PlusItems ==
  ASSUME NEW s, DOMAIN s = Fields, NEW c, NEW f \in Items
  PROVE  Plus(s, c)[f] = s[f] \cup Plus(NoSchema, c)[f]
BY Nothing DEF Plus, Items

LEMMA PlusFields ==
  ASSUME NEW s, DOMAIN s = Fields, NEW c
  PROVE  DOMAIN Plus(s, c) = Fields
BY DEF Plus

LEMMA RetypedItems ==
  ASSUME NEW s, DOMAIN s = Fields, NEW type, NEW names
  PROVE  /\ DOMAIN Retyped(s, type, names) = Fields
         /\ \A f \in Items : Retyped(s, type, names)[f] = s[f]
BY DEF Retyped, WithoutType, Plus, Fields, Items

\* t is s and a.
Sum(s, a, t) == DOMAIN t = Fields /\ \A f \in Items : t[f] = s[f] \cup a[f]

\* All revisions but two only add items.
LEMMA UpgradesSum ==
  ASSUME NEW s, DOMAIN s = Fields, NEW v \in (1..30) \ {3, 29}
  PROVE  Sum(s, Added(v), Upgraded(s, v))
<1> USE UpgradedIs
<1>1. Sum(s, Added(1), Upgraded(s, 1))
  BY Nothing, PlusItems, PlusFields DEF Sum, Added, Upgrade0001
<1>2. Sum(s, Added(2), Upgraded(s, 2))
  BY Nothing, PlusItems, PlusFields DEF Sum, Added, Upgrade0002
<1>4. Sum(s, Added(4), Upgraded(s, 4))
  BY Nothing, PlusItems, PlusFields DEF Sum, Added, Upgrade0004
<1>5. Sum(s, Added(5), Upgraded(s, 5))
  BY Nothing, PlusItems, PlusFields DEF Sum, Added, Upgrade0005
<1>6. Sum(s, Added(6), Upgraded(s, 6))
  BY Nothing, PlusItems, PlusFields DEF Sum, Added, Upgrade0006
<1>7. Sum(s, Added(7), Upgraded(s, 7))
  BY Nothing, RetypedItems, PlusItems, PlusFields DEF Sum, Added, Upgrade0007
<1>8. Sum(s, Added(8), Upgraded(s, 8))
  BY Nothing, PlusItems, PlusFields DEF Sum, Added, Upgrade0008
<1>9. Sum(s, Added(9), Upgraded(s, 9))
  BY Nothing, PlusItems, PlusFields DEF Sum, Added, Upgrade0009
<1>10. Sum(s, Added(10), Upgraded(s, 10))
  BY Nothing, PlusItems, PlusFields DEF Sum, Added, Upgrade0010
<1>11. Sum(s, Added(11), Upgraded(s, 11))
  BY Nothing, PlusItems, PlusFields DEF Sum, Added, Upgrade0011
<1>12. Sum(s, Added(12), Upgraded(s, 12))
  BY Nothing, PlusItems, PlusFields DEF Sum, Added, Upgrade0012
<1>14. Sum(s, Added(14), Upgraded(s, 14))
  BY Nothing, PlusItems, PlusFields DEF Sum, Added, Upgrade0014
<1>15. Sum(s, Added(15), Upgraded(s, 15))
  BY Nothing, PlusItems, PlusFields DEF Sum, Added, Upgrade0015
<1>16. Sum(s, Added(16), Upgraded(s, 16))
  BY Nothing, PlusItems, PlusFields DEF Sum, Added, Upgrade0016
<1>17. Sum(s, Added(17), Upgraded(s, 17))
  BY Nothing, PlusItems, PlusFields DEF Sum, Added, Upgrade0017
<1>18. Sum(s, Added(18), Upgraded(s, 18))
  <2>1. DOMAIN Upgraded(s, 18) = Fields
    BY RetypedItems DEF Upgrade0018
  <2>2. \A f \in Items : Upgraded(s, 18)[f] = s[f]
    BY RetypedItems DEF Upgrade0018
  <2>3. \A f \in Items : Added(18)[f] = {}
    BY Nothing, RetypedItems DEF Added, Upgrade0018, Items
  <2> QED
    BY <2>1, <2>2, <2>3 DEF Sum
<1>19. Sum(s, Added(19), Upgraded(s, 19))
  BY Nothing, PlusItems, PlusFields DEF Sum, Added, Upgrade0019
<1>20. Sum(s, Added(20), Upgraded(s, 20))
  BY Nothing, PlusItems, PlusFields DEF Sum, Added, Upgrade0020
<1>21. Sum(s, Added(21), Upgraded(s, 21))
  <2>1. PICK c : c = [
          required |-> Of("audit_logs", {"id", "workspace_id", "action", "resource_type",
                                         "changes", "created_at"}),
          nullable |-> Of("audit_logs", {"actor_member_id", "resource_id"}),
          refs |-> {<<"audit_logs", "workspace_id", "workspaces", "CASCADE">>,
                    <<"audit_logs", "actor_member_id", "members", "SET_NULL">>}]
    OBVIOUS
  <2>2. PICK t : t = Retyped(s, "member_role",
          (Labels(s, "member_role") \ {"WORKSPACE_MEMBER"}) \cup {"WORKSPACE_USER"})
    OBVIOUS
  <2>3. PICK u : u = Retyped(NoSchema, "member_role",
          (Labels(NoSchema, "member_role") \ {"WORKSPACE_MEMBER"}) \cup {"WORKSPACE_USER"})
    OBVIOUS
  <2>4. DOMAIN t = Fields /\ \A f \in Items : t[f] = s[f]
    BY <2>2, RetypedItems
  <2>5. DOMAIN u = Fields /\ \A f \in Items : u[f] = {}
    BY <2>3, Nothing, RetypedItems DEF Items
  <2>6. Upgraded(s, 21) = Plus(t, c) /\ Added(21) = Plus(u, c)
    BY <2>1, <2>2, <2>3 DEF Upgrade0021, Added
  <2> QED
    BY <2>4, <2>5, <2>6, PlusItems, PlusFields DEF Sum
<1>22. Sum(s, Added(22), Upgraded(s, 22))
  BY Nothing, RetypedItems, PlusItems, PlusFields DEF Sum, Added, Upgrade0022
<1>23. Sum(s, Added(23), Upgraded(s, 23))
  BY Nothing, PlusItems, PlusFields DEF Sum, Added, Upgrade0023
<1>24. Sum(s, Added(24), Upgraded(s, 24))
  BY Nothing, PlusItems, PlusFields DEF Sum, Added, Upgrade0024
<1>26. Sum(s, Added(26), Upgraded(s, 26))
  BY Nothing, PlusItems, PlusFields DEF Sum, Added, Upgrade0026
<1>27. Sum(s, Added(27), Upgraded(s, 27))
  BY Nothing, PlusItems, PlusFields DEF Sum, Added, Upgrade0027
<1>28. Sum(s, Added(28), Upgraded(s, 28))
  BY Nothing, PlusItems, PlusFields DEF Sum, Added, Upgrade0028
<1>30. Sum(s, Added(30), Upgraded(s, 30))
  BY Nothing, PlusItems, PlusFields DEF Sum, Added, Upgrade0030
<1>31. Sum(s, Added(13), Upgraded(s, 13)) /\ Sum(s, Added(25), Upgraded(s, 25))
  BY Nothing DEF Sum, Added, Items
<1> QED
  BY <1>1, <1>2, <1>4, <1>5, <1>6, <1>7, <1>8, <1>9, <1>10, <1>11, <1>12, <1>14, <1>15,
     <1>16, <1>17, <1>18, <1>19, <1>20, <1>21, <1>22, <1>23, <1>24, <1>26, <1>27, <1>28,
     <1>30, <1>31

(***************************************************************************)
(* Each item is new at one revision, and its downgrade takes nothing else. *)
(***************************************************************************)
NewTables ==
  {<<1, "workspaces">>, <<1, "teams">>, <<1, "members">>, <<1, "credentials">>, <<1, "tasks">>,
   <<4, "invites">>, <<5, "task_ratings">>, <<8, "task_comments">>, <<9, "task_relations">>,
   <<10, "projects">>, <<11, "task_activities">>, <<15, "task_requests">>, <<17, "users">>,
   <<19, "notifications">>, <<20, "departments">>, <<21, "audit_logs">>,
   <<29, "agent_api_keys">>}

NewColumns ==
  {<<2, <<"tasks", "blocked_reason">>>>, <<4, <<"members", "role">>>>,
   <<5, <<"tasks", "tokens_used">>>>, <<5, <<"tasks", "completed_at">>>>,
   <<5, <<"members", "model">>>>, <<6, <<"members", "last_seen_at">>>>,
   <<7, <<"tasks", "is_blocked">>>>, <<7, <<"tasks", "seq">>>>,
   <<7, <<"workspaces", "next_task_seq">>>>, <<7, <<"workspaces", "task_prefix">>>>,
   <<10, <<"tasks", "team_id">>>>, <<10, <<"tasks", "project_id">>>>,
   <<12, <<"members", "team_role">>>>, <<17, <<"members", "user_id">>>>,
   <<20, <<"members", "is_suspended">>>>, <<20, <<"teams", "description">>>>,
   <<20, <<"teams", "department_id">>>>, <<22, <<"departments", "head_id">>>>,
   <<26, <<"users", "is_superadmin">>>>, <<27, <<"workspaces", "suspended_at">>>>,
   <<28, <<"users", "sessions_invalidated_at">>>>, <<28, <<"users", "is_banned">>>>}

NewKeys ==
  {<<7, SeqKey>>, <<16, NameKey>>, <<17, UserKey>>, <<23, HeadKey>>,
   <<24, RankKey("MANAGER")>>, <<24, RankKey("LEAD")>>}

\* Item x of field f is new at revision v.
New(v, f, x) ==
  \/ <<v, x[1]>> \in NewTables
  \/ f \in {"required", "nullable"} /\ <<v, x>> \in NewColumns
  \/ f = "refs" /\ <<v, <<x[1], x[2]>>>> \in NewColumns
  \/ f = "unique" /\ \E c \in x[2] : <<v, <<x[1], c>>>> \in NewColumns
  \/ f = "unique" /\ <<v, x>> \in NewKeys
  \/ f = "checks" /\ v = 17 /\ x[1] = "members" /\ x[2] = "members_human_has_user"

\* Item x of field f is on one of the columns named.
On(f, x, table, names) ==
  \/ f \in {"required", "nullable"} /\ \E c \in names : x = <<table, c>>
  \/ f = "refs" /\ x[1] = table /\ x[2] \in names
  \/ f = "unique" /\ x[1] = table /\ \E c \in names : c \in x[2]

LEMMA WithoutTableItems ==
  ASSUME NEW s, DOMAIN s = Fields, NEW table
  PROVE  /\ DOMAIN WithoutTable(s, table) = Fields
         /\ \A f \in Items : \A x :
              x \in WithoutTable(s, table)[f] <=> x \in s[f] /\ x[1] # table
BY DEF WithoutTable, Items, Fields

LEMMA WithoutColumnsItems ==
  ASSUME NEW s, DOMAIN s = Fields, NEW table, NEW names
  PROVE  /\ DOMAIN WithoutColumns(s, table, names) = Fields
         /\ \A f \in Items : \A x :
              x \in WithoutColumns(s, table, names)[f] <=> x \in s[f] /\ ~On(f, x, table, names)
<1>1. PICK t : t = WithoutColumns(s, table, names)
  OBVIOUS
<1>2. /\ DOMAIN t = Fields
      /\ t.required = s.required \ Of(table, names) /\ t.nullable = s.nullable \ Of(table, names)
      /\ t.unique = {k \in s.unique : ~(k[1] = table /\ k[2] \cap names # {})}
      /\ t.refs = {r \in s.refs : ~(r[1] = table /\ r[2] \in names)}
      /\ t.checks = s.checks
  BY <1>1 DEF WithoutColumns, Fields
<1>3. \A x : x \in Of(table, names) <=> \E c \in names : x = <<table, c>>
  BY DEF Of
<1>4. ASSUME NEW f \in Items, NEW x
      PROVE  x \in t[f] <=> x \in s[f] /\ ~On(f, x, table, names)
  <2>1. CASE f \in {"required", "nullable"}
    BY <1>2, <1>3, <2>1 DEF On
  <2>2. CASE f = "unique"
    BY <1>2, <2>2 DEF On
  <2>3. CASE f = "refs"
    BY <1>2, <2>3 DEF On
  <2>4. CASE f = "checks"
    BY <1>2, <2>4 DEF On
  <2> QED
    BY <2>1, <2>2, <2>3, <2>4 DEF Items, Fields
<1> QED
  BY <1>1, <1>2, <1>4

LEMMA WithoutCheckItems ==
  ASSUME NEW s, DOMAIN s = Fields, NEW table, NEW name
  PROVE  /\ DOMAIN WithoutCheck(s, table, name) = Fields
         /\ \A f \in Items : \A x :
              x \in WithoutCheck(s, table, name)[f] <=>
                x \in s[f] /\ ~(f = "checks" /\ x[1] = table /\ x[2] = name)
BY DEF WithoutCheck, Items, Fields

LEMMA MinusKeys ==
  ASSUME NEW s, DOMAIN s = Fields, NEW keys
  PROVE  /\ DOMAIN Minus(s, [unique |-> keys]) = Fields
         /\ \A f \in Items : \A x :
              x \in Minus(s, [unique |-> keys])[f] <=> x \in s[f] /\ ~(f = "unique" /\ x \in keys)
BY DEF Minus, Items, Fields

LEMMA WithoutTypeItems ==
  ASSUME NEW s, DOMAIN s = Fields, NEW type
  PROVE  /\ DOMAIN WithoutType(s, type) = Fields
         /\ \A f \in Items : WithoutType(s, type)[f] = s[f]
BY DEF WithoutType, Items, Fields

\* t is s without what is new at v.
Sifted(v, s, t) ==
  /\ DOMAIN t = Fields
  /\ \A f \in Items : \A x : x \in t[f] <=> x \in s[f] /\ ~New(v, f, x)

LEMMA DowngradesSift ==
  ASSUME NEW s, DOMAIN s = Fields, NEW v \in (1..30) \ {3, 29}
  PROVE  Sifted(v, s, Downgraded(s, v))
<1> USE DowngradedIs
    DEF NewTables, NewColumns, NewKeys, NameKey, SeqKey, UserKey, RankKey, HeadKey, Key, On
<1>1. Sifted(1, s, Downgraded(s, 1))
  BY WithoutTableItems, WithoutTypeItems DEF Sifted, New, Downgrade0001
<1>2. Sifted(2, s, Downgraded(s, 2))
  BY WithoutColumnsItems DEF Sifted, New, Downgrade0002
<1>4. Sifted(4, s, Downgraded(s, 4))
  BY WithoutTableItems, WithoutColumnsItems, WithoutTypeItems DEF Sifted, New, Downgrade0004
<1>5. Sifted(5, s, Downgraded(s, 5))
  BY WithoutTableItems, WithoutColumnsItems DEF Sifted, New, Downgrade0005
<1>6. Sifted(6, s, Downgraded(s, 6))
  BY WithoutColumnsItems DEF Sifted, New, Downgrade0006
<1>7. Sifted(7, s, Downgraded(s, 7))
  BY RetypedItems, MinusKeys, WithoutColumnsItems DEF Sifted, New, Downgrade0007
<1>8. Sifted(8, s, Downgraded(s, 8))
  BY WithoutTableItems DEF Sifted, New, Downgrade0008
<1>9. Sifted(9, s, Downgraded(s, 9))
  BY WithoutTableItems, WithoutTypeItems DEF Sifted, New, Downgrade0009
<1>10. Sifted(10, s, Downgraded(s, 10))
  BY WithoutColumnsItems, WithoutTableItems, WithoutTypeItems DEF Sifted, New, Downgrade0010
<1>11. Sifted(11, s, Downgraded(s, 11))
  BY WithoutTableItems DEF Sifted, New, Downgrade0011
<1>12. Sifted(12, s, Downgraded(s, 12))
  BY WithoutColumnsItems, WithoutTypeItems DEF Sifted, New, Downgrade0012
<1>15. Sifted(15, s, Downgraded(s, 15))
  BY WithoutTableItems DEF Sifted, New, Downgrade0015
<1>16. Sifted(16, s, Downgraded(s, 16))
  BY MinusKeys DEF Sifted, New, Downgrade0016
<1>17. Sifted(17, s, Downgraded(s, 17))
  BY MinusKeys, WithoutCheckItems, WithoutColumnsItems, WithoutTableItems
  DEF Sifted, New, Downgrade0017
<1>18. Sifted(18, s, Downgraded(s, 18))
  BY RetypedItems DEF Sifted, New, Downgrade0018
<1>19. Sifted(19, s, Downgraded(s, 19))
  BY WithoutTableItems, WithoutTypeItems DEF Sifted, New, Downgrade0019
<1>20. Sifted(20, s, Downgraded(s, 20))
  BY WithoutColumnsItems, WithoutTableItems DEF Sifted, New, Downgrade0020
<1>21. Sifted(21, s, Downgraded(s, 21))
  <2>1. PICK t : t = WithoutTable(s, "audit_logs")
    OBVIOUS
  <2>2. PICK names :
          names = (Labels(s, "member_role") \ {"WORKSPACE_USER"}) \cup {"WORKSPACE_MEMBER"}
    OBVIOUS
  <2>3. Downgraded(s, 21) = Retyped(t, "member_role", names)
    BY <2>1, <2>2 DEF Downgrade0021
  <2>4. /\ DOMAIN t = Fields
        /\ \A f \in Items : \A x : x \in t[f] <=> x \in s[f] /\ x[1] # "audit_logs"
    BY <2>1, WithoutTableItems
  <2> QED
    BY <2>3, <2>4, RetypedItems DEF Sifted, New
<1>22. Sifted(22, s, Downgraded(s, 22))
  BY RetypedItems, WithoutColumnsItems DEF Sifted, New, Downgrade0022
<1>23. Sifted(23, s, Downgraded(s, 23))
  BY MinusKeys DEF Sifted, New, Downgrade0023
<1>24. Sifted(24, s, Downgraded(s, 24))
  BY MinusKeys DEF Sifted, New, Downgrade0024
<1>26. Sifted(26, s, Downgraded(s, 26))
  BY WithoutColumnsItems DEF Sifted, New, Downgrade0026
<1>27. Sifted(27, s, Downgraded(s, 27))
  BY WithoutColumnsItems DEF Sifted, New, Downgrade0027
<1>28. Sifted(28, s, Downgraded(s, 28))
  BY WithoutColumnsItems DEF Sifted, New, Downgrade0028
<1>31. /\ Sifted(13, s, Downgraded(s, 13)) /\ Sifted(14, s, Downgraded(s, 14))
       /\ Sifted(25, s, Downgraded(s, 25)) /\ Sifted(30, s, Downgraded(s, 30))
  BY DEF Sifted, New
<1> QED
  BY <1>1, <1>2, <1>4, <1>5, <1>6, <1>7, <1>8, <1>9, <1>10, <1>11, <1>12, <1>15, <1>16,
     <1>17, <1>18, <1>19, <1>20, <1>21, <1>22, <1>23, <1>24, <1>26, <1>27, <1>28, <1>31

\* What the revisions that replace a type add besides.
Numbers ==
  [required |-> Of("workspaces", {"task_prefix", "next_task_seq"})
                  \cup Of("tasks", {"seq", "is_blocked"}),
   unique |-> {Key("tasks", {"workspace_id", "seq"})}]
Audits ==
  [required |-> Of("audit_logs", {"id", "workspace_id", "action", "resource_type",
                                  "changes", "created_at"}),
   nullable |-> Of("audit_logs", {"actor_member_id", "resource_id"}),
   refs |-> {<<"audit_logs", "workspace_id", "workspaces", "CASCADE">>,
             <<"audit_logs", "actor_member_id", "members", "SET_NULL">>}]
Heads ==
  [nullable |-> Of("departments", {"head_id"}),
   refs |-> {<<"departments", "head_id", "members", "SET_NULL">>}]

LEMMA RetypedAdds ==
  ASSUME NEW f \in Items
  PROVE  /\ Added(7)[f] = Plus(NoSchema, Numbers)[f]
         /\ Added(18)[f] = {}
         /\ Added(21)[f] = Plus(NoSchema, Audits)[f]
         /\ Added(22)[f] = Plus(NoSchema, Heads)[f]
<1>1. ASSUME NEW type, NEW names, NEW t, t = Retyped(NoSchema, type, names)
      PROVE  DOMAIN t = Fields /\ t[f] = {}
  BY <1>1, Nothing, RetypedItems DEF Items
<1>2. ASSUME NEW type, NEW names, NEW t, t = Retyped(NoSchema, type, names), NEW c
      PROVE  Plus(t, c)[f] = Plus(NoSchema, c)[f]
  BY <1>1, <1>2, PlusItems
<1>7. Added(7)[f] = Plus(NoSchema, Numbers)[f]
  <2>1. PICK t : t = Retyped(NoSchema, "task_status",
                             {"PENDING", "IN_PROGRESS", "DONE", "CANCELLED"})
    OBVIOUS
  <2>2. Added(7) = Plus(t, Numbers)
    BY <2>1, UpgradedIs DEF Added, Upgrade0007, Numbers
  <2> QED
    BY <2>1, <2>2, <1>2
<1>18. Added(18)[f] = {}
  BY <1>1, UpgradedIs DEF Added, Upgrade0018
<1>21. Added(21)[f] = Plus(NoSchema, Audits)[f]
  <2>1. PICK t : t = Retyped(NoSchema, "member_role",
          (Labels(NoSchema, "member_role") \ {"WORKSPACE_MEMBER"}) \cup {"WORKSPACE_USER"})
    OBVIOUS
  <2>2. Added(21) = Plus(t, Audits)
    BY <2>1, UpgradedIs DEF Added, Upgrade0021, Audits
  <2> QED
    BY <2>1, <2>2, <1>2
<1>22. Added(22)[f] = Plus(NoSchema, Heads)[f]
  <2>1. PICK t : t = Retyped(NoSchema, "team_role", {"MANAGER", "LEAD", "MEMBER"})
    OBVIOUS
  <2>2. Added(22) = Plus(t, Heads)
    BY <2>1, UpgradedIs DEF Added, Upgrade0022, Heads
  <2> QED
    BY <2>1, <2>2, <1>2
<1> QED
  BY <1>7, <1>18, <1>21, <1>22

\* Everything in a is new at v, and not on the credentials.
AllNew(v, a) ==
  \A f \in Items : \A x \in a[f] : New(v, f, x) /\ (v > 1 => x[1] # "credentials")

LEMMA AddedIsNew ==
  ASSUME NEW v \in (1..30) \ {3, 29}
  PROVE  AllNew(v, Added(v))
<1>7. AllNew(7, Added(7))
  <2>1. AllNew(7, Plus(NoSchema, Numbers))
    BY Nothing
       DEF AllNew, New, Numbers, NewTables, NewColumns, NewKeys, NameKey, SeqKey, UserKey, RankKey,
           HeadKey, Key, Of, Row, Plus, Items, Fields
  <2> QED
    BY <2>1, RetypedAdds DEF AllNew
<1>21. AllNew(21, Added(21))
  <2>1. AllNew(21, Plus(NoSchema, Audits))
    BY Nothing
       DEF AllNew, New, Audits, NewTables, NewColumns, NewKeys, NameKey, SeqKey, UserKey, RankKey,
           HeadKey, Key, Of, Row, Plus, Items, Fields
  <2> QED
    BY <2>1, RetypedAdds DEF AllNew
<1>22. AllNew(22, Added(22))
  <2>1. AllNew(22, Plus(NoSchema, Heads))
    BY Nothing
       DEF AllNew, New, Heads, NewTables, NewColumns, NewKeys, NameKey, SeqKey, UserKey, RankKey,
           HeadKey, Key, Of, Row, Plus, Items, Fields
  <2> QED
    BY <2>1, RetypedAdds DEF AllNew
<1>18. AllNew(18, Added(18))
  BY RetypedAdds DEF AllNew
<1> USE UpgradedIs, Nothing
    DEF NewTables, NewColumns, NewKeys, NameKey, SeqKey, UserKey, RankKey, HeadKey, Key, Of, Row,
        Plus, Items, Fields
<1>1. AllNew(1, Added(1))
  BY DEF AllNew, New, Added, Upgrade0001
<1>2. AllNew(2, Added(2))
  BY DEF AllNew, New, Added, Upgrade0002
<1>4. AllNew(4, Added(4))
  BY DEF AllNew, New, Added, Upgrade0004
<1>5. AllNew(5, Added(5))
  BY DEF AllNew, New, Added, Upgrade0005
<1>6. AllNew(6, Added(6))
  BY DEF AllNew, New, Added, Upgrade0006
<1>8. AllNew(8, Added(8))
  BY DEF AllNew, New, Added, Upgrade0008
<1>9. AllNew(9, Added(9))
  BY DEF AllNew, New, Added, Upgrade0009
<1>10. AllNew(10, Added(10))
  BY DEF AllNew, New, Added, Upgrade0010
<1>11. AllNew(11, Added(11))
  BY DEF AllNew, New, Added, Upgrade0011
<1>12. AllNew(12, Added(12))
  BY DEF AllNew, New, Added, Upgrade0012
<1>14. AllNew(14, Added(14))
  BY DEF AllNew, New, Added, Upgrade0014
<1>15. AllNew(15, Added(15))
  BY DEF AllNew, New, Added, Upgrade0015
<1>16. AllNew(16, Added(16))
  BY DEF AllNew, New, Added, Upgrade0016
<1>17. AllNew(17, Added(17))
  BY DEF AllNew, New, Added, Upgrade0017
<1>19. AllNew(19, Added(19))
  BY DEF AllNew, New, Added, Upgrade0019
<1>20. AllNew(20, Added(20))
  BY DEF AllNew, New, Added, Upgrade0020
<1>23. AllNew(23, Added(23))
  BY DEF AllNew, New, Added, Upgrade0023
<1>24. AllNew(24, Added(24))
  BY DEF AllNew, New, Added, Upgrade0024
<1>26. AllNew(26, Added(26))
  BY DEF AllNew, New, Added, Upgrade0026
<1>27. AllNew(27, Added(27))
  BY DEF AllNew, New, Added, Upgrade0027
<1>28. AllNew(28, Added(28))
  BY DEF AllNew, New, Added, Upgrade0028
<1>30. AllNew(30, Added(30))
  BY DEF AllNew, New, Added, Upgrade0030
<1>31. AllNew(13, Added(13)) /\ AllNew(25, Added(25))
  BY DEF AllNew, Added
<1> QED
  BY <1>1, <1>2, <1>4, <1>5, <1>6, <1>7, <1>8, <1>9, <1>10, <1>11, <1>12, <1>14, <1>15,
     <1>16, <1>17, <1>18, <1>19, <1>20, <1>21, <1>22, <1>23, <1>24, <1>26, <1>27, <1>28,
     <1>30, <1>31

\* Nothing in s is new at a revision after v.
Upto(v, s) == \A f \in Items : \A x \in s[f] : \A w \in (v + 1)..30 : ~New(w, f, x)

LEMMA AddedIsUpto ==
  ASSUME NEW v \in 1..30
  PROVE  Upto(v, Added(v))
<1>7. Upto(7, Added(7))
  <2>1. Upto(7, Plus(NoSchema, Numbers))
    BY Nothing
       DEF Upto, New, Numbers, NewTables, NewColumns, NewKeys, NameKey, SeqKey, UserKey, RankKey,
           HeadKey, Key, Of, Row, Plus, Items, Fields
  <2> QED
    BY <2>1, RetypedAdds DEF Upto
<1>21. Upto(21, Added(21))
  <2>1. Upto(21, Plus(NoSchema, Audits))
    BY Nothing
       DEF Upto, New, Audits, NewTables, NewColumns, NewKeys, NameKey, SeqKey, UserKey, RankKey,
           HeadKey, Key, Of, Row, Plus, Items, Fields
  <2> QED
    BY <2>1, RetypedAdds DEF Upto
<1>22. Upto(22, Added(22))
  <2>1. Upto(22, Plus(NoSchema, Heads))
    BY Nothing
       DEF Upto, New, Heads, NewTables, NewColumns, NewKeys, NameKey, SeqKey, UserKey, RankKey,
           HeadKey, Key, Of, Row, Plus, Items, Fields
  <2> QED
    BY <2>1, RetypedAdds DEF Upto
<1>18. Upto(18, Added(18))
  BY RetypedAdds DEF Upto
<1> USE UpgradedIs, Nothing
    DEF NewTables, NewColumns, NewKeys, NameKey, SeqKey, UserKey, RankKey, HeadKey, Key, Of, Row,
        Plus, Items, Fields
<1>1. Upto(1, Added(1))
  BY DEF Upto, New, Added, Upgrade0001
<1>2. Upto(2, Added(2))
  BY DEF Upto, New, Added, Upgrade0002
<1>3. Upto(3, Added(3))
  BY WithoutCheckItems DEF Upto, New, Added, Upgrade0003
<1>4. Upto(4, Added(4))
  BY DEF Upto, New, Added, Upgrade0004
<1>5. Upto(5, Added(5))
  BY DEF Upto, New, Added, Upgrade0005
<1>6. Upto(6, Added(6))
  BY DEF Upto, New, Added, Upgrade0006
<1>8. Upto(8, Added(8))
  BY DEF Upto, New, Added, Upgrade0008
<1>9. Upto(9, Added(9))
  BY DEF Upto, New, Added, Upgrade0009
<1>10. Upto(10, Added(10))
  BY DEF Upto, New, Added, Upgrade0010
<1>11. Upto(11, Added(11))
  BY DEF Upto, New, Added, Upgrade0011
<1>12. Upto(12, Added(12))
  BY DEF Upto, New, Added, Upgrade0012
<1>14. Upto(14, Added(14))
  BY DEF Upto, New, Added, Upgrade0014
<1>15. Upto(15, Added(15))
  BY DEF Upto, New, Added, Upgrade0015
<1>16. Upto(16, Added(16))
  BY DEF Upto, New, Added, Upgrade0016
<1>17. Upto(17, Added(17))
  BY DEF Upto, New, Added, Upgrade0017
<1>19. Upto(19, Added(19))
  BY DEF Upto, New, Added, Upgrade0019
<1>20. Upto(20, Added(20))
  BY DEF Upto, New, Added, Upgrade0020
<1>23. Upto(23, Added(23))
  BY DEF Upto, New, Added, Upgrade0023
<1>24. Upto(24, Added(24))
  BY DEF Upto, New, Added, Upgrade0024
<1>26. Upto(26, Added(26))
  BY DEF Upto, New, Added, Upgrade0026
<1>27. Upto(27, Added(27))
  BY DEF Upto, New, Added, Upgrade0027
<1>28. Upto(28, Added(28))
  BY DEF Upto, New, Added, Upgrade0028
<1>29. Upto(29, Added(29))
  BY WithoutCheckItems, WithoutColumnsItems DEF Upto, New, Added, Upgrade0029
<1>30. Upto(30, Added(30))
  BY DEF Upto, New, Added, Upgrade0030
<1>31. Upto(13, Added(13)) /\ Upto(25, Added(25))
  BY DEF Upto, Added
<1> QED
  BY <1>1, <1>2, <1>3, <1>4, <1>5, <1>6, <1>7, <1>8, <1>9, <1>10, <1>11, <1>12, <1>14, <1>15,
     <1>16, <1>17, <1>18, <1>19, <1>20, <1>21, <1>22, <1>23, <1>24, <1>26, <1>27, <1>28,
     <1>29, <1>30, <1>31

(***************************************************************************)
(* 0003 and 0029, which replace the check on the credentials.              *)
(***************************************************************************)
SecretHash == <<"credentials", "agent_secret_hash">>
FirstCheck ==
  <<"credentials", "ck_credentials_at_least_one_secret", "password_or_agent_secret">>
ThirdCheck ==
  <<"credentials", "at_least_one_secret", "password_agent_secret_or_oauth_identity">>
LastCheck == <<"credentials", "at_least_one_secret", "password_or_oauth_identity">>

\* The check of that name on the credentials.
Named(f, x, name) == f = "checks" /\ x[1] = "credentials" /\ x[2] = name

LEMMA Upgrade3Items ==
  ASSUME NEW s, DOMAIN s = Fields
  PROVE  /\ DOMAIN Upgraded(s, 3) = Fields
         /\ \A f \in Items : \A x :
              x \in Upgraded(s, 3)[f] <=>
                \/ x \in s[f] /\ ~Named(f, x, "ck_credentials_at_least_one_secret")
                \/ x \in Added(3)[f]
         /\ Added(3).required = {} /\ Added(3).refs = {} /\ Added(3).checks = {ThirdCheck}
         /\ Added(3).nullable = Of("credentials", {"oauth_provider", "oauth_id"})
         /\ Added(3).unique = {Key("credentials", {"oauth_provider", "oauth_id"})}
<1>1. PICK c : c = [
        nullable |-> Of("credentials", {"oauth_provider", "oauth_id"}),
        unique |-> {Key("credentials", {"oauth_provider", "oauth_id"})},
        checks |-> {<<"credentials", "at_least_one_secret",
                      "password_agent_secret_or_oauth_identity">>},
        labels |-> Of("oauth_provider", {"GOOGLE", "GITHUB"})]
  OBVIOUS
<1>2. PICK t : t = WithoutCheck(s, "credentials", "ck_credentials_at_least_one_secret")
  OBVIOUS
<1>3. PICK u : u = WithoutCheck(NoSchema, "credentials", "ck_credentials_at_least_one_secret")
  OBVIOUS
<1>4. Upgraded(s, 3) = Plus(t, c) /\ Added(3) = Plus(u, c)
  BY <1>1, <1>2, <1>3, UpgradedIs DEF Added, Upgrade0003
<1>5. /\ DOMAIN t = Fields
      /\ \A f \in Items : \A x :
           x \in t[f] <=> x \in s[f] /\ ~Named(f, x, "ck_credentials_at_least_one_secret")
  BY <1>2, WithoutCheckItems DEF Named
<1>6. DOMAIN u = Fields /\ \A f \in Items : u[f] = {}
  <2>1. /\ DOMAIN u = Fields
        /\ \A f \in Items : \A x : x \in u[f] => x \in NoSchema[f]
    BY <1>3, Nothing, WithoutCheckItems
  <2> QED
    BY <2>1, Nothing DEF Items
<1>7. \A f \in Items : /\ Plus(t, c)[f] = t[f] \cup Plus(NoSchema, c)[f]
                       /\ Plus(u, c)[f] = u[f] \cup Plus(NoSchema, c)[f]
  BY <1>5, <1>6, PlusItems
<1>8. /\ Added(3).required = {} /\ Added(3).refs = {} /\ Added(3).checks = {ThirdCheck}
      /\ Added(3).nullable = Of("credentials", {"oauth_provider", "oauth_id"})
      /\ Added(3).unique = {Key("credentials", {"oauth_provider", "oauth_id"})}
  <2>1. u.required = {} /\ u.refs = {} /\ u.checks = {} /\ u.nullable = {} /\ u.unique = {}
    BY <1>6 DEF Items, Fields
  <2> QED
    BY <1>1, <1>4, <1>6, <2>1 DEF Plus, Fields, ThirdCheck
<1> QED
  BY <1>4, <1>5, <1>6, <1>7, <1>8, PlusFields

AgentKeys ==
  [required |-> Of("agent_api_keys", {"id", "member_id", "secret_hash", "prefix", "last4",
                                      "created_by_member_id", "created_at"}),
   nullable |-> Of("agent_api_keys", {"label", "last_used_at", "revoked_at"}),
   unique |-> {Key("agent_api_keys", {"secret_hash"})},
   refs |-> {<<"agent_api_keys", "member_id", "members", "CASCADE">>,
             <<"agent_api_keys", "created_by_member_id", "members", "RESTRICT">>},
   checks |-> {<<"credentials", "at_least_one_secret", "password_or_oauth_identity">>}]

LEMMA Upgrade29Items ==
  ASSUME NEW s, DOMAIN s = Fields
  PROVE  /\ DOMAIN Upgraded(s, 29) = Fields
         /\ \A f \in Items : \A x :
              x \in Upgraded(s, 29)[f] <=>
                \/ /\ x \in s[f] /\ ~Named(f, x, "at_least_one_secret")
                   /\ ~On(f, x, "credentials", {"agent_secret_hash"})
                \/ x \in Added(29)[f]
         /\ \A f \in Items : \A x \in Added(29)[f] :
              x[1] = "agent_api_keys" \/ (f = "checks" /\ x = LastCheck)
         /\ \A f \in Items : Added(29)[f] = Plus(NoSchema, AgentKeys)[f]
<1>1. PICK t : t = WithoutCheck(s, "credentials", "at_least_one_secret")
  OBVIOUS
<1>2. PICK r : r = WithoutColumns(t, "credentials", {"agent_secret_hash"})
  OBVIOUS
<1>3. PICK u : u = WithoutCheck(NoSchema, "credentials", "at_least_one_secret")
  OBVIOUS
<1>4. PICK w : w = WithoutColumns(u, "credentials", {"agent_secret_hash"})
  OBVIOUS
<1>5. Upgraded(s, 29) = Plus(r, AgentKeys) /\ Added(29) = Plus(w, AgentKeys)
  BY <1>1, <1>2, <1>3, <1>4, UpgradedIs DEF Added, Upgrade0029, AgentKeys
<1>6. /\ DOMAIN r = Fields
      /\ \A f \in Items : \A x :
           x \in r[f] <=> /\ x \in s[f] /\ ~Named(f, x, "at_least_one_secret")
                          /\ ~On(f, x, "credentials", {"agent_secret_hash"})
  <2>1. /\ DOMAIN t = Fields
        /\ \A f \in Items : \A x :
             x \in t[f] <=> x \in s[f] /\ ~Named(f, x, "at_least_one_secret")
    BY <1>1, WithoutCheckItems DEF Named
  <2> QED
    BY <1>2, <2>1, WithoutColumnsItems
<1>7. DOMAIN w = Fields /\ \A f \in Items : w[f] = {}
  <2>1. /\ DOMAIN u = Fields
        /\ \A f \in Items : \A x : x \in u[f] => x \in NoSchema[f]
    BY <1>3, Nothing, WithoutCheckItems
  <2>2. /\ DOMAIN w = Fields
        /\ \A f \in Items : \A x : x \in w[f] => x \in u[f]
    BY <1>4, <2>1, WithoutColumnsItems
  <2> QED
    BY <2>1, <2>2, Nothing DEF Items
<1>8. \A f \in Items : /\ Plus(r, AgentKeys)[f] = r[f] \cup Plus(NoSchema, AgentKeys)[f]
                       /\ Plus(w, AgentKeys)[f] = w[f] \cup Plus(NoSchema, AgentKeys)[f]
  BY <1>6, <1>7, PlusItems
<1>9. \A f \in Items : \A x \in Plus(NoSchema, AgentKeys)[f] :
         x[1] = "agent_api_keys" \/ (f = "checks" /\ x = LastCheck)
  BY Nothing DEF AgentKeys, Plus, Items, Fields, Of, Key, LastCheck
<1>10. \A f \in Items : Added(29)[f] = Plus(NoSchema, AgentKeys)[f]
  BY <1>5, <1>7, <1>8
<1>11. \A f \in Items : Upgraded(s, 29)[f] = r[f] \cup Added(29)[f]
  BY <1>5, <1>8, <1>10
<1> QED
  BY <1>5, <1>6, <1>9, <1>10, <1>11, PlusFields

\* On the credentials of versions 1 to 28: the agent's secret, and one check.
Secrets(v, s) ==
  v > 0 =>
    /\ SecretHash \in s.nullable /\ SecretHash \notin s.required
    /\ \A k \in s.unique : k[1] = "credentials" => "agent_secret_hash" \notin k[2]
    /\ \A r \in s.refs : r[1] = "credentials" => r[2] # "agent_secret_hash"
    /\ \A c \in s.checks :
         c[1] = "credentials" <=> c = IF v < 3 THEN FirstCheck ELSE ThirdCheck
    /\ (IF v < 3 THEN FirstCheck ELSE ThirdCheck) \in s.checks

LEMMA SecretsUp ==
  ASSUME NEW s, DOMAIN s = Fields, NEW v \in 1..28, v = 1 => s = NoSchema, Secrets(v - 1, s)
  PROVE  Secrets(v, Upgraded(s, v))
<1>0. /\ "required" \in Items /\ "nullable" \in Items /\ "unique" \in Items
      /\ "refs" \in Items /\ "checks" \in Items
  BY DEF Items, Fields
<1>1. CASE v = 1
  <2>1. PICK t : t = Upgraded(NoSchema, 1)
    OBVIOUS
  <2> USE UpgradedIs, Nothing
      DEF Upgrade0001, Plus, Fields, Of, Key, Row, SecretHash, FirstCheck
  <2>2. SecretHash \in t.nullable /\ SecretHash \notin t.required
    BY <2>1
  <2>3. \A k \in t.unique : k[1] = "credentials" => "agent_secret_hash" \notin k[2]
    BY <2>1
  <2>4. \A r \in t.refs : r[1] = "credentials" => r[2] # "agent_secret_hash"
    BY <2>1
  <2>5. \A c \in t.checks : c[1] = "credentials" <=> c = FirstCheck
    BY <2>1
  <2>6. FirstCheck \in t.checks
    BY <2>1
  <2> QED
    BY <1>1, <2>1, <2>2, <2>3, <2>4, <2>5, <2>6 DEF Secrets
<1>2. CASE v \notin {1, 3}
  <2>1. Sum(s, Added(v), Upgraded(s, v))
    BY <1>2, UpgradesSum
  <2>2. \A f \in Items : \A x \in Added(v)[f] : x[1] # "credentials"
    BY <1>2, AddedIsNew DEF AllNew
  <2>3. SecretHash[1] = "credentials" /\ FirstCheck[1] = "credentials"
        /\ ThirdCheck[1] = "credentials"
    BY DEF SecretHash, FirstCheck, ThirdCheck
  <2>4. PICK t : t = Upgraded(s, v)
    OBVIOUS
  <2>5. PICK a : a = Added(v)
    OBVIOUS
  <2>6. /\ t.required = s.required \cup a.required /\ t.nullable = s.nullable \cup a.nullable
        /\ t.unique = s.unique \cup a.unique /\ t.refs = s.refs \cup a.refs
        /\ t.checks = s.checks \cup a.checks
    BY <1>0, <2>1, <2>4, <2>5 DEF Sum
  <2>7. /\ \A x \in a.required : x[1] # "credentials"
        /\ \A x \in a.unique : x[1] # "credentials"
        /\ \A x \in a.refs : x[1] # "credentials"
        /\ \A x \in a.checks : x[1] # "credentials"
    BY <1>0, <2>2, <2>5
  <2>8. v - 1 > 0 /\ (v - 1 < 3 <=> v < 3)
    BY <1>2
  <2>9. Secrets(v, t)
    BY <1>2, <2>3, <2>6, <2>7, <2>8 DEF Secrets
  <2> QED
    BY <2>4, <2>9
<1>3. CASE v = 3
  <2>1. PICK t : t = Upgraded(s, 3)
    OBVIOUS
  <2>2. /\ \A x : x \in t.required <=> x \in s.required \/ x \in Added(3).required
        /\ \A x : x \in t.nullable <=> x \in s.nullable \/ x \in Added(3).nullable
        /\ \A x : x \in t.unique <=> x \in s.unique \/ x \in Added(3).unique
        /\ \A x : x \in t.refs <=> x \in s.refs \/ x \in Added(3).refs
        /\ \A x : x \in t.checks <=>
             \/ x \in s.checks /\ ~(x[1] = "credentials"
                                    /\ x[2] = "ck_credentials_at_least_one_secret")
             \/ x \in Added(3).checks
    BY <1>0, <2>1, Upgrade3Items DEF Named
  <2>3. /\ Added(3).required = {} /\ Added(3).refs = {} /\ Added(3).checks = {ThirdCheck}
        /\ Added(3).nullable = Of("credentials", {"oauth_provider", "oauth_id"})
        /\ Added(3).unique = {Key("credentials", {"oauth_provider", "oauth_id"})}
    BY Upgrade3Items
  <2>4. /\ SecretHash \in s.nullable /\ SecretHash \notin s.required
        /\ \A k \in s.unique : k[1] = "credentials" => "agent_secret_hash" \notin k[2]
        /\ \A r \in s.refs : r[1] = "credentials" => r[2] # "agent_secret_hash"
        /\ \A c \in s.checks : c[1] = "credentials" <=> c = FirstCheck
    BY <1>3 DEF Secrets
  <2>5. SecretHash \in t.nullable /\ SecretHash \notin t.required
    BY <2>2, <2>3, <2>4
  <2>6. /\ \A k \in t.unique : k[1] = "credentials" => "agent_secret_hash" \notin k[2]
        /\ \A r \in t.refs : r[1] = "credentials" => r[2] # "agent_secret_hash"
    BY <2>2, <2>3, <2>4 DEF Key
  <2>7. \A c \in t.checks : c[1] = "credentials" <=> c = ThirdCheck
    BY <2>2, <2>3, <2>4 DEF FirstCheck, ThirdCheck
  <2>8. ThirdCheck \in t.checks
    BY <2>2, <2>3 DEF ThirdCheck
  <2>9. Secrets(3, t)
    BY <2>5, <2>6, <2>7, <2>8 DEF Secrets
  <2> QED
    BY <1>3, <2>1, <2>9
<1> QED
  BY <1>1, <1>2, <1>3

(***************************************************************************)
(* Labels.  Four revisions replace a type, the others add to what is there.*)
(***************************************************************************)
LEMMA RetypedLabels ==
  ASSUME NEW s, DOMAIN s = Fields, NEW type, NEW names
  PROVE  \A l : l \in Retyped(s, type, names).labels <=>
           \/ l \in s.labels /\ l[1] # type
           \/ \E n \in names : l = <<type, n>>
<1>1. PICK t : t = WithoutType(s, type)
  OBVIOUS
<1>2. DOMAIN t = Fields /\ t.labels = {l \in s.labels : l[1] # type}
  BY <1>1 DEF WithoutType, Fields
<1>3. Retyped(s, type, names) = Plus(t, [labels |-> Of(type, names)])
  BY <1>1 DEF Retyped
<1>4. Plus(t, [labels |-> Of(type, names)]).labels = t.labels \cup Of(type, names)
  BY <1>2 DEF Plus, Fields
<1>5. \A l : l \in Of(type, names) <=> \E n \in names : l = <<type, n>>
  BY DEF Of
<1> QED
  BY <1>2, <1>3, <1>4, <1>5

LEMMA WithoutTypeLabels ==
  ASSUME NEW s, DOMAIN s = Fields, NEW type
  PROVE  \A l : l \in WithoutType(s, type).labels <=> l \in s.labels /\ l[1] # type
BY DEF WithoutType, Fields

LEMMA WithoutTableLabels ==
  ASSUME NEW s, DOMAIN s = Fields, NEW table
  PROVE  WithoutTable(s, table).labels = s.labels
BY DEF WithoutTable, Fields

LEMMA WithoutColumnsLabels ==
  ASSUME NEW s, DOMAIN s = Fields, NEW table, NEW names
  PROVE  WithoutColumns(s, table, names).labels = s.labels
BY DEF WithoutColumns, Fields

LEMMA WithoutCheckLabels ==
  ASSUME NEW s, DOMAIN s = Fields, NEW table, NEW name
  PROVE  WithoutCheck(s, table, name).labels = s.labels
BY DEF WithoutCheck, Fields

LEMMA MinusLabels ==
  ASSUME NEW s, DOMAIN s = Fields, NEW keys
  PROVE  Minus(s, [unique |-> keys]).labels = s.labels
BY DEF Minus, Fields

\* The labels of s and those of a type.
Extends(s, t, type, names) ==
  \A l : l \in t.labels <=> l \in s.labels \/ \E n \in names : l = <<type, n>>

LEMMA PlusLabels ==
  ASSUME NEW s, DOMAIN s = Fields, NEW c
  PROVE  /\ "labels" \in DOMAIN c => Plus(s, c).labels = s.labels \cup c.labels
         /\ "labels" \notin DOMAIN c => Plus(s, c).labels = s.labels
BY DEF Plus, Fields

LEMMA KeepsLabels ==
  ASSUME NEW s, DOMAIN s = Fields,
         NEW v \in (1..30) \ {1, 2, 3, 4, 7, 9, 10, 12, 14, 18, 19, 21, 22, 30}
  PROVE  Upgraded(s, v).labels = s.labels
<1> USE UpgradedIs, PlusLabels
<1>5. Upgraded(s, 5).labels = s.labels
  BY DEF Upgrade0005
<1>6. Upgraded(s, 6).labels = s.labels
  BY DEF Upgrade0006
<1>8. Upgraded(s, 8).labels = s.labels
  BY DEF Upgrade0008
<1>11. Upgraded(s, 11).labels = s.labels
  BY DEF Upgrade0011
<1>15. Upgraded(s, 15).labels = s.labels
  BY DEF Upgrade0015
<1>16. Upgraded(s, 16).labels = s.labels
  BY DEF Upgrade0016
<1>17. Upgraded(s, 17).labels = s.labels
  BY DEF Upgrade0017
<1>20. Upgraded(s, 20).labels = s.labels
  BY DEF Upgrade0020
<1>23. Upgraded(s, 23).labels = s.labels
  BY DEF Upgrade0023
<1>24. Upgraded(s, 24).labels = s.labels
  BY DEF Upgrade0024
<1>26. Upgraded(s, 26).labels = s.labels
  BY DEF Upgrade0026
<1>27. Upgraded(s, 27).labels = s.labels
  BY DEF Upgrade0027
<1>28. Upgraded(s, 28).labels = s.labels
  BY DEF Upgrade0028
<1>29. Upgraded(s, 29).labels = s.labels
  <2>1. PICK t : t = WithoutCheck(s, "credentials", "at_least_one_secret")
    OBVIOUS
  <2>2. PICK u : u = WithoutColumns(t, "credentials", {"agent_secret_hash"})
    OBVIOUS
  <2>3. DOMAIN u = Fields /\ u.labels = s.labels
    BY <2>1, <2>2, WithoutCheckItems, WithoutCheckLabels, WithoutColumnsItems,
       WithoutColumnsLabels
  <2>4. Upgraded(s, 29).labels = u.labels
    BY <2>1, <2>2, <2>3 DEF Upgrade0029
  <2> QED
    BY <2>3, <2>4
<1>13. Upgraded(s, 13).labels = s.labels /\ Upgraded(s, 25).labels = s.labels
  OBVIOUS
<1> QED
  BY <1>5, <1>6, <1>8, <1>11, <1>15, <1>16, <1>17, <1>20, <1>23, <1>24, <1>26, <1>27, <1>28,
     <1>29, <1>13

LEMMA ExtendsLabels ==
  ASSUME NEW s, DOMAIN s = Fields
  PROVE  /\ Extends(s, Upgraded(s, 2), "task_status", {"BLOCKED"})
         /\ Extends(s, Upgraded(s, 3), "oauth_provider", {"GOOGLE", "GITHUB"})
         /\ Extends(s, Upgraded(s, 4), "member_role", {"OWNER", "ADMIN", "MEMBER"})
         /\ Extends(s, Upgraded(s, 9), "task_relation_type",
                    {"BLOCKS", "MITIGATES", "DUPLICATES", "RELATES_TO"})
         /\ Extends(s, Upgraded(s, 10), "project_status", {"ACTIVE", "ARCHIVED"})
         /\ Extends(s, Upgraded(s, 12), "team_role", {"HEAD", "MANAGER", "LEAD", "MEMBER"})
         /\ Extends(s, Upgraded(s, 14), "task_status", {"IN_REVIEW"})
         /\ Extends(s, Upgraded(s, 19), "notification_type", {"MENTION_TASK", "MENTION_COMMENT"})
         /\ Extends(s, Upgraded(s, 30), "notification_type", {"CROSS_TEAM_REQUEST"})
<1> USE UpgradedIs, PlusLabels DEF Of, Extends
<1>2. Extends(s, Upgraded(s, 2), "task_status", {"BLOCKED"})
  BY DEF Upgrade0002
<1>3. Extends(s, Upgraded(s, 3), "oauth_provider", {"GOOGLE", "GITHUB"})
  <2>1. PICK t : t = WithoutCheck(s, "credentials", "ck_credentials_at_least_one_secret")
    OBVIOUS
  <2>2. DOMAIN t = Fields /\ t.labels = s.labels
    BY <2>1, WithoutCheckItems, WithoutCheckLabels
  <2>3. Upgraded(s, 3).labels = t.labels \cup Of("oauth_provider", {"GOOGLE", "GITHUB"})
    BY <2>1, <2>2 DEF Upgrade0003
  <2> QED
    BY <2>2, <2>3
<1>4. Extends(s, Upgraded(s, 4), "member_role", {"OWNER", "ADMIN", "MEMBER"})
  BY DEF Upgrade0004
<1>9. Extends(s, Upgraded(s, 9), "task_relation_type",
              {"BLOCKS", "MITIGATES", "DUPLICATES", "RELATES_TO"})
  BY DEF Upgrade0009
<1>10. Extends(s, Upgraded(s, 10), "project_status", {"ACTIVE", "ARCHIVED"})
  BY DEF Upgrade0010
<1>12. Extends(s, Upgraded(s, 12), "team_role", {"HEAD", "MANAGER", "LEAD", "MEMBER"})
  BY DEF Upgrade0012
<1>14. Extends(s, Upgraded(s, 14), "task_status", {"IN_REVIEW"})
  BY DEF Upgrade0014
<1>19. Extends(s, Upgraded(s, 19), "notification_type", {"MENTION_TASK", "MENTION_COMMENT"})
  BY DEF Upgrade0019
<1>30. Extends(s, Upgraded(s, 30), "notification_type", {"CROSS_TEAM_REQUEST"})
  BY DEF Upgrade0030
<1> QED
  BY <1>2, <1>3, <1>4, <1>9, <1>10, <1>12, <1>14, <1>19, <1>30

Replaces(s, t, type, names) ==
  \A l : l \in t.labels <=> (l \in s.labels /\ l[1] # type) \/ (\E n \in names : l = <<type, n>>)

LEMMA ReplacesLabels ==
  ASSUME NEW s, DOMAIN s = Fields
  PROVE  /\ Replaces(s, Upgraded(s, 7), "task_status", Basic)
         /\ Replaces(s, Upgraded(s, 18), "member_role",
                     {"WORKSPACE_OWNER", "WORKSPACE_ADMIN", "WORKSPACE_MEMBER"})
         /\ Replaces(s, Upgraded(s, 21), "member_role",
                     (Labels(s, "member_role") \ {"WORKSPACE_MEMBER"}) \cup {"WORKSPACE_USER"})
         /\ Replaces(s, Upgraded(s, 22), "team_role", {"MANAGER", "LEAD", "MEMBER"})
<1>1. ASSUME NEW t, NEW type, NEW names, t = Retyped(s, type, names), NEW c,
             "labels" \notin DOMAIN c
      PROVE  Replaces(s, t, type, names) /\ Replaces(s, Plus(t, c), type, names)
  <2>1. DOMAIN t = Fields
    BY <1>1, RetypedItems
  <2>2. Plus(t, c).labels = t.labels
    BY <1>1, <2>1, PlusLabels
  <2> QED
    BY <1>1, <2>2, RetypedLabels DEF Replaces
<1>7. Replaces(s, Upgraded(s, 7), "task_status", Basic)
  BY <1>1, UpgradedIs DEF Upgrade0007, Basic
<1>18. Replaces(s, Upgraded(s, 18), "member_role",
                {"WORKSPACE_OWNER", "WORKSPACE_ADMIN", "WORKSPACE_MEMBER"})
  BY RetypedLabels, UpgradedIs DEF Upgrade0018, Replaces
<1>21. Replaces(s, Upgraded(s, 21), "member_role",
                (Labels(s, "member_role") \ {"WORKSPACE_MEMBER"}) \cup {"WORKSPACE_USER"})
  <2>1. PICK names :
          names = (Labels(s, "member_role") \ {"WORKSPACE_MEMBER"}) \cup {"WORKSPACE_USER"}
    OBVIOUS
  <2>2. PICK t : t = Retyped(s, "member_role", names)
    OBVIOUS
  <2>3. PICK c : c = Audits
    OBVIOUS
  <2>4. "labels" \notin DOMAIN c
    BY <2>3 DEF Audits
  <2>5. Upgraded(s, 21) = Plus(t, c)
    BY <2>1, <2>2, <2>3, UpgradedIs DEF Upgrade0021, Audits
  <2> QED
    BY <1>1, <2>1, <2>2, <2>4, <2>5
<1>22. Replaces(s, Upgraded(s, 22), "team_role", {"MANAGER", "LEAD", "MEMBER"})
  BY <1>1, UpgradedIs DEF Upgrade0022
<1> QED
  BY <1>7, <1>18, <1>21, <1>22

Roles == {"OWNER", "ADMIN", "MEMBER"}
TeamRoles == {"HEAD", "MANAGER", "LEAD", "MEMBER"}

\* What a schema built up to v has of the types that downgrades drop or replace.
Kind(v, l) ==
  /\ l = <<l[1], l[2]>>
  /\ l[1] = "task_status" /\ v < 7 => l[2] \in Basic \cup {"BLOCKED"}
  /\ l[1] = "member_role" =>
       /\ v >= 4 /\ (v < 18 => l[2] \in Roles) /\ (v < 21 => l[2] # "WORKSPACE_USER")
  /\ l[1] = "task_relation_type" => v >= 9
  /\ l[1] = "project_status" => v >= 10
  /\ l[1] = "team_role" => v >= 12 /\ (v < 22 => l[2] \in TeamRoles)
  /\ l[1] = "notification_type" => v >= 19

Kinds(v, s) == \A l \in s.labels : Kind(v, l)

\* A label that stays fits the next version as well, but at 0007, 0018, 0021
\* and 0022 where its type is replaced.
LEMMA KindStays ==
  ASSUME NEW v \in 1..30, NEW l, Kind(v - 1, l)
  PROVE  Kind(v, l)
BY DEF Kind

LEMMA KindsExtended ==
  ASSUME NEW v \in 1..30, NEW s, Kinds(v - 1, s), NEW t, NEW type, NEW names,
         Extends(s, t, type, names), \A n \in names : Kind(v, <<type, n>>)
  PROVE  Kinds(v, t)
BY KindStays DEF Kinds, Extends

LEMMA KindsReplaced ==
  ASSUME NEW v \in 1..30, NEW s, Kinds(v - 1, s), NEW t, NEW type, NEW names,
         Replaces(s, t, type, names), \A n \in names : Kind(v, <<type, n>>)
  PROVE  Kinds(v, t)
BY KindStays DEF Kinds, Replaces

LEMMA KindsUp ==
  ASSUME NEW v \in 1..30, NEW s, DOMAIN s = Fields, v = 1 => s = NoSchema, Kinds(v - 1, s)
  PROVE  Kinds(v, Upgraded(s, v))
<1> USE DEF Basic, Roles, TeamRoles
<1>0. CASE v \notin {1, 2, 3, 4, 7, 9, 10, 12, 14, 18, 19, 21, 22, 30}
  <2>1. Upgraded(s, v).labels = s.labels
    BY <1>0, KeepsLabels
  <2> QED
    BY <2>1, KindStays DEF Kinds
<1>1. CASE v = 1
  <2>1. Upgraded(NoSchema, 1).labels =
          Of("member_type", {"HUMAN", "AGENT"})
            \cup Of("task_status", {"PENDING", "IN_PROGRESS", "DONE", "CANCELLED"})
    BY UpgradedIs, Nothing DEF Upgrade0001, Plus, Fields
  <2>2. ASSUME NEW l \in Upgraded(NoSchema, 1).labels
        PROVE  Kind(1, l)
    BY <2>1, <2>2 DEF Of, Kind
  <2> QED
    BY <1>1, <2>2 DEF Kinds
<1>2. CASE v = 2
  BY <1>2, ExtendsLabels, KindsExtended DEF Kind
<1>3. CASE v = 3
  BY <1>3, ExtendsLabels, KindsExtended DEF Kind
<1>4. CASE v = 4
  BY <1>4, ExtendsLabels, KindsExtended DEF Kind
<1>7. CASE v = 7
  <2>1. PICK names : names = Basic
    OBVIOUS
  <2>2. Replaces(s, Upgraded(s, 7), "task_status", names)
    BY <2>1, ReplacesLabels
  <2>3. \A n \in names : Kind(7, <<"task_status", n>>)
    BY <2>1 DEF Kind
  <2> QED
    BY <1>7, <2>2, <2>3, KindsReplaced
<1>9. CASE v = 9
  BY <1>9, ExtendsLabels, KindsExtended DEF Kind
<1>10. CASE v = 10
  BY <1>10, ExtendsLabels, KindsExtended DEF Kind
<1>12. CASE v = 12
  BY <1>12, ExtendsLabels, KindsExtended DEF Kind
<1>14. CASE v = 14
  BY <1>14, ExtendsLabels, KindsExtended DEF Kind
<1>18. CASE v = 18
  <2>1. PICK names : names = {"WORKSPACE_OWNER", "WORKSPACE_ADMIN", "WORKSPACE_MEMBER"}
    OBVIOUS
  <2>2. Replaces(s, Upgraded(s, 18), "member_role", names)
    BY <2>1, ReplacesLabels
  <2>3. \A n \in names : Kind(18, <<"member_role", n>>)
    BY <2>1 DEF Kind
  <2> QED
    BY <1>18, <2>2, <2>3, KindsReplaced
<1>19. CASE v = 19
  BY <1>19, ExtendsLabels, KindsExtended DEF Kind
<1>21. CASE v = 21
  <2>1. PICK names :
          names = (Labels(s, "member_role") \ {"WORKSPACE_MEMBER"}) \cup {"WORKSPACE_USER"}
    OBVIOUS
  <2>2. Replaces(s, Upgraded(s, 21), "member_role", names)
    BY <2>1, ReplacesLabels
  <2>3. \A n \in names : Kind(21, <<"member_role", n>>)
    BY DEF Kind
  <2> QED
    BY <1>21, <2>2, <2>3, KindsReplaced
<1>22. CASE v = 22
  <2>1. PICK names : names = {"MANAGER", "LEAD", "MEMBER"}
    OBVIOUS
  <2>2. Replaces(s, Upgraded(s, 22), "team_role", names)
    BY <2>1, ReplacesLabels
  <2>3. \A n \in names : Kind(22, <<"team_role", n>>)
    BY <2>1 DEF Kind
  <2> QED
    BY <1>22, <2>2, <2>3, KindsReplaced
<1>30. CASE v = 30
  BY <1>30, ExtendsLabels, KindsExtended DEF Kind
<1> QED
  BY <1>0, <1>1, <1>2, <1>3, <1>4, <1>7, <1>9, <1>10, <1>12, <1>14, <1>18, <1>19, <1>21, <1>22,
     <1>30

-----------------------------------------------------------------------------
(***************************************************************************)
(* The revisions, one after the other.                                     *)
(***************************************************************************)
LEMMA UptoUp ==
  ASSUME NEW v \in 1..30, NEW s, DOMAIN s = Fields, Upto(v - 1, s)
  PROVE  Upto(v, Upgraded(s, v))
<1>1. \A f \in Items : \A x \in Upgraded(s, v)[f] : x \in s[f] \/ x \in Added(v)[f]
  <2>1. CASE v \notin {3, 29}
    BY <2>1, UpgradesSum DEF Sum
  <2>2. CASE v = 3
    BY <2>2, Upgrade3Items
  <2>3. CASE v = 29
    BY <2>3, Upgrade29Items
  <2> QED
    BY <2>1, <2>2, <2>3
<1>2. Upto(v, Added(v))
  BY AddedIsUpto
<1> QED
  BY <1>1, <1>2 DEF Upto

\* What the way back relies on of the revision it goes back to.
Made(v, s) ==
  DOMAIN s = Fields /\ Upto(v, s) /\ Kinds(v, s) /\ (v < 29 => Secrets(v, s))

LEMMA MadeAtRevisions == \A v \in 0..30 : Made(v, SchemaAt[v])
<1>1. PICK T : T = {v \in 0..30 : ~Made(v, SchemaAt[v])}
  OBVIOUS
<1>2. SUFFICES ASSUME T # {} PROVE FALSE
  BY <1>1
<1>3. PICK n \in T : \A m \in T : n <= m
  <2>1. T \subseteq Nat
    BY <1>1
  <2> QED
    BY <1>2, <2>1, LeastNumber
<1>4. Made(0, NoSchema)
  BY Nothing DEF Made, Upto, Kinds, Secrets, Items, Fields
<1>5. SchemaAt[0] = NoSchema
  BY SchemaSteps
<1>6. n \in 1..30 /\ n - 1 \in 0..30 /\ n - 1 \notin T
  <2>1. n # 0
    BY <1>1, <1>4, <1>5
  <2> QED
    BY <1>1, <1>3, <2>1
<1>7. PICK s : s = SchemaAt[n - 1]
  OBVIOUS
<1>8. Made(n - 1, s) /\ (n = 1 => s = NoSchema)
  BY <1>1, <1>5, <1>6, <1>7
<1>9. SchemaAt[n] = Upgraded(s, n)
  BY <1>6, <1>7, SchemaSteps
<1>10. DOMAIN Upgraded(s, n) = Fields
  <2>1. n \in 0..Latest
    BY <1>6 DEF Latest
  <2> QED
    BY <1>9, <2>1, RulesAtRevisions DEF Rules
<1>11. Upto(n, Upgraded(s, n)) /\ Kinds(n, Upgraded(s, n))
  BY <1>6, <1>8, UptoUp, KindsUp DEF Made
<1>12. n < 29 => Secrets(n, Upgraded(s, n))
  BY <1>6, <1>8, SecretsUp DEF Made
<1>13. Made(n, SchemaAt[n])
  BY <1>9, <1>10, <1>11, <1>12 DEF Made
<1> QED
  BY <1>1, <1>13

\* s is r but for labels that could not be taken back.
Covers(s, r) ==
  /\ DOMAIN s = Fields /\ \A f \in Items : s[f] = r[f]
  /\ r.labels \subseteq s.labels

LEMMA Downgrade29Items ==
  ASSUME NEW s, DOMAIN s = Fields
  PROVE  /\ DOMAIN Downgraded(s, 29) = Fields
         /\ \A f \in Items : \A x :
              x \in Downgraded(s, 29)[f] <=>
                /\ x[1] # "agent_api_keys"
                /\ \/ x \in s[f] /\ ~Named(f, x, "at_least_one_secret")
                   \/ f = "nullable" /\ x = SecretHash
                   \/ f = "checks" /\ x = ThirdCheck
         /\ Downgraded(s, 29).labels = s.labels
<1>1. PICK t : t = WithoutCheck(s, "credentials", "at_least_one_secret")
  OBVIOUS
<1>2. PICK c : c = [nullable |-> Of("credentials", {"agent_secret_hash"}),
                    checks |-> {ThirdCheck}]
  OBVIOUS
<1>3. PICK u : u = Plus(t, c)
  OBVIOUS
<1>4. Downgraded(s, 29) = WithoutTable(u, "agent_api_keys")
  BY <1>1, <1>2, <1>3, DowngradedIs DEF Downgrade0029, ThirdCheck
<1>5. /\ DOMAIN t = Fields /\ t.labels = s.labels
      /\ \A f \in Items : \A x :
           x \in t[f] <=> x \in s[f] /\ ~Named(f, x, "at_least_one_secret")
  BY <1>1, WithoutCheckItems, WithoutCheckLabels DEF Named
<1>6. /\ DOMAIN u = Fields
      /\ \A f \in Items : u[f] = t[f] \cup Plus(NoSchema, c)[f]
  BY <1>3, <1>5, PlusItems, PlusFields
<1>7. u.labels = t.labels
  BY <1>2, <1>3, <1>5, PlusLabels
<1>8. \A f \in Items : \A x :
        x \in Plus(NoSchema, c)[f] <=> \/ f = "nullable" /\ x = SecretHash
                                       \/ f = "checks" /\ x = ThirdCheck
  BY <1>2, Nothing DEF Plus, Items, Fields, Of, SecretHash
<1> QED
  BY <1>4, <1>5, <1>6, <1>7, <1>8, WithoutTableItems, WithoutTableLabels

\* A downgrade takes the items of its upgrade, and no others.
LEMMA ItemsUndone ==
  ASSUME NEW v \in (1..30) \ {3}, NEW a, Made(v - 1, a), NEW s, DOMAIN s = Fields,
         \A f \in Items : s[f] = Upgraded(a, v)[f]
  PROVE  /\ DOMAIN Downgraded(s, v) = Fields
         /\ \A f \in Items : Downgraded(s, v)[f] = a[f]
<1>0. DOMAIN a = Fields
  BY DEF Made
<1>1. CASE v # 29
  <2>1. Sifted(v, s, Downgraded(s, v))
    BY <1>1, DowngradesSift
  <2>2. \A f \in Items : s[f] = a[f] \cup Added(v)[f]
    BY <1>0, <1>1, UpgradesSum DEF Sum
  <2>3. \A f \in Items : \A x \in Added(v)[f] : New(v, f, x)
    BY <1>1, AddedIsNew DEF AllNew
  <2>4. \A f \in Items : \A x \in a[f] : ~New(v, f, x)
    <3>1. v \in (v - 1 + 1)..30
      OBVIOUS
    <3> QED
      BY <3>1 DEF Made, Upto
  <2>5. ASSUME NEW f \in Items
        PROVE  Downgraded(s, v)[f] = a[f]
    <3>1. \A x : x \in Downgraded(s, v)[f] <=> x \in s[f] /\ ~New(v, f, x)
      BY <2>1 DEF Sifted
    <3>2. \A x : x \in Downgraded(s, v)[f] <=> x \in a[f]
      BY <2>2, <2>3, <2>4, <3>1
    <3> QED
      BY <3>2
  <2> QED
    BY <2>1, <2>5 DEF Sifted
<1>2. CASE v = 29
  <2>1. PICK t : t = Downgraded(s, 29)
    OBVIOUS
  <2>2. /\ DOMAIN t = Fields
        /\ \A f \in Items : \A x :
             x \in t[f] <=>
               /\ x[1] # "agent_api_keys"
               /\ \/ x \in s[f] /\ ~Named(f, x, "at_least_one_secret")
                  \/ f = "nullable" /\ x = SecretHash
                  \/ f = "checks" /\ x = ThirdCheck
    BY <2>1, Downgrade29Items
  <2>3. /\ \A f \in Items : \A x :
             x \in s[f] <=>
               \/ /\ x \in a[f] /\ ~Named(f, x, "at_least_one_secret")
                  /\ ~On(f, x, "credentials", {"agent_secret_hash"})
               \/ x \in Added(29)[f]
        /\ \A f \in Items : \A x \in Added(29)[f] :
             x[1] = "agent_api_keys" \/ Named(f, x, "at_least_one_secret")
    BY <1>0, <1>2, Upgrade29Items DEF Named, LastCheck
  <2>4. \A f \in Items : \A x \in a[f] : x[1] # "agent_api_keys"
    <3>1. \A f \in Items : \A x \in a[f] : ~New(29, f, x)
      <4>1. 29 \in (28 + 1)..30
        OBVIOUS
      <4> QED
        BY <1>2, <4>1 DEF Made, Upto
    <3> QED
      BY <3>1 DEF New, NewTables
  <2>5. Secrets(28, a)
    BY <1>2 DEF Made
  <2>6. ASSUME NEW f \in Items, NEW x
        PROVE  x \in a[f] <=>
                 \/ /\ x \in a[f] /\ ~Named(f, x, "at_least_one_secret")
                    /\ ~On(f, x, "credentials", {"agent_secret_hash"})
                 \/ f = "nullable" /\ x = SecretHash
                 \/ f = "checks" /\ x = ThirdCheck
    <3>1. CASE f = "required"
      BY <2>5, <3>1 DEF Secrets, On, Named, SecretHash
    <3>2. CASE f = "nullable"
      BY <2>5, <3>2 DEF Secrets, On, Named, SecretHash
    <3>3. CASE f = "unique"
      BY <2>5, <3>3 DEF Secrets, On, Named
    <3>4. CASE f = "refs"
      BY <2>5, <3>4 DEF Secrets, On, Named
    <3>5. CASE f = "checks"
      BY <2>5, <3>5 DEF Secrets, On, Named, ThirdCheck
    <3> QED
      BY <3>1, <3>2, <3>3, <3>4, <3>5 DEF Items, Fields
  <2>7. SecretHash[1] # "agent_api_keys" /\ ThirdCheck[1] # "agent_api_keys"
    BY DEF SecretHash, ThirdCheck
  <2>8. ASSUME NEW f \in Items
        PROVE  t[f] = a[f]
    <3>1. ASSUME NEW x
          PROVE  x \in t[f] <=> x \in a[f]
      BY <2>2, <2>3, <2>4, <2>6, <2>7
    <3> QED
      BY <3>1
  <2> QED
    BY <1>2, <2>1, <2>2, <2>8
<1> QED
  BY <1>1, <1>2

LEMMA KeepsLabelsDown ==
  ASSUME NEW s, DOMAIN s = Fields,
         NEW v \in (1..30) \ {1, 3, 4, 7, 9, 10, 12, 18, 19, 21, 22}
  PROVE  Downgraded(s, v).labels = s.labels
<1> USE DowngradedIs
<1>2. Downgraded(s, 2).labels = s.labels
  BY WithoutColumnsLabels DEF Downgrade0002
<1>5. Downgraded(s, 5).labels = s.labels
  BY WithoutTableItems, WithoutTableLabels, WithoutColumnsItems, WithoutColumnsLabels DEF
     Downgrade0005
<1>6. Downgraded(s, 6).labels = s.labels
  BY WithoutColumnsLabels DEF Downgrade0006
<1>8. Downgraded(s, 8).labels = s.labels
  BY WithoutTableLabels DEF Downgrade0008
<1>11. Downgraded(s, 11).labels = s.labels
  BY WithoutTableLabels DEF Downgrade0011
<1>15. Downgraded(s, 15).labels = s.labels
  BY WithoutTableLabels DEF Downgrade0015
<1>16. Downgraded(s, 16).labels = s.labels
  BY MinusLabels DEF Downgrade0016
<1>17. Downgraded(s, 17).labels = s.labels
  BY MinusKeys, MinusLabels, WithoutCheckItems, WithoutCheckLabels, WithoutColumnsItems,
     WithoutColumnsLabels, WithoutTableItems, WithoutTableLabels DEF Downgrade0017
<1>20. Downgraded(s, 20).labels = s.labels
  BY WithoutColumnsItems, WithoutColumnsLabels, WithoutTableItems, WithoutTableLabels DEF
     Downgrade0020
<1>23. Downgraded(s, 23).labels = s.labels
  BY MinusLabels DEF Downgrade0023
<1>24. Downgraded(s, 24).labels = s.labels
  BY MinusLabels DEF Downgrade0024
<1>26. Downgraded(s, 26).labels = s.labels
  BY WithoutColumnsLabels DEF Downgrade0026
<1>27. Downgraded(s, 27).labels = s.labels
  BY WithoutColumnsLabels DEF Downgrade0027
<1>28. Downgraded(s, 28).labels = s.labels
  BY WithoutColumnsLabels DEF Downgrade0028
<1>29. Downgraded(s, 29).labels = s.labels
  BY Downgrade29Items
<1>13. \A u \in {13, 14, 25, 30} : Downgraded(s, u).labels = s.labels
  OBVIOUS
<1> QED
  BY <1>2, <1>5, <1>6, <1>8, <1>11, <1>15, <1>16, <1>17, <1>20, <1>23, <1>24, <1>26, <1>27,
     <1>28, <1>29, <1>13

\* No label that a version needs goes with the downgrade to it.
LEMMA LabelsUndone ==
  ASSUME NEW v \in (1..30) \ {3}, NEW a, Made(v - 1, a), v = 1 => a = NoSchema,
         NEW s, DOMAIN s = Fields, Upgraded(a, v).labels \subseteq s.labels
  PROVE  a.labels \subseteq Downgraded(s, v).labels
<1>0. DOMAIN a = Fields /\ \A l \in a.labels : Kind(v - 1, l)
  BY DEF Made, Kinds
<1> USE DowngradedIs
<1>1. CASE v = 1
  BY <1>1, Nothing DEF Fields
<1>2. CASE v \in {4, 9, 10, 12, 19}
  <2>1. a.labels \subseteq s.labels
    BY <1>0, <1>2, ExtendsLabels DEF Extends
  <2>4. CASE v = 4
    <3>1. \A l \in a.labels : l[1] # "member_role"
      BY <1>0, <2>4 DEF Kind
    <3> QED
      BY <2>1, <2>4, <3>1, WithoutTableItems, WithoutTableLabels, WithoutColumnsItems,
         WithoutColumnsLabels, WithoutTypeLabels DEF Downgrade0004
  <2>9. CASE v = 9
    <3>1. \A l \in a.labels : l[1] # "task_relation_type"
      BY <1>0, <2>9 DEF Kind
    <3> QED
      BY <2>1, <2>9, <3>1, WithoutTableItems, WithoutTableLabels, WithoutTypeLabels
         DEF Downgrade0009
  <2>10. CASE v = 10
    <3>1. \A l \in a.labels : l[1] # "project_status"
      BY <1>0, <2>10 DEF Kind
    <3> QED
      BY <2>1, <2>10, <3>1, WithoutTableItems, WithoutTableLabels, WithoutColumnsItems,
         WithoutColumnsLabels, WithoutTypeLabels DEF Downgrade0010
  <2>12. CASE v = 12
    <3>1. \A l \in a.labels : l[1] # "team_role"
      BY <1>0, <2>12 DEF Kind
    <3> QED
      BY <2>1, <2>12, <3>1, WithoutColumnsItems, WithoutColumnsLabels, WithoutTypeLabels
         DEF Downgrade0012
  <2>19. CASE v = 19
    <3>1. \A l \in a.labels : l[1] # "notification_type"
      BY <1>0, <2>19 DEF Kind
    <3> QED
      BY <2>1, <2>19, <3>1, WithoutTableItems, WithoutTableLabels, WithoutTypeLabels
         DEF Downgrade0019
  <2> QED
    BY <1>2, <2>4, <2>9, <2>10, <2>12, <2>19
<1>3. CASE v \in {7, 18, 21, 22}
  <2>7. CASE v = 7
    <3>1. PICK names : names = {"PENDING", "IN_PROGRESS", "BLOCKED", "DONE", "CANCELLED"}
      OBVIOUS
    <3>2. PICK t : t = Retyped(s, "task_status", names)
      OBVIOUS
    <3>3. DOMAIN t = Fields /\ a.labels \subseteq t.labels
      <4>1. \A l \in a.labels : l[1] = "task_status" => \E n \in names : l = <<"task_status", n>>
        BY <1>0, <2>7, <3>1 DEF Kind, Basic
      <4>2. \A l \in a.labels : l[1] # "task_status" => l \in s.labels
        BY <1>0, <2>7, ReplacesLabels DEF Replaces
      <4> QED
        BY <3>2, <4>1, <4>2, RetypedLabels, RetypedItems
    <3>4. PICK u : u = Minus(t, [unique |-> {Key("tasks", {"workspace_id", "seq"})}])
      OBVIOUS
    <3>5. PICK w : w = WithoutColumns(u, "tasks", {"is_blocked", "seq"})
      OBVIOUS
    <3>6. Downgraded(s, 7) = WithoutColumns(w, "workspaces", {"next_task_seq", "task_prefix"})
      BY <3>1, <3>2, <3>4, <3>5 DEF Downgrade0007
    <3>7. DOMAIN u = Fields /\ u.labels = t.labels
      BY <3>3, <3>4, MinusKeys, MinusLabels
    <3>8. DOMAIN w = Fields /\ w.labels = t.labels
      BY <3>5, <3>7, WithoutColumnsItems, WithoutColumnsLabels
    <3> QED
      BY <2>7, <3>3, <3>6, <3>8, WithoutColumnsLabels
  <2>18. CASE v = 18
    <3>1. \A l \in a.labels : l[1] = "member_role" => \E n \in Roles : l = <<"member_role", n>>
      BY <1>0, <2>18 DEF Kind
    <3>2. \A l \in a.labels : l[1] # "member_role" => l \in s.labels
      BY <1>0, <2>18, ReplacesLabels DEF Replaces
    <3>3. Downgraded(s, 18) = Retyped(s, "member_role", Roles)
      BY DEF Downgrade0018, Roles
    <3> QED
      BY <2>18, <3>1, <3>2, <3>3, RetypedLabels
  <2>21. CASE v = 21
    <3>1. PICK r : r = WithoutTable(s, "audit_logs")
      OBVIOUS
    <3>2. DOMAIN r = Fields /\ r.labels = s.labels
      BY <3>1, WithoutTableItems, WithoutTableLabels
    <3>3. PICK names :
            names = (Labels(s, "member_role") \ {"WORKSPACE_USER"}) \cup {"WORKSPACE_MEMBER"}
      OBVIOUS
    <3>4. Downgraded(s, 21) = Retyped(r, "member_role", names)
      BY <3>1, <3>3 DEF Downgrade0021
    <3>5. PICK news :
            news = (Labels(a, "member_role") \ {"WORKSPACE_MEMBER"}) \cup {"WORKSPACE_USER"}
      OBVIOUS
    <3>6. Replaces(a, Upgraded(a, 21), "member_role", news)
      BY <1>0, <3>5, ReplacesLabels
    <3>7. \A l \in a.labels : l[1] # "member_role" => l \in s.labels
      BY <2>21, <3>6 DEF Replaces
    <3>8. ASSUME NEW l \in a.labels, l[1] = "member_role"
          PROVE  l[2] \in names /\ l = <<"member_role", l[2]>>
      <4>1. l = <<"member_role", l[2]>> /\ l[2] # "WORKSPACE_USER"
        BY <1>0, <2>21, <3>8 DEF Kind
      <4>2. CASE l[2] = "WORKSPACE_MEMBER"
        BY <3>3, <4>1, <4>2
      <4>3. CASE l[2] # "WORKSPACE_MEMBER"
        <5>1. l[2] \in Labels(a, "member_role")
          BY <3>8 DEF Labels
        <5>2. l \in s.labels
          BY <2>21, <3>5, <3>6, <4>1, <4>3, <5>1 DEF Replaces
        <5>3. l[2] \in Labels(s, "member_role")
          BY <3>8, <5>2 DEF Labels
        <5> QED
          BY <3>3, <4>1, <5>3
      <4> QED
        BY <4>2, <4>3
    <3> QED
      BY <2>21, <3>2, <3>4, <3>7, <3>8, RetypedLabels
  <2>22. CASE v = 22
    <3>1. \A l \in a.labels : l[1] = "team_role" => \E n \in TeamRoles : l = <<"team_role", n>>
      BY <1>0, <2>22 DEF Kind
    <3>2. \A l \in a.labels : l[1] # "team_role" => l \in s.labels
      BY <1>0, <2>22, ReplacesLabels DEF Replaces
    <3>3. PICK t : t = Retyped(s, "team_role", TeamRoles)
      OBVIOUS
    <3>4. DOMAIN t = Fields /\ a.labels \subseteq t.labels
      BY <3>1, <3>2, <3>3, RetypedLabels, RetypedItems
    <3>5. Downgraded(s, 22) = WithoutColumns(t, "departments", {"head_id"})
      BY <3>3 DEF Downgrade0022, TeamRoles
    <3> QED
      BY <2>22, <3>4, <3>5, WithoutColumnsLabels
  <2> QED
    BY <1>3, <2>7, <2>18, <2>21, <2>22
<1>4. CASE v \notin {1, 4, 7, 9, 10, 12, 18, 19, 21, 22}
  <2>1. a.labels \subseteq Upgraded(a, v).labels
    <3>1. CASE v \in {2, 14, 30}
      BY <1>0, <3>1, ExtendsLabels DEF Extends
    <3>2. CASE v \notin {2, 14, 30}
      BY <1>0, <1>4, <3>2, KeepsLabels
    <3> QED
      BY <3>1, <3>2
  <2>2. Downgraded(s, v).labels = s.labels
    BY <1>4, KeepsLabelsDown
  <2> QED
    BY <2>1, <2>2
<1> QED
  BY <1>1, <1>2, <1>3, <1>4

LEMMA CoversDown ==
  ASSUME NEW v \in (1..30) \ {3}, NEW s, Covers(s, SchemaAt[v])
  PROVE  Covers(Downgraded(s, v), SchemaAt[v - 1])
<1>1. PICK a : a = SchemaAt[v - 1]
  OBVIOUS
<1>2. SchemaAt[v] = Upgraded(a, v) /\ (v = 1 => a = NoSchema) /\ Made(v - 1, a)
  BY <1>1, SchemaSteps, MadeAtRevisions
<1>3. DOMAIN s = Fields /\ Upgraded(a, v).labels \subseteq s.labels
  BY <1>2 DEF Covers
<1>4. \A f \in Items : s[f] = Upgraded(a, v)[f]
  BY <1>2 DEF Covers
<1>5. /\ DOMAIN Downgraded(s, v) = Fields
      /\ \A f \in Items : Downgraded(s, v)[f] = a[f]
  BY <1>2, <1>3, <1>4, ItemsUndone
<1>6. a.labels \subseteq Downgraded(s, v).labels
  BY <1>2, <1>3, LabelsUndone
<1> QED
  BY <1>1, <1>5, <1>6 DEF Covers

LEMMA SameItemsUp ==
  ASSUME NEW v \in 1..30, NEW s, DOMAIN s = Fields, NEW a, DOMAIN a = Fields,
         \A f \in Items : s[f] = a[f]
  PROVE  /\ DOMAIN Upgraded(s, v) = Fields
         /\ \A f \in Items : Upgraded(s, v)[f] = Upgraded(a, v)[f]
<1>1. CASE v \notin {3, 29}
  <2>1. Sum(s, Added(v), Upgraded(s, v)) /\ Sum(a, Added(v), Upgraded(a, v))
    BY <1>1, UpgradesSum
  <2> QED
    BY <2>1 DEF Sum
<1>2. CASE v \in {3, 29}
  <2>1. PICK t : t = Upgraded(s, v)
    OBVIOUS
  <2>2. PICK b : b = Upgraded(a, v)
    OBVIOUS
  <2>3. DOMAIN t = Fields
    BY <1>2, <2>1, Upgrade3Items, Upgrade29Items
  <2>4. ASSUME NEW f \in Items
        PROVE  t[f] = b[f]
    <3>1. CASE v = 3
      <4>1. \A x : x \in t[f] <=> x \in b[f]
        BY <2>1, <2>2, <3>1, Upgrade3Items
      <4> QED
        BY <4>1
    <3>2. CASE v = 29
      <4>1. \A x : x \in t[f] <=> x \in b[f]
        BY <2>1, <2>2, <3>2, Upgrade29Items
      <4> QED
        BY <4>1
    <3> QED
      BY <1>2, <3>1, <3>2
  <2> QED
    BY <2>1, <2>2, <2>3, <2>4
<1> QED
  BY <1>1, <1>2

\* More labels before an upgrade are more after it.
LEMMA MoreLabelsUp ==
  ASSUME NEW v \in 1..30, NEW s, DOMAIN s = Fields, NEW a, DOMAIN a = Fields,
         a.labels \subseteq s.labels
  PROVE  Upgraded(a, v).labels \subseteq Upgraded(s, v).labels
<1>1. ASSUME NEW t, NEW b, NEW type, NEW more, NEW names, names \subseteq more,
             Extends(s, t, type, more), Extends(a, b, type, names)
      PROVE  b.labels \subseteq t.labels
  BY <1>1 DEF Extends
<1>2. ASSUME NEW t, NEW b, NEW type, NEW more, NEW names, names \subseteq more,
             Replaces(s, t, type, more), Replaces(a, b, type, names)
      PROVE  b.labels \subseteq t.labels
  BY <1>2 DEF Replaces
<1>3. CASE v \notin {1, 2, 3, 4, 7, 9, 10, 12, 14, 18, 19, 21, 22, 30}
  BY <1>3, KeepsLabels
<1>4. CASE v \in {2, 3, 4, 9, 10, 12, 14, 19, 30}
  BY <1>1, <1>4, ExtendsLabels
<1>5. CASE v = 1
  BY <1>5, UpgradedIs, PlusLabels DEF Upgrade0001
<1>6. CASE v \in {7, 18, 22}
  <2>1. PICK names : names = IF v = 7 THEN Basic
                             ELSE IF v = 18
                               THEN {"WORKSPACE_OWNER", "WORKSPACE_ADMIN", "WORKSPACE_MEMBER"}
                               ELSE {"MANAGER", "LEAD", "MEMBER"}
    OBVIOUS
  <2>2. PICK type : type = IF v = 7 THEN "task_status"
                           ELSE IF v = 18 THEN "member_role" ELSE "team_role"
    OBVIOUS
  <2>3. Replaces(s, Upgraded(s, v), type, names) /\ Replaces(a, Upgraded(a, v), type, names)
    BY <1>6, <2>1, <2>2, ReplacesLabels
  <2> QED
    BY <1>2, <2>3
<1>7. CASE v = 21
  <2>1. PICK more :
          more = (Labels(s, "member_role") \ {"WORKSPACE_MEMBER"}) \cup {"WORKSPACE_USER"}
    OBVIOUS
  <2>2. PICK names :
          names = (Labels(a, "member_role") \ {"WORKSPACE_MEMBER"}) \cup {"WORKSPACE_USER"}
    OBVIOUS
  <2>3. Labels(a, "member_role") \subseteq Labels(s, "member_role")
    BY DEF Labels
  <2>4. Replaces(s, Upgraded(s, 21), "member_role", more)
    BY <2>1, ReplacesLabels
  <2>5. Replaces(a, Upgraded(a, 21), "member_role", names)
    BY <2>2, ReplacesLabels
  <2>6. names \subseteq more
    BY <2>1, <2>2, <2>3
  <2> QED
    BY <1>2, <1>7, <2>4, <2>5, <2>6
<1> QED
  BY <1>3, <1>4, <1>5, <1>6, <1>7

LEMMA CoversUp ==
  ASSUME NEW v \in 1..30, NEW s, Covers(s, SchemaAt[v - 1])
  PROVE  Covers(Upgraded(s, v), SchemaAt[v])
<1>1. PICK a : a = SchemaAt[v - 1]
  OBVIOUS
<1>2. SchemaAt[v] = Upgraded(a, v) /\ DOMAIN a = Fields
  BY <1>1, SchemaSteps, MadeAtRevisions DEF Made
<1>3. DOMAIN s = Fields /\ a.labels \subseteq s.labels /\ \A f \in Items : s[f] = a[f]
  BY <1>1 DEF Covers
<1> QED
  BY <1>2, <1>3, SameItemsUp, MoreLabelsUp DEF Covers

\* 0014 commits its label with the version before it.
LEMMA CoversBefore14 ==
  ASSUME NEW s, NEW r, Covers(s, r)
  PROVE  Covers(Upgraded(s, 14), r)
<1>1. DOMAIN s = Fields
  BY DEF Covers
<1>2. /\ DOMAIN Upgraded(s, 14) = Fields /\ s.labels \subseteq Upgraded(s, 14).labels
      /\ \A f \in Items : Upgraded(s, 14)[f] = s[f]
  BY <1>1, UpgradedIs DEF Upgrade0014, Plus, Items, Fields
<1> QED
  BY <1>2 DEF Covers

\* The revisions of the schema, and of the one that it falls back to.
Rests == Covers(schema, SchemaAt[version]) /\ Covers(saved.schema, SchemaAt[saved.version])

LEMMA RestsAtFirst == Init => Rests
<1> SUFFICES ASSUME Init PROVE Rests
  OBVIOUS
<1>1. PICK d \in Databases : version = d.version /\ schema = SchemaAt[d.version]
  BY DEF Init
<1>2. d.version \in 0..30
  BY <1>1, MigrationsAssumption DEF Latest
<1>3. DOMAIN SchemaAt[d.version] = Fields
  BY <1>2, MadeAtRevisions DEF Made
<1>4. saved.version = version /\ saved.schema = schema
  BY DEF Init
<1> QED
  BY <1>1, <1>3, <1>4 DEF Rests, Covers

LEMMA RestsStep == Rests /\ Inv /\ [Next]_vars => Rests'
<1> SUFFICES ASSUME Rests, Inv, [Next]_vars PROVE Rests'
  OBVIOUS
<1>0. version \in 0..30
  BY DEF Inv, Sound
<1>1. ASSUME NEW g \in Goals, Begin(g) PROVE Rests'
  BY <1>1 DEF Begin, Rests
<1>2. CASE Upgrade
  <2>1. /\ version < goal /\ version' = version + 1
        /\ schema' = Upgraded(schema, version + 1)
    BY <1>2 DEF Upgrade
  <2>2. goal \in 0..30 \cup {-1}
    BY Bounds DEF Inv, NoGoal
  <2>3. version + 1 \in 1..30 /\ version + 1 - 1 = version
    BY <1>0, <2>1, <2>2
  <2>4. Covers(schema', SchemaAt[version'])
    <3>1. PICK v \in 1..30 : v = version + 1 /\ v - 1 = version
      BY <1>0, <2>3
    <3>2. Covers(schema, SchemaAt[v - 1])
      BY <3>1 DEF Rests
    <3>3. Covers(Upgraded(schema, v), SchemaAt[v])
      BY <3>2, CoversUp
    <3> QED
      BY <2>1, <3>1, <3>3
  <2>5. Covers(saved'.schema, SchemaAt[saved'.version])
    <3>1. CASE version + 1 = 14
      <4>1. saved'.version = version /\ saved'.schema = schema'
        BY <1>2, <3>1 DEF Upgrade
      <4>2. Covers(schema', SchemaAt[version])
        BY <2>1, <3>1, CoversBefore14 DEF Rests
      <4> QED
        BY <4>1, <4>2
    <3>2. CASE version + 1 # 14
      <4>1. saved' = saved
        BY <1>2, <3>2 DEF Upgrade
      <4> QED
        BY <4>1 DEF Rests
    <3> QED
      BY <3>1, <3>2
  <2> QED
    BY <2>4, <2>5 DEF Rests
<1>3. CASE Downgrade
  <2>1. /\ goal # NoGoal /\ version > goal /\ version' = version - 1
        /\ schema' = Downgraded(schema, version) /\ saved' = saved
        /\ DowngradeRuns(version)
    BY <1>3 DEF Downgrade
  <2>2. goal \in 0..30
    BY <2>1, Bounds DEF Inv
  <2>3. version # 3
    <3>1. SUFFICES ASSUME version = 3 PROVE FALSE
      OBVIOUS
    <3>2. PICK c \in schema.checks :
            c[1] = "credentials" /\ c[2] = "ck_credentials_at_least_one_secret"
      BY <2>1, <3>1 DEF DowngradeRuns
    <3>3. c \in SchemaAt[3].checks
      BY <3>1 DEF Rests, Covers, Items, Fields
    <3>4. Secrets(3, SchemaAt[3])
      BY MadeAtRevisions DEF Made
    <3>5. c = ThirdCheck
      BY <3>2, <3>3, <3>4 DEF Secrets
    <3> QED
      BY <3>2, <3>5 DEF ThirdCheck
  <2>4. version \in (1..30) \ {3}
    BY <1>0, <2>1, <2>2, <2>3
  <2>5. Covers(Downgraded(schema, version), SchemaAt[version - 1])
    BY <2>4, CoversDown DEF Rests
  <2> QED
    BY <2>1, <2>5 DEF Rests
<1>4. CASE Commit
  BY <1>4 DEF Commit, Rests
<1>5. CASE Refuse
  BY <1>5 DEF Refuse, Rests
<1>6. CASE Interrupt
  BY <1>6 DEF Interrupt, Rests
<1>7. CASE SignUp
  <2>1. version' = version /\ schema' = schema /\ saved' = [saved EXCEPT !.rows = rows']
    BY <1>7 DEF SignUp
  <2>2. saved = [version |-> saved.version, schema |-> saved.schema, rows |-> saved.rows]
    BY DEF Inv
  <2>3. saved'.version = saved.version /\ saved'.schema = saved.schema
    BY <2>1, <2>2
  <2> QED
    BY <2>1, <2>3 DEF Rests
<1>8. CASE UNCHANGED vars
  BY <1>8 DEF vars, Rests
<1> QED
  BY <1>1, <1>2, <1>3, <1>4, <1>5, <1>6, <1>7, <1>8 DEF Next

LEMMA AlwaysRests == Spec => []Rests
BY RestsAtFirst, RestsStep, Invariance, PTL DEF Spec

(***************************************************************************)
(* Whatever was refused, interrupted, taken down and built up again, the   *)
(* schema is that of its version, but for labels that PostgreSQL cannot    *)
(* take back: every downgrade undoes its upgrade, in any order of commands.*)
(***************************************************************************)
THEOREM AlwaysAtARevision == Spec => []RestsOnARevision
<1>1. Rests => RestsOnARevision
  BY DEF Rests, RestsOnARevision, Covers, Items
<1> QED
  BY AlwaysRests, <1>1, PTL

-----------------------------------------------------------------------------
(***************************************************************************)
(* The head: what all the revisions have added, and the models.            *)
(***************************************************************************)
\* What revisions up to n have added and taken away again.
Gone(n, f, x) ==
  \/ n >= 3 /\ f = "checks" /\ x = FirstCheck
  \/ n >= 29 /\ f = "checks" /\ x = ThirdCheck
  \/ n >= 29 /\ f = "nullable" /\ x = SecretHash

Gathered(n, s) ==
  \A f \in Items : \A x :
    x \in s[f] <=> (\E v \in 1..n : x \in Added(v)[f]) /\ ~Gone(n, f, x)

LEMMA GatheredUp ==
  ASSUME NEW n \in 1..30, NEW s, Made(n - 1, s), Gathered(n - 1, s)
  PROVE  Gathered(n, Upgraded(s, n))
<1>0. DOMAIN s = Fields
  BY DEF Made
<1>1. ASSUME NEW f, NEW x
      PROVE  (\E v \in 1..n : x \in Added(v)[f])
               <=> (\E v \in 1..(n - 1) : x \in Added(v)[f]) \/ x \in Added(n)[f]
  <2>1. \A v : v \in 1..n <=> v \in 1..(n - 1) \/ v = n
    OBVIOUS
  <2> QED
    BY <2>1
<1>2. ASSUME NEW f \in Items, NEW x
      PROVE  x \in Upgraded(s, n)[f]
               <=> (x \in s[f] \/ x \in Added(n)[f]) /\ ~Gone(n, f, x)
  <2>1. CASE n \notin {3, 29}
    <3>1. x \in Upgraded(s, n)[f] <=> x \in s[f] \/ x \in Added(n)[f]
      <4>1. Sum(s, Added(n), Upgraded(s, n))
        BY <1>0, <2>1, UpgradesSum
      <4> QED
        BY <4>1 DEF Sum
    <3>2. x \in s[f] => ~Gone(n, f, x)
      <4>1. n - 1 >= 3 <=> n >= 3
        BY <2>1
      <4>2. n - 1 >= 29 <=> n >= 29
        BY <2>1
      <4> QED
        BY <4>1, <4>2 DEF Gathered, Gone
    <3>3. x \in Added(n)[f] => ~Gone(n, f, x)
      <4>1. SUFFICES ASSUME x \in Added(n)[f], n > 1 PROVE ~Gone(n, f, x)
        BY DEF Gone
      <4>2. x[1] # "credentials"
        BY <2>1, <4>1, AddedIsNew DEF AllNew
      <4> QED
        BY <4>2 DEF Gone, FirstCheck, ThirdCheck, SecretHash
    <3> QED
      BY <3>1, <3>2, <3>3
  <2>2. CASE n = 3
    <3>1. x \in Upgraded(s, 3)[f] <=>
            \/ x \in s[f] /\ ~Named(f, x, "ck_credentials_at_least_one_secret")
            \/ x \in Added(3)[f]
      BY <1>0, Upgrade3Items
    <3>2. x \in s[f] => (Named(f, x, "ck_credentials_at_least_one_secret") <=> Gone(3, f, x))
      <4>1. Secrets(2, s)
        BY <2>2 DEF Made
      <4> QED
        BY <4>1 DEF Secrets, Named, Gone, FirstCheck
    <3>3. x \in Added(3)[f] => ~Gone(3, f, x)
      <4>1. Added(3).checks = {ThirdCheck}
        BY <1>0, Upgrade3Items
      <4> QED
        BY <4>1 DEF Gone, FirstCheck, ThirdCheck
    <3> QED
      BY <2>2, <3>1, <3>2, <3>3
  <2>3. CASE n = 29
    <3>1. x \in Upgraded(s, 29)[f] <=>
            \/ /\ x \in s[f] /\ ~Named(f, x, "at_least_one_secret")
               /\ ~On(f, x, "credentials", {"agent_secret_hash"})
            \/ x \in Added(29)[f]
      BY <1>0, Upgrade29Items
    <3>2. Secrets(28, s)
      BY <2>3 DEF Made
    <3>3. x \in s[f] => (\/ Named(f, x, "at_least_one_secret")
                         \/ On(f, x, "credentials", {"agent_secret_hash"})
                         <=> Gone(29, f, x))
      <4>1. x \in s[f] => ~(f = "checks" /\ x = FirstCheck)
        BY <2>3 DEF Gathered, Gone
      <4>2. CASE f = "required"
        BY <3>2, <4>2 DEF Secrets, On, Named, Gone, SecretHash
      <4>3. CASE f = "nullable"
        BY <3>2, <4>3 DEF Secrets, On, Named, Gone, SecretHash
      <4>4. CASE f = "unique"
        BY <3>2, <4>4 DEF Secrets, On, Named, Gone
      <4>5. CASE f = "refs"
        BY <3>2, <4>5 DEF Secrets, On, Named, Gone
      <4>6. CASE f = "checks"
        BY <3>2, <4>1, <4>6 DEF Secrets, On, Named, Gone, ThirdCheck
      <4> QED
        BY <4>2, <4>3, <4>4, <4>5, <4>6 DEF Items, Fields
    <3>4. x \in Added(29)[f] => ~Gone(29, f, x)
      BY <1>0, Upgrade29Items DEF Gone, LastCheck, FirstCheck, ThirdCheck, SecretHash
    <3> QED
      BY <2>3, <3>1, <3>3, <3>4
  <2> QED
    BY <2>1, <2>2, <2>3
<1>3. ASSUME NEW f \in Items, NEW x
      PROVE  x \in Upgraded(s, n)[f]
               <=> (\E v \in 1..n : x \in Added(v)[f]) /\ ~Gone(n, f, x)
  <2>1. x \in s[f] <=> (\E v \in 1..(n - 1) : x \in Added(v)[f]) /\ ~Gone(n - 1, f, x)
    BY DEF Gathered
  <2>2. Gone(n - 1, f, x) => Gone(n, f, x)
    BY DEF Gone
  <2> QED
    BY <1>1, <1>2, <2>1, <2>2
<1> QED
  BY <1>3 DEF Gathered

LEMMA GatheredAtRevisions == \A v \in 0..30 : Gathered(v, SchemaAt[v])
<1>1. PICK T : T = {v \in 0..30 : ~Gathered(v, SchemaAt[v])}
  OBVIOUS
<1>2. SUFFICES ASSUME T # {} PROVE FALSE
  BY <1>1
<1>3. PICK n \in T : \A m \in T : n <= m
  <2>1. T \subseteq Nat
    BY <1>1
  <2> QED
    BY <1>2, <2>1, LeastNumber
<1>4. Gathered(0, SchemaAt[0])
  <2>1. SchemaAt[0] = NoSchema
    BY SchemaSteps
  <2> QED
    BY <2>1, Nothing DEF Gathered, Items
<1>5. n \in 1..30 /\ n - 1 \in 0..30 /\ n - 1 \notin T
  BY <1>1, <1>3, <1>4
<1>6. PICK s : s = SchemaAt[n - 1]
  OBVIOUS
<1>7. Made(n - 1, s) /\ Gathered(n - 1, s) /\ SchemaAt[n] = Upgraded(s, n)
  BY <1>1, <1>5, <1>6, MadeAtRevisions, SchemaSteps
<1> QED
  BY <1>1, <1>3, <1>5, <1>7, GatheredUp

Parts == {UserModel, WorkspaceModel, DepartmentModel, TeamModel, ProjectModel, MemberModel,
          CredentialsModel, AgentApiKeyModel, TaskModel, InviteModel, TaskActivityModel,
          TaskCommentModel, TaskRequestModel, TaskRelationModel, TaskRatingModel,
          NotificationModel, AuditLogModel, Enums}

LEMMA PartsOfModels ==
  ASSUME NEW f \in Fields, NEW x
  PROVE  x \in ModelSchema[f] <=> \E p \in Parts : f \in DOMAIN p /\ x \in p[f]
<1>1. ModelSchema[f] = UNION {p[f] : p \in {q \in Parts : f \in DOMAIN q}}
  BY Nothing DEF ModelSchema, Parts
<1> QED
  BY <1>1

\* Item x is what the models say, but that keys and checks may have more to them.
Declared(f, x) ==
  /\ f \in {"required", "nullable", "refs"} => x \in ModelSchema[f]
  /\ f = "checks" => <<x[1], x[3]>> \in ModelSchema.checks

\* Everything a revision adds is what the models say.
AllDeclared(a) == \A f \in Items : \A x \in a[f] : Gone(30, f, x) \/ Declared(f, x)

LEMMA AddedIsDeclared ==
  ASSUME NEW v \in 1..30
  PROVE  AllDeclared(Added(v))
<1> USE DEF Key, Of, Row, Items, Fields, Declared
<1>1. AllDeclared(Added(1))
  <2>1. PICK a : a = Added(1)
    OBVIOUS
  <2>2. {WorkspaceModel, TeamModel, MemberModel, CredentialsModel, TaskModel} \subseteq Parts
    BY DEF Parts
  <2> USE UpgradedIs, Nothing, PartsOfModels
      DEF Added, Upgrade0001, Plus, WorkspaceModel, TeamModel, MemberModel, CredentialsModel,
          TaskModel, Gone, SecretHash, FirstCheck
  <2>3. \A x \in a.required : Declared("required", x)
    BY <2>1, <2>2
  <2>4. \A x \in a.nullable : Gone(30, "nullable", x) \/ Declared("nullable", x)
    BY <2>1, <2>2
  <2>5. \A x \in a.refs : Declared("refs", x)
    BY <2>1, <2>2
  <2>6. \A x \in a.checks : Gone(30, "checks", x) \/ Declared("checks", x)
    BY <2>1, <2>2
  <2> HIDE UpgradedIs, Nothing, PartsOfModels
      DEF Added, Upgrade0001, Plus, WorkspaceModel, TeamModel, MemberModel, CredentialsModel,
          TaskModel, Gone, SecretHash, FirstCheck
  <2> QED
    BY <2>1, <2>3, <2>4, <2>5, <2>6 DEF AllDeclared
<1>2. AllDeclared(Added(2))
  <2>1. {TaskModel} \subseteq Parts
    BY DEF Parts
  <2> QED
    BY <2>1, PartsOfModels, UpgradedIs, Nothing DEF Added, Upgrade0002, Plus, Gone, AllDeclared,
       TaskModel
<1>3. AllDeclared(Added(3))
  <2>1. CredentialsModel \in Parts
    BY DEF Parts
  <2>2. /\ Added(3).required = {} /\ Added(3).refs = {} /\ Added(3).checks = {ThirdCheck}
        /\ Added(3).nullable = Of("credentials", {"oauth_provider", "oauth_id"})
    BY Nothing, Upgrade3Items
  <2>3. \A x \in Added(3).nullable : Declared("nullable", x)
    BY <2>1, <2>2, PartsOfModels DEF CredentialsModel
  <2> QED
    BY <2>2, <2>3 DEF AllDeclared, Gone
<1>4. AllDeclared(Added(4))
  <2>1. {MemberModel, InviteModel} \subseteq Parts
    BY DEF Parts
  <2> QED
    BY <2>1, PartsOfModels, UpgradedIs, Nothing DEF Added, Upgrade0004, Plus, Gone, AllDeclared,
       MemberModel, InviteModel
<1>5. AllDeclared(Added(5))
  <2>1. {MemberModel, TaskModel, TaskRatingModel} \subseteq Parts
    BY DEF Parts
  <2> QED
    BY <2>1, PartsOfModels, UpgradedIs, Nothing DEF Added, Upgrade0005, Plus, Gone, AllDeclared,
       MemberModel, TaskModel, TaskRatingModel
<1>6. AllDeclared(Added(6))
  <2>1. {MemberModel} \subseteq Parts
    BY DEF Parts
  <2> QED
    BY <2>1, PartsOfModels, UpgradedIs, Nothing DEF Added, Upgrade0006, Plus, Gone, AllDeclared,
       MemberModel
<1>7. AllDeclared(Added(7))
  <2>1. {WorkspaceModel, TaskModel} \subseteq Parts
    BY DEF Parts
  <2>2. AllDeclared(Plus(NoSchema, Numbers))
    BY <2>1, PartsOfModels, Nothing DEF Numbers, Plus, Gone, AllDeclared, WorkspaceModel, TaskModel
  <2> QED
    BY <2>2, RetypedAdds DEF AllDeclared
<1>8. AllDeclared(Added(8))
  <2>1. {TaskCommentModel} \subseteq Parts
    BY DEF Parts
  <2> QED
    BY <2>1, PartsOfModels, UpgradedIs, Nothing DEF Added, Upgrade0008, Plus, Gone, AllDeclared,
       TaskCommentModel
<1>9. AllDeclared(Added(9))
  <2>1. {TaskRelationModel} \subseteq Parts
    BY DEF Parts
  <2> QED
    BY <2>1, PartsOfModels, UpgradedIs, Nothing DEF Added, Upgrade0009, Plus, Gone, AllDeclared,
       TaskRelationModel
<1>10. AllDeclared(Added(10))
  <2>1. {ProjectModel, TaskModel} \subseteq Parts
    BY DEF Parts
  <2> QED
    BY <2>1, PartsOfModels, UpgradedIs, Nothing DEF Added, Upgrade0010, Plus, Gone, AllDeclared,
       ProjectModel, TaskModel
<1>11. AllDeclared(Added(11))
  <2>1. {TaskActivityModel} \subseteq Parts
    BY DEF Parts
  <2> QED
    BY <2>1, PartsOfModels, UpgradedIs, Nothing DEF Added, Upgrade0011, Plus, Gone, AllDeclared,
       TaskActivityModel
<1>12. AllDeclared(Added(12))
  <2>1. {MemberModel} \subseteq Parts
    BY DEF Parts
  <2> QED
    BY <2>1, PartsOfModels, UpgradedIs, Nothing DEF Added, Upgrade0012, Plus, Gone, AllDeclared,
       MemberModel
<1>14. AllDeclared(Added(14))
  BY UpgradedIs, Nothing DEF Added, Upgrade0014, Plus, AllDeclared
<1>15. AllDeclared(Added(15))
  <2>1. {TaskRequestModel} \subseteq Parts
    BY DEF Parts
  <2> QED
    BY <2>1, PartsOfModels, UpgradedIs, Nothing DEF Added, Upgrade0015, Plus, Gone, AllDeclared,
       TaskRequestModel
<1>16. AllDeclared(Added(16))
  BY UpgradedIs, Nothing DEF Added, Upgrade0016, Plus, AllDeclared
<1>17. AllDeclared(Added(17))
  <2>1. {UserModel, MemberModel} \subseteq Parts
    BY DEF Parts
  <2> QED
    BY <2>1, PartsOfModels, UpgradedIs, Nothing DEF Added, Upgrade0017, Plus, Gone, AllDeclared,
       UserModel, MemberModel
<1>18. AllDeclared(Added(18))
  BY RetypedAdds DEF AllDeclared
<1>19. AllDeclared(Added(19))
  <2>1. {NotificationModel} \subseteq Parts
    BY DEF Parts
  <2> QED
    BY <2>1, PartsOfModels, UpgradedIs, Nothing DEF Added, Upgrade0019, Plus, Gone, AllDeclared,
       NotificationModel
<1>20. AllDeclared(Added(20))
  <2>1. {DepartmentModel, MemberModel, TeamModel} \subseteq Parts
    BY DEF Parts
  <2> QED
    BY <2>1, PartsOfModels, UpgradedIs, Nothing DEF Added, Upgrade0020, Plus, Gone, AllDeclared,
       DepartmentModel, MemberModel, TeamModel
<1>21. AllDeclared(Added(21))
  <2>1. {AuditLogModel} \subseteq Parts
    BY DEF Parts
  <2>2. AllDeclared(Plus(NoSchema, Audits))
    BY <2>1, PartsOfModels, Nothing DEF Audits, Plus, Gone, AllDeclared, AuditLogModel
  <2> QED
    BY <2>2, RetypedAdds DEF AllDeclared
<1>22. AllDeclared(Added(22))
  <2>1. {DepartmentModel} \subseteq Parts
    BY DEF Parts
  <2>2. AllDeclared(Plus(NoSchema, Heads))
    BY <2>1, PartsOfModels, Nothing DEF Heads, Plus, Gone, AllDeclared, DepartmentModel
  <2> QED
    BY <2>2, RetypedAdds DEF AllDeclared
<1>23. AllDeclared(Added(23))
  BY UpgradedIs, Nothing DEF Added, Upgrade0023, Plus, AllDeclared
<1>24. AllDeclared(Added(24))
  BY UpgradedIs, Nothing DEF Added, Upgrade0024, Plus, AllDeclared
<1>26. AllDeclared(Added(26))
  <2>1. {UserModel} \subseteq Parts
    BY DEF Parts
  <2> QED
    BY <2>1, PartsOfModels, UpgradedIs, Nothing DEF Added, Upgrade0026, Plus, Gone, AllDeclared,
       UserModel
<1>27. AllDeclared(Added(27))
  <2>1. {WorkspaceModel} \subseteq Parts
    BY DEF Parts
  <2> QED
    BY <2>1, PartsOfModels, UpgradedIs, Nothing DEF Added, Upgrade0027, Plus, Gone, AllDeclared,
       WorkspaceModel
<1>28. AllDeclared(Added(28))
  <2>1. {UserModel} \subseteq Parts
    BY DEF Parts
  <2> QED
    BY <2>1, PartsOfModels, UpgradedIs, Nothing DEF Added, Upgrade0028, Plus, Gone, AllDeclared,
       UserModel
<1>29. AllDeclared(Added(29))
  <2>1. {AgentApiKeyModel, CredentialsModel} \subseteq Parts
    BY DEF Parts
  <2>2. AllDeclared(Plus(NoSchema, AgentKeys))
    BY <2>1, PartsOfModels, Nothing DEF AgentKeys, Plus, Gone, AllDeclared, AgentApiKeyModel,
       CredentialsModel
  <2> QED
    BY <2>2, Nothing, Upgrade29Items DEF AllDeclared
<1>30. AllDeclared(Added(30))
  BY UpgradedIs, Nothing DEF Added, Upgrade0030, Plus, AllDeclared
<1>31. AllDeclared(Added(13)) /\ AllDeclared(Added(25))
  BY UpgradedIs, Nothing DEF Added, AllDeclared
<1> QED
  BY <1>1, <1>2, <1>3, <1>4, <1>5, <1>6, <1>7, <1>8, <1>9, <1>10, <1>11, <1>12, <1>14, <1>15,
     <1>16, <1>17, <1>18, <1>19, <1>20, <1>21, <1>22, <1>23, <1>24, <1>26, <1>27, <1>28,
     <1>29, <1>30, <1>31

\* A revision adds x to field f, and none takes it away.
Stays(f, x) == (\E v \in 1..30 : x \in Added(v)[f]) /\ ~Gone(30, f, x)

\* Some check of that kind stays on the table.
Checked(x) == \E c : Stays("checks", c) /\ x = <<c[1], c[3]>>

\* All that the model of a table declares.
Provided(p) ==
  /\ \A f \in DOMAIN p \ {"checks", "labels"} : f \in Items /\ \A x \in p[f] : Stays(f, x)
  /\ "checks" \in DOMAIN p => \A x \in p.checks : Checked(x)

LEMMA CheckStays ==
  ASSUME NEW table, NEW name, NEW check, Stays("checks", <<table, name, check>>)
  PROVE  Checked(<<table, check>>)
<1>1. PICK c : c = <<table, name, check>>
  OBVIOUS
<1>2. c[1] = table /\ c[3] = check
  BY <1>1
<1> QED
  BY <1>1, <1>2 DEF Checked

\* What a revision adds to other tables than the credentials stays.
LEMMA StaysOnceAdded ==
  ASSUME NEW v \in 1..30, NEW f, NEW x, x \in Added(v)[f], x[1] # "credentials"
  PROVE  Stays(f, x)
BY DEF Stays, Gone, FirstCheck, ThirdCheck, SecretHash

LEMMA AddedBeside ==
  /\ Added(7).required = Numbers.required /\ Added(7).unique = Numbers.unique
  /\ Added(21).required = Audits.required /\ Added(21).nullable = Audits.nullable
  /\ Added(21).refs = Audits.refs
  /\ Added(22).nullable = Heads.nullable /\ Added(22).refs = Heads.refs
  /\ Added(29).required = AgentKeys.required /\ Added(29).nullable = AgentKeys.nullable
  /\ Added(29).unique = AgentKeys.unique /\ Added(29).refs = AgentKeys.refs
  /\ Added(29).checks = AgentKeys.checks
<1>0. {"required", "nullable", "unique", "refs", "checks"} \subseteq Items
  BY DEF Items, Fields
<1>1. ASSUME NEW c, NEW f \in Items, f \in DOMAIN c
      PROVE  Plus(NoSchema, c)[f] = c[f]
  BY <1>1, Nothing DEF Plus, Items
<1>7. Added(7).required = Numbers.required /\ Added(7).unique = Numbers.unique
  <2>1. "required" \in DOMAIN Numbers /\ "unique" \in DOMAIN Numbers
    BY DEF Numbers
  <2> QED
    BY <1>0, <1>1, <2>1, RetypedAdds
<1>21. /\ Added(21).required = Audits.required /\ Added(21).nullable = Audits.nullable
       /\ Added(21).refs = Audits.refs
  <2>1. {"required", "nullable", "refs"} \subseteq DOMAIN Audits
    BY DEF Audits
  <2> QED
    BY <1>0, <1>1, <2>1, RetypedAdds
<1>22. Added(22).nullable = Heads.nullable /\ Added(22).refs = Heads.refs
  <2>1. {"nullable", "refs"} \subseteq DOMAIN Heads
    BY DEF Heads
  <2> QED
    BY <1>0, <1>1, <2>1, RetypedAdds
<1>29. /\ Added(29).required = AgentKeys.required /\ Added(29).nullable = AgentKeys.nullable
       /\ Added(29).unique = AgentKeys.unique /\ Added(29).refs = AgentKeys.refs
       /\ Added(29).checks = AgentKeys.checks
  <2>1. {"required", "nullable", "unique", "refs", "checks"} \subseteq DOMAIN AgentKeys
    BY DEF AgentKeys
  <2>2. \A f \in Items : Added(29)[f] = Plus(NoSchema, AgentKeys)[f]
    BY Nothing, Upgrade29Items
  <2> QED
    BY <1>0, <1>1, <2>1, <2>2
<1> QED
  BY <1>7, <1>21, <1>22, <1>29

LEMMA ModelsAreProvided == \A p \in Parts : Provided(p)
<1> USE DEF Key, Of, Row, Plus, Items, Fields
<1>1. Provided(WorkspaceModel)
  <2>1. \A x \in WorkspaceModel.required :
          /\ x[1] = "workspaces"
          /\ x \in Added(1).required \/ x \in Added(7).required
    BY UpgradedIs, Nothing, AddedBeside DEF Added, Upgrade0001, Numbers, WorkspaceModel
  <2>2. \A x \in WorkspaceModel.nullable :
          /\ x[1] = "workspaces"
          /\ x \in Added(27).nullable
    BY UpgradedIs, Nothing DEF Added, Upgrade0027, WorkspaceModel
  <2>3. \A x \in WorkspaceModel.unique :
          /\ x[1] = "workspaces"
          /\ x \in Added(1).unique \/ x \in Added(16).unique
    BY UpgradedIs, Nothing DEF Added, Upgrade0001, Upgrade0016, WorkspaceModel
  <2> QED
    BY <2>1, <2>2, <2>3, StaysOnceAdded DEF Provided, WorkspaceModel
<1>2. Provided(TeamModel)
  <2>1. \A x \in TeamModel.required :
          /\ x[1] = "teams"
          /\ x \in Added(1).required
    BY UpgradedIs, Nothing DEF Added, Upgrade0001, TeamModel
  <2>2. \A x \in TeamModel.nullable :
          /\ x[1] = "teams"
          /\ x \in Added(20).nullable
    BY UpgradedIs, Nothing DEF Added, Upgrade0020, TeamModel
  <2>3. \A x \in TeamModel.unique :
          /\ x[1] = "teams"
          /\ x \in Added(1).unique
    BY UpgradedIs, Nothing DEF Added, Upgrade0001, TeamModel
  <2>4. \A x \in TeamModel.refs :
          /\ x[1] = "teams"
          /\ x \in Added(1).refs \/ x \in Added(20).refs
    BY UpgradedIs, Nothing DEF Added, Upgrade0001, Upgrade0020, TeamModel
  <2> QED
    BY <2>1, <2>2, <2>3, <2>4, StaysOnceAdded DEF Provided, TeamModel
<1>3. Provided(MemberModel)
  <2>1. \A x \in MemberModel.required :
          /\ x[1] = "members"
          /\ x \in Added(1).required \/ x \in Added(4).required \/ x \in Added(20).required
    BY UpgradedIs, Nothing DEF Added, Upgrade0001, Upgrade0004, Upgrade0020, MemberModel
  <2>2. \A x \in MemberModel.nullable :
          /\ x[1] = "members"
          /\ \/ x \in Added(1).nullable
             \/ x \in Added(5).nullable
             \/ x \in Added(6).nullable
             \/ x \in Added(12).nullable
             \/ x \in Added(17).nullable
    BY UpgradedIs, Nothing DEF Added, Upgrade0001, Upgrade0005, Upgrade0006, Upgrade0012,
       Upgrade0017, MemberModel
  <2>3. \A x \in MemberModel.unique :
          /\ x[1] = "members"
          /\ x \in Added(1).unique \/ x \in Added(17).unique \/ x \in Added(24).unique
    BY UpgradedIs, Nothing DEF Added, Upgrade0001, Upgrade0017, Upgrade0024, MemberModel
  <2>4. \A x \in MemberModel.refs :
          /\ x[1] = "members"
          /\ x \in Added(1).refs \/ x \in Added(17).refs
    BY UpgradedIs, Nothing DEF Added, Upgrade0001, Upgrade0017, MemberModel
  <2>5. /\ <<"members", "ck_members_human_must_have_email", "human_email">> \in Added(1).checks
        /\ <<"members", "members_human_has_user", "human_user_agent_none">> \in Added(17).checks
    BY UpgradedIs, Nothing DEF Added, Upgrade0001, Upgrade0017, MemberModel
  <2>6. /\ Stays("checks", <<"members", "ck_members_human_must_have_email", "human_email">>)
        /\ Stays("checks", <<"members", "members_human_has_user", "human_user_agent_none">>)
    BY <2>5, StaysOnceAdded
  <2>7. \A x \in MemberModel.checks : Checked(x)
    BY <2>6, CheckStays DEF MemberModel
  <2> QED
    BY <2>1, <2>2, <2>3, <2>4, <2>7, StaysOnceAdded DEF Provided, MemberModel
<1>4. Provided(CredentialsModel)
  <2>1. \A x \in CredentialsModel.required :
          /\ x[1] = "credentials"
          /\ x \in Added(1).required
    BY UpgradedIs, Nothing DEF Added, Upgrade0001, CredentialsModel
  <2>2. \A x \in CredentialsModel.nullable :
          /\ x[1] = "credentials"
          /\ x \in Added(1).nullable \/ x \in Added(3).nullable
    BY UpgradedIs, Nothing, Upgrade3Items DEF Added, Upgrade0001, ThirdCheck, CredentialsModel
  <2>3. \A x \in CredentialsModel.unique :
          /\ x[1] = "credentials"
          /\ x \in Added(1).unique \/ x \in Added(3).unique
    BY UpgradedIs, Nothing, Upgrade3Items DEF Added, Upgrade0001, ThirdCheck, CredentialsModel
  <2>4. \A x \in CredentialsModel.refs :
          /\ x[1] = "credentials"
          /\ x \in Added(1).refs
    BY UpgradedIs, Nothing DEF Added, Upgrade0001, CredentialsModel
  <2>5. <<"credentials", "at_least_one_secret", "password_or_oauth_identity">> \in Added(29).checks
    BY AddedBeside DEF AgentKeys, CredentialsModel
  <2>6. ASSUME NEW f \in DOMAIN CredentialsModel \ {"checks"}, NEW x \in CredentialsModel[f]
        PROVE  Stays(f, x)
    <3>1. ~Gone(30, f, x)
      BY DEF CredentialsModel, Gone, SecretHash
    <3> QED
      BY <2>1, <2>2, <2>3, <2>4, <3>1 DEF CredentialsModel, Stays
  <2>7. Stays("checks", LastCheck)
    BY <2>5 DEF Stays, Gone, LastCheck, FirstCheck, ThirdCheck
  <2>8. \A x \in CredentialsModel.checks : Checked(x)
    BY <2>7, CheckStays DEF CredentialsModel, LastCheck
  <2> QED
    BY <2>6, <2>8 DEF Provided, CredentialsModel
<1>5. Provided(TaskModel)
  <2>1. \A x \in TaskModel.required :
          /\ x[1] = "tasks"
          /\ x \in Added(1).required \/ x \in Added(5).required \/ x \in Added(7).required
    BY UpgradedIs, Nothing, AddedBeside DEF Added, Upgrade0001, Upgrade0005, Numbers, TaskModel
  <2>2. \A x \in TaskModel.nullable :
          /\ x[1] = "tasks"
          /\ \/ x \in Added(1).nullable
             \/ x \in Added(2).nullable
             \/ x \in Added(5).nullable
             \/ x \in Added(10).nullable
    BY UpgradedIs, Nothing DEF Added, Upgrade0001, Upgrade0002, Upgrade0005, Upgrade0010, TaskModel
  <2>3. \A x \in TaskModel.unique :
          /\ x[1] = "tasks"
          /\ x \in Added(7).unique
    BY AddedBeside DEF Numbers, TaskModel
  <2>4. \A x \in TaskModel.refs :
          /\ x[1] = "tasks"
          /\ x \in Added(1).refs \/ x \in Added(10).refs
    BY UpgradedIs, Nothing DEF Added, Upgrade0001, Upgrade0010, TaskModel
  <2> QED
    BY <2>1, <2>2, <2>3, <2>4, StaysOnceAdded DEF Provided, TaskModel
<1>6. Provided(InviteModel)
  <2>1. \A x \in InviteModel.required :
          /\ x[1] = "invites"
          /\ x \in Added(4).required
    BY UpgradedIs, Nothing DEF Added, Upgrade0004, InviteModel
  <2>2. \A x \in InviteModel.nullable :
          /\ x[1] = "invites"
          /\ x \in Added(4).nullable
    BY UpgradedIs, Nothing DEF Added, Upgrade0004, InviteModel
  <2>3. \A x \in InviteModel.unique :
          /\ x[1] = "invites"
          /\ x \in Added(4).unique
    BY UpgradedIs, Nothing DEF Added, Upgrade0004, InviteModel
  <2>4. \A x \in InviteModel.refs :
          /\ x[1] = "invites"
          /\ x \in Added(4).refs
    BY UpgradedIs, Nothing DEF Added, Upgrade0004, InviteModel
  <2> QED
    BY <2>1, <2>2, <2>3, <2>4, StaysOnceAdded DEF Provided, InviteModel
<1>7. Provided(TaskRatingModel)
  <2>1. \A x \in TaskRatingModel.required :
          /\ x[1] = "task_ratings"
          /\ x \in Added(5).required
    BY UpgradedIs, Nothing DEF Added, Upgrade0005, TaskRatingModel
  <2>2. \A x \in TaskRatingModel.nullable :
          /\ x[1] = "task_ratings"
          /\ x \in Added(5).nullable
    BY UpgradedIs, Nothing DEF Added, Upgrade0005, TaskRatingModel
  <2>3. \A x \in TaskRatingModel.unique :
          /\ x[1] = "task_ratings"
          /\ x \in Added(5).unique
    BY UpgradedIs, Nothing DEF Added, Upgrade0005, TaskRatingModel
  <2>4. \A x \in TaskRatingModel.refs :
          /\ x[1] = "task_ratings"
          /\ x \in Added(5).refs
    BY UpgradedIs, Nothing DEF Added, Upgrade0005, TaskRatingModel
  <2>5. <<"task_ratings", "score_range", "0_to_100">> \in Added(5).checks
    BY UpgradedIs, Nothing DEF Added, Upgrade0005, TaskRatingModel
  <2>6. Stays("checks", <<"task_ratings", "score_range", "0_to_100">>)
    BY <2>5, StaysOnceAdded
  <2>7. \A x \in TaskRatingModel.checks : Checked(x)
    BY <2>6, CheckStays DEF TaskRatingModel
  <2> QED
    BY <2>1, <2>2, <2>3, <2>4, <2>7, StaysOnceAdded DEF Provided, TaskRatingModel
<1>8. Provided(TaskCommentModel)
  <2>1. \A x \in TaskCommentModel.required :
          /\ x[1] = "task_comments"
          /\ x \in Added(8).required
    BY UpgradedIs, Nothing DEF Added, Upgrade0008, TaskCommentModel
  <2>2. \A x \in TaskCommentModel.nullable :
          /\ x[1] = "task_comments"
          /\ x \in Added(8).nullable
    BY UpgradedIs, Nothing DEF Added, Upgrade0008, TaskCommentModel
  <2>3. \A x \in TaskCommentModel.refs :
          /\ x[1] = "task_comments"
          /\ x \in Added(8).refs
    BY UpgradedIs, Nothing DEF Added, Upgrade0008, TaskCommentModel
  <2> QED
    BY <2>1, <2>2, <2>3, StaysOnceAdded DEF Provided, TaskCommentModel
<1>9. Provided(TaskRelationModel)
  <2>1. \A x \in TaskRelationModel.required :
          /\ x[1] = "task_relations"
          /\ x \in Added(9).required
    BY UpgradedIs, Nothing DEF Added, Upgrade0009, TaskRelationModel
  <2>2. \A x \in TaskRelationModel.unique :
          /\ x[1] = "task_relations"
          /\ x \in Added(9).unique
    BY UpgradedIs, Nothing DEF Added, Upgrade0009, TaskRelationModel
  <2>3. \A x \in TaskRelationModel.refs :
          /\ x[1] = "task_relations"
          /\ x \in Added(9).refs
    BY UpgradedIs, Nothing DEF Added, Upgrade0009, TaskRelationModel
  <2>4. <<"task_relations", "task_relations_no_self_link", "two_tasks">> \in Added(9).checks
    BY UpgradedIs, Nothing DEF Added, Upgrade0009, TaskRelationModel
  <2>5. Stays("checks", <<"task_relations", "task_relations_no_self_link", "two_tasks">>)
    BY <2>4, StaysOnceAdded
  <2>6. \A x \in TaskRelationModel.checks : Checked(x)
    BY <2>5, CheckStays DEF TaskRelationModel
  <2> QED
    BY <2>1, <2>2, <2>3, <2>6, StaysOnceAdded DEF Provided, TaskRelationModel
<1>10. Provided(ProjectModel)
  <2>1. \A x \in ProjectModel.required :
          /\ x[1] = "projects"
          /\ x \in Added(10).required
    BY UpgradedIs, Nothing DEF Added, Upgrade0010, ProjectModel
  <2>2. \A x \in ProjectModel.nullable :
          /\ x[1] = "projects"
          /\ x \in Added(10).nullable
    BY UpgradedIs, Nothing DEF Added, Upgrade0010, ProjectModel
  <2>3. \A x \in ProjectModel.unique :
          /\ x[1] = "projects"
          /\ x \in Added(10).unique
    BY UpgradedIs, Nothing DEF Added, Upgrade0010, ProjectModel
  <2>4. \A x \in ProjectModel.refs :
          /\ x[1] = "projects"
          /\ x \in Added(10).refs
    BY UpgradedIs, Nothing DEF Added, Upgrade0010, ProjectModel
  <2> QED
    BY <2>1, <2>2, <2>3, <2>4, StaysOnceAdded DEF Provided, ProjectModel
<1>11. Provided(TaskActivityModel)
  <2>1. \A x \in TaskActivityModel.required :
          /\ x[1] = "task_activities"
          /\ x \in Added(11).required
    BY UpgradedIs, Nothing DEF Added, Upgrade0011, TaskActivityModel
  <2>2. \A x \in TaskActivityModel.nullable :
          /\ x[1] = "task_activities"
          /\ x \in Added(11).nullable
    BY UpgradedIs, Nothing DEF Added, Upgrade0011, TaskActivityModel
  <2>3. \A x \in TaskActivityModel.refs :
          /\ x[1] = "task_activities"
          /\ x \in Added(11).refs
    BY UpgradedIs, Nothing DEF Added, Upgrade0011, TaskActivityModel
  <2> QED
    BY <2>1, <2>2, <2>3, StaysOnceAdded DEF Provided, TaskActivityModel
<1>12. Provided(TaskRequestModel)
  <2>1. \A x \in TaskRequestModel.required :
          /\ x[1] = "task_requests"
          /\ x \in Added(15).required
    BY UpgradedIs, Nothing DEF Added, Upgrade0015, TaskRequestModel
  <2>2. \A x \in TaskRequestModel.nullable :
          /\ x[1] = "task_requests"
          /\ x \in Added(15).nullable
    BY UpgradedIs, Nothing DEF Added, Upgrade0015, TaskRequestModel
  <2>3. \A x \in TaskRequestModel.refs :
          /\ x[1] = "task_requests"
          /\ x \in Added(15).refs
    BY UpgradedIs, Nothing DEF Added, Upgrade0015, TaskRequestModel
  <2> QED
    BY <2>1, <2>2, <2>3, StaysOnceAdded DEF Provided, TaskRequestModel
<1>13. Provided(UserModel)
  <2>1. \A x \in UserModel.required :
          /\ x[1] = "users"
          /\ x \in Added(17).required \/ x \in Added(26).required \/ x \in Added(28).required
    BY UpgradedIs, Nothing DEF Added, Upgrade0017, Upgrade0026, Upgrade0028, UserModel
  <2>2. \A x \in UserModel.nullable :
          /\ x[1] = "users"
          /\ x \in Added(17).nullable \/ x \in Added(28).nullable
    BY UpgradedIs, Nothing DEF Added, Upgrade0017, Upgrade0028, UserModel
  <2>3. \A x \in UserModel.unique :
          /\ x[1] = "users"
          /\ x \in Added(17).unique
    BY UpgradedIs, Nothing DEF Added, Upgrade0017, UserModel
  <2>4. <<"users", "users_at_least_one_secret", "password_or_oauth_identity">> \in Added(17).checks
    BY UpgradedIs, Nothing DEF Added, Upgrade0017, UserModel
  <2>5. Stays("checks", <<"users", "users_at_least_one_secret", "password_or_oauth_identity">>)
    BY <2>4, StaysOnceAdded
  <2>6. \A x \in UserModel.checks : Checked(x)
    BY <2>5, CheckStays DEF UserModel
  <2> QED
    BY <2>1, <2>2, <2>3, <2>6, StaysOnceAdded DEF Provided, UserModel
<1>14. Provided(NotificationModel)
  <2>1. \A x \in NotificationModel.required :
          /\ x[1] = "notifications"
          /\ x \in Added(19).required
    BY UpgradedIs, Nothing DEF Added, Upgrade0019, NotificationModel
  <2>2. \A x \in NotificationModel.nullable :
          /\ x[1] = "notifications"
          /\ x \in Added(19).nullable
    BY UpgradedIs, Nothing DEF Added, Upgrade0019, NotificationModel
  <2>3. \A x \in NotificationModel.refs :
          /\ x[1] = "notifications"
          /\ x \in Added(19).refs
    BY UpgradedIs, Nothing DEF Added, Upgrade0019, NotificationModel
  <2> QED
    BY <2>1, <2>2, <2>3, StaysOnceAdded DEF Provided, NotificationModel
<1>15. Provided(DepartmentModel)
  <2>1. \A x \in DepartmentModel.required :
          /\ x[1] = "departments"
          /\ x \in Added(20).required
    BY UpgradedIs, Nothing DEF Added, Upgrade0020, DepartmentModel
  <2>2. \A x \in DepartmentModel.nullable :
          /\ x[1] = "departments"
          /\ x \in Added(20).nullable \/ x \in Added(22).nullable
    BY UpgradedIs, Nothing, AddedBeside DEF Added, Upgrade0020, Heads, DepartmentModel
  <2>3. \A x \in DepartmentModel.unique :
          /\ x[1] = "departments"
          /\ x \in Added(20).unique \/ x \in Added(23).unique
    BY UpgradedIs, Nothing DEF Added, Upgrade0020, Upgrade0023, DepartmentModel
  <2>4. \A x \in DepartmentModel.refs :
          /\ x[1] = "departments"
          /\ x \in Added(20).refs \/ x \in Added(22).refs
    BY UpgradedIs, Nothing, AddedBeside DEF Added, Upgrade0020, Heads, DepartmentModel
  <2> QED
    BY <2>1, <2>2, <2>3, <2>4, StaysOnceAdded DEF Provided, DepartmentModel
<1>16. Provided(AuditLogModel)
  <2>1. \A x \in AuditLogModel.required :
          /\ x[1] = "audit_logs"
          /\ x \in Added(21).required
    BY AddedBeside DEF Audits, AuditLogModel
  <2>2. \A x \in AuditLogModel.nullable :
          /\ x[1] = "audit_logs"
          /\ x \in Added(21).nullable
    BY AddedBeside DEF Audits, AuditLogModel
  <2>3. \A x \in AuditLogModel.refs :
          /\ x[1] = "audit_logs"
          /\ x \in Added(21).refs
    BY AddedBeside DEF Audits, AuditLogModel
  <2> QED
    BY <2>1, <2>2, <2>3, StaysOnceAdded DEF Provided, AuditLogModel
<1>17. Provided(AgentApiKeyModel)
  <2>1. \A x \in AgentApiKeyModel.required :
          /\ x[1] = "agent_api_keys"
          /\ x \in Added(29).required
    BY AddedBeside DEF AgentKeys, AgentApiKeyModel
  <2>2. \A x \in AgentApiKeyModel.nullable :
          /\ x[1] = "agent_api_keys"
          /\ x \in Added(29).nullable
    BY AddedBeside DEF AgentKeys, AgentApiKeyModel
  <2>3. \A x \in AgentApiKeyModel.unique :
          /\ x[1] = "agent_api_keys"
          /\ x \in Added(29).unique
    BY AddedBeside DEF AgentKeys, AgentApiKeyModel
  <2>4. \A x \in AgentApiKeyModel.refs :
          /\ x[1] = "agent_api_keys"
          /\ x \in Added(29).refs
    BY AddedBeside DEF AgentKeys, AgentApiKeyModel
  <2> QED
    BY <2>1, <2>2, <2>3, <2>4, StaysOnceAdded DEF Provided, AgentApiKeyModel
<1>18. Provided(Enums)
  BY DEF Provided, Enums
<1> QED
  BY <1>1, <1>2, <1>3, <1>4, <1>5, <1>6, <1>7, <1>8, <1>9, <1>10, <1>11, <1>12, <1>13, <1>14,
     <1>15, <1>16, <1>17, <1>18 DEF Parts

(***************************************************************************)
(* Labels that last: none of the later revisions replaces their type.      *)
(***************************************************************************)
Retypes(v, type) ==
  \/ v = 7 /\ type = "task_status"
  \/ v \in {18, 21} /\ type = "member_role"
  \/ v = 22 /\ type = "team_role"

LEMMA LabelStays ==
  ASSUME NEW v \in 1..30, NEW s, DOMAIN s = Fields, NEW l \in s.labels, ~Retypes(v, l[1])
  PROVE  l \in Upgraded(s, v).labels
<1>1. CASE v \in {7, 18, 21, 22}
  <2>1. CASE v = 7
    BY <2>1, ReplacesLabels DEF Replaces, Retypes
  <2>2. CASE v = 18
    BY <2>2, ReplacesLabels DEF Replaces, Retypes
  <2>3. CASE v = 21
    <3>1. PICK names :
            names = (Labels(s, "member_role") \ {"WORKSPACE_MEMBER"}) \cup {"WORKSPACE_USER"}
      OBVIOUS
    <3>2. Replaces(s, Upgraded(s, 21), "member_role", names)
      BY <3>1, ReplacesLabels
    <3> QED
      BY <2>3, <3>2 DEF Replaces, Retypes
  <2>4. CASE v = 22
    BY <2>4, ReplacesLabels DEF Replaces, Retypes
  <2> QED
    BY <1>1, <2>1, <2>2, <2>3, <2>4
<1>2. CASE v \in {2, 3, 4, 9, 10, 12, 14, 19, 30}
  BY <1>2, ExtendsLabels DEF Extends
<1>3. CASE v = 1
  BY <1>3, UpgradedIs, PlusLabels DEF Upgrade0001
<1>4. CASE v \notin {1, 2, 3, 4, 7, 9, 10, 12, 14, 18, 19, 21, 22, 30}
  BY <1>4, KeepsLabels
<1> QED
  BY <1>1, <1>2, <1>3, <1>4

LEMMA LabelLasts ==
  ASSUME NEW u \in 0..30, NEW w \in u..30, NEW l \in SchemaAt[u].labels,
         \A v \in (u + 1)..w : ~Retypes(v, l[1])
  PROVE  l \in SchemaAt[w].labels
<1>1. PICK T : T = {v \in u..w : l \notin SchemaAt[v].labels}
  OBVIOUS
<1>2. SUFFICES ASSUME T # {} PROVE FALSE
  BY <1>1
<1>3. PICK n \in T : \A m \in T : n <= m
  <2>1. T \subseteq Nat
    BY <1>1
  <2> QED
    BY <1>2, <2>1, LeastNumber
<1>4. n \in (u + 1)..w /\ n \in 1..30 /\ n - 1 \in u..w /\ n - 1 \notin T
  BY <1>1, <1>3
<1>5. PICK s : s = SchemaAt[n - 1]
  OBVIOUS
<1>6. l \in s.labels /\ ~Retypes(n, l[1])
  BY <1>1, <1>4, <1>5
<1>7. DOMAIN s = Fields /\ SchemaAt[n] = Upgraded(s, n)
  BY <1>4, <1>5, SchemaSteps, MadeAtRevisions DEF Made
<1> QED
  BY <1>1, <1>3, <1>4, <1>6, <1>7, LabelStays

\* The labels as the revisions that bring them leave them.
LEMMA LabelsBrought ==
  /\ Of("member_type", {"HUMAN", "AGENT"}) \subseteq SchemaAt[1].labels
  /\ Of("oauth_provider", {"GOOGLE", "GITHUB"}) \subseteq SchemaAt[3].labels
  /\ Of("task_status", Basic) \subseteq SchemaAt[7].labels
  /\ Of("task_relation_type", {"BLOCKS", "MITIGATES", "DUPLICATES", "RELATES_TO"})
       \subseteq SchemaAt[9].labels
  /\ Of("project_status", {"ACTIVE", "ARCHIVED"}) \subseteq SchemaAt[10].labels
  /\ Of("task_status", {"IN_REVIEW"}) \subseteq SchemaAt[14].labels
  /\ Of("notification_type", {"MENTION_TASK", "MENTION_COMMENT"}) \subseteq SchemaAt[19].labels
  /\ Of("member_role", {"WORKSPACE_OWNER", "WORKSPACE_ADMIN", "WORKSPACE_USER"})
       \subseteq SchemaAt[21].labels
  /\ Of("team_role", {"MANAGER", "LEAD", "MEMBER"}) \subseteq SchemaAt[22].labels
  /\ Of("notification_type", {"CROSS_TEAM_REQUEST"}) \subseteq SchemaAt[30].labels
<1>0. ASSUME NEW v \in 1..30
      PROVE  \E s : DOMAIN s = Fields /\ s = SchemaAt[v - 1] /\ SchemaAt[v] = Upgraded(s, v)
  BY SchemaSteps, MadeAtRevisions DEF Made
<1>1. Of("member_type", {"HUMAN", "AGENT"}) \subseteq SchemaAt[1].labels
  <2>1. PICK s : DOMAIN s = Fields /\ SchemaAt[1] = Upgraded(s, 1)
    BY <1>0
  <2> QED
    BY <2>1, UpgradedIs, PlusLabels DEF Upgrade0001
<1>3. Of("oauth_provider", {"GOOGLE", "GITHUB"}) \subseteq SchemaAt[3].labels
  <2>1. PICK s : DOMAIN s = Fields /\ SchemaAt[3] = Upgraded(s, 3)
    BY <1>0
  <2> QED
    BY <2>1, ExtendsLabels DEF Extends, Of
<1>7. Of("task_status", Basic) \subseteq SchemaAt[7].labels
  <2>1. PICK s : DOMAIN s = Fields /\ SchemaAt[7] = Upgraded(s, 7)
    BY <1>0
  <2>2. Replaces(s, Upgraded(s, 7), "task_status", Basic)
    BY <2>1, ReplacesLabels
  <2> QED
    BY <2>1, <2>2 DEF Replaces, Of
<1>9. Of("task_relation_type", {"BLOCKS", "MITIGATES", "DUPLICATES", "RELATES_TO"})
        \subseteq SchemaAt[9].labels
  <2>1. PICK s : DOMAIN s = Fields /\ SchemaAt[9] = Upgraded(s, 9)
    BY <1>0
  <2> QED
    BY <2>1, ExtendsLabels DEF Extends, Of
<1>10. Of("project_status", {"ACTIVE", "ARCHIVED"}) \subseteq SchemaAt[10].labels
  <2>1. PICK s : DOMAIN s = Fields /\ SchemaAt[10] = Upgraded(s, 10)
    BY <1>0
  <2> QED
    BY <2>1, ExtendsLabels DEF Extends, Of
<1>14. Of("task_status", {"IN_REVIEW"}) \subseteq SchemaAt[14].labels
  <2>1. PICK s : DOMAIN s = Fields /\ SchemaAt[14] = Upgraded(s, 14)
    BY <1>0
  <2> QED
    BY <2>1, ExtendsLabels DEF Extends, Of
<1>19. Of("notification_type", {"MENTION_TASK", "MENTION_COMMENT"}) \subseteq SchemaAt[19].labels
  <2>1. PICK s : DOMAIN s = Fields /\ SchemaAt[19] = Upgraded(s, 19)
    BY <1>0
  <2> QED
    BY <2>1, ExtendsLabels DEF Extends, Of
<1>21. Of("member_role", {"WORKSPACE_OWNER", "WORKSPACE_ADMIN", "WORKSPACE_USER"})
         \subseteq SchemaAt[21].labels
  <2>1. PICK a : DOMAIN a = Fields /\ SchemaAt[18] = Upgraded(a, 18)
    BY <1>0
  <2>2. Replaces(a, Upgraded(a, 18), "member_role",
                 {"WORKSPACE_OWNER", "WORKSPACE_ADMIN", "WORKSPACE_MEMBER"})
    BY <2>1, ReplacesLabels
  <2>3. ASSUME NEW n \in {"WORKSPACE_OWNER", "WORKSPACE_ADMIN"}
        PROVE  <<"member_role", n>> \in SchemaAt[20].labels
    <3>1. PICK l : l = <<"member_role", n>>
      OBVIOUS
    <3>2. l \in SchemaAt[18].labels
      BY <2>1, <2>2, <3>1 DEF Replaces
    <3>3. \A v \in (18 + 1)..20 : ~Retypes(v, l[1])
      BY <3>1 DEF Retypes
    <3> QED
      BY <3>1, <3>2, <3>3, LabelLasts
  <2>4. PICK s : DOMAIN s = Fields /\ s = SchemaAt[20] /\ SchemaAt[21] = Upgraded(s, 21)
    BY <1>0
  <2>5. PICK names :
          names = (Labels(s, "member_role") \ {"WORKSPACE_MEMBER"}) \cup {"WORKSPACE_USER"}
    OBVIOUS
  <2>6. Replaces(s, Upgraded(s, 21), "member_role", names)
    BY <2>4, <2>5, ReplacesLabels
  <2>7. ASSUME NEW n \in {"WORKSPACE_OWNER", "WORKSPACE_ADMIN", "WORKSPACE_USER"}
        PROVE  n \in names
    <3>1. CASE n = "WORKSPACE_USER"
      BY <2>5, <3>1
    <3>2. CASE n # "WORKSPACE_USER"
      <4>1. PICK l \in s.labels : l = <<"member_role", n>>
        BY <2>3, <2>4, <3>2
      <4>2. l[1] = "member_role" /\ l[2] = n
        BY <4>1
      <4>3. n \in Labels(s, "member_role")
        BY <4>2 DEF Labels
      <4> QED
        BY <2>5, <2>7, <3>2, <4>3
    <3> QED
      BY <3>1, <3>2
  <2> QED
    BY <2>4, <2>6, <2>7 DEF Replaces, Of
<1>22. Of("team_role", {"MANAGER", "LEAD", "MEMBER"}) \subseteq SchemaAt[22].labels
  <2>1. PICK s : DOMAIN s = Fields /\ SchemaAt[22] = Upgraded(s, 22)
    BY <1>0
  <2>2. Replaces(s, Upgraded(s, 22), "team_role", {"MANAGER", "LEAD", "MEMBER"})
    BY <2>1, ReplacesLabels
  <2> QED
    BY <2>1, <2>2 DEF Replaces, Of
<1>30. Of("notification_type", {"CROSS_TEAM_REQUEST"}) \subseteq SchemaAt[30].labels
  <2>1. PICK s : DOMAIN s = Fields /\ SchemaAt[30] = Upgraded(s, 30)
    BY <1>0
  <2> QED
    BY <2>1, ExtendsLabels DEF Extends, Of
<1> QED
  BY <1>1, <1>3, <1>7, <1>9, <1>10, <1>14, <1>19, <1>21, <1>22, <1>30

LEMMA EnumsAtHead == Enums.labels \subseteq SchemaAt[30].labels
<1>1. ASSUME NEW u \in 0..30, NEW type, NEW names, Of(type, names) \subseteq SchemaAt[u].labels,
             \A v \in (u + 1)..30 : ~Retypes(v, type)
      PROVE  Of(type, names) \subseteq SchemaAt[30].labels
  <2>1. SUFFICES ASSUME NEW l \in Of(type, names) PROVE l \in SchemaAt[30].labels
    OBVIOUS
  <2>2. l[1] = type
    BY <2>1 DEF Of
  <2> QED
    BY <1>1, <2>1, <2>2, LabelLasts
<1>2. /\ \A v \in (1 + 1)..30 : ~Retypes(v, "member_type")
      /\ \A v \in (3 + 1)..30 : ~Retypes(v, "oauth_provider")
      /\ \A v \in (7 + 1)..30 : ~Retypes(v, "task_status")
      /\ \A v \in (9 + 1)..30 : ~Retypes(v, "task_relation_type")
      /\ \A v \in (10 + 1)..30 : ~Retypes(v, "project_status")
      /\ \A v \in (14 + 1)..30 : ~Retypes(v, "task_status")
      /\ \A v \in (19 + 1)..30 : ~Retypes(v, "notification_type")
      /\ \A v \in (21 + 1)..30 : ~Retypes(v, "member_role")
      /\ \A v \in (22 + 1)..30 : ~Retypes(v, "team_role")
  BY DEF Retypes
<1>3. /\ Of("member_type", {"HUMAN", "AGENT"}) \subseteq SchemaAt[30].labels
      /\ Of("oauth_provider", {"GOOGLE", "GITHUB"}) \subseteq SchemaAt[30].labels
      /\ Of("task_relation_type", {"BLOCKS", "MITIGATES", "DUPLICATES", "RELATES_TO"})
           \subseteq SchemaAt[30].labels
      /\ Of("project_status", {"ACTIVE", "ARCHIVED"}) \subseteq SchemaAt[30].labels
  BY <1>1, <1>2, LabelsBrought
<1>4. /\ Of("task_status", Basic) \subseteq SchemaAt[30].labels
      /\ Of("task_status", {"IN_REVIEW"}) \subseteq SchemaAt[30].labels
      /\ Of("notification_type", {"MENTION_TASK", "MENTION_COMMENT"}) \subseteq SchemaAt[30].labels
  BY <1>1, <1>2, LabelsBrought
<1>5. /\ Of("member_role", {"WORKSPACE_OWNER", "WORKSPACE_ADMIN", "WORKSPACE_USER"})
           \subseteq SchemaAt[30].labels
      /\ Of("team_role", {"MANAGER", "LEAD", "MEMBER"}) \subseteq SchemaAt[30].labels
      /\ Of("notification_type", {"CROSS_TEAM_REQUEST"}) \subseteq SchemaAt[30].labels
  BY <1>1, <1>2, LabelsBrought
<1>6. \A l \in Enums.labels :
        \/ l \in Of("member_type", {"HUMAN", "AGENT"})
        \/ l \in Of("member_role", {"WORKSPACE_OWNER", "WORKSPACE_ADMIN", "WORKSPACE_USER"})
        \/ l \in Of("team_role", {"MANAGER", "LEAD", "MEMBER"})
        \/ l \in Of("task_status", Basic) \/ l \in Of("task_status", {"IN_REVIEW"})
        \/ l \in Of("oauth_provider", {"GOOGLE", "GITHUB"})
        \/ l \in Of("task_relation_type", {"BLOCKS", "MITIGATES", "DUPLICATES", "RELATES_TO"})
        \/ l \in Of("project_status", {"ACTIVE", "ARCHIVED"})
        \/ l \in Of("notification_type", {"MENTION_TASK", "MENTION_COMMENT"})
        \/ l \in Of("notification_type", {"CROSS_TEAM_REQUEST"})
  BY DEF Enums, Of, Basic
<1> QED
  BY <1>3, <1>4, <1>5, <1>6

LEMMA HeadServes == Serves(SchemaAt[30])
<1>1. PICK h : h = SchemaAt[30]
  OBVIOUS
<1>2. /\ "required" \in Items \cap Fields /\ "nullable" \in Items \cap Fields
      /\ "unique" \in Items \cap Fields /\ "refs" \in Items \cap Fields
      /\ "checks" \in Items \cap Fields /\ "labels" \in Fields
  BY DEF Items, Fields
<1>3. \A f \in Items : \A x : x \in h[f] <=> Stays(f, x)
  BY <1>1, GatheredAtRevisions DEF Gathered, Stays
<1>4. \A f \in Items : \A x \in h[f] : Declared(f, x)
  <2>1. \A v \in 1..30 : AllDeclared(Added(v))
    BY AddedIsDeclared
  <2> QED
    BY <1>3, <2>1 DEF Stays, AllDeclared
<1>5. ASSUME NEW f \in {"required", "nullable", "unique", "refs"}, NEW x \in ModelSchema[f]
      PROVE  x \in h[f]
  <2>1. PICK p \in Parts : f \in DOMAIN p /\ x \in p[f]
    BY <1>2, <1>5, PartsOfModels
  <2>2. Stays(f, x)
    BY <1>5, <2>1, ModelsAreProvided DEF Provided
  <2> QED
    BY <1>2, <1>3, <1>5, <2>2
<1>6. ASSUME NEW x \in ModelSchema.checks
      PROVE  x \in {<<c[1], c[3]>> : c \in h.checks}
  <2>1. PICK p \in Parts : "checks" \in DOMAIN p /\ x \in p.checks
    BY <1>2, <1>6, PartsOfModels
  <2>2. PICK c : Stays("checks", c) /\ x = <<c[1], c[3]>>
    BY <2>1, ModelsAreProvided DEF Provided, Checked
  <2> QED
    BY <1>2, <1>3, <2>2
<1>7. ASSUME NEW x \in ModelSchema.labels
      PROVE  x \in h.labels
  <2>1. PICK p \in Parts : "labels" \in DOMAIN p /\ x \in p.labels
    BY <1>2, <1>7, PartsOfModels
  <2>2. p = Enums
    BY <2>1
       DEF Parts, UserModel, WorkspaceModel, DepartmentModel, TeamModel, ProjectModel,
           MemberModel, CredentialsModel, AgentApiKeyModel, TaskModel, InviteModel,
           TaskActivityModel, TaskCommentModel, TaskRequestModel, TaskRelationModel,
           TaskRatingModel, NotificationModel, AuditLogModel
  <2> QED
    BY <1>1, <2>1, <2>2, EnumsAtHead
<1>8. h.required = ModelSchema.required /\ h.nullable = ModelSchema.nullable
  BY <1>2, <1>4, <1>5 DEF Declared
<1>9. h.refs = ModelSchema.refs
  BY <1>2, <1>4, <1>5 DEF Declared
<1>10. {<<c[1], c[3]>> : c \in h.checks} = ModelSchema.checks
  BY <1>2, <1>4, <1>6 DEF Declared
<1> QED
  BY <1>1, <1>2, <1>5, <1>7, <1>8, <1>9, <1>10 DEF Serves

(***************************************************************************)
(* A database at the head serves the models, whichever way it came there:  *)
(* it has every column, reference, check, key and label that models.py     *)
(* declares, and requires no column that the program does not write.       *)
(***************************************************************************)
THEOREM HeadAlwaysServesModels == Spec => []HeadServesModels
<1>1. Rests => HeadServesModels
  <2>1. SUFFICES ASSUME Rests, version = 30 PROVE Serves(schema)
    BY DEF HeadServesModels, Latest
  <2>2. /\ \A f \in Items : schema[f] = SchemaAt[30][f]
        /\ SchemaAt[30].labels \subseteq schema.labels
    BY <2>1 DEF Rests, Covers
  <2>3. /\ schema.required = SchemaAt[30].required /\ schema.nullable = SchemaAt[30].nullable
        /\ schema.unique = SchemaAt[30].unique /\ schema.refs = SchemaAt[30].refs
        /\ schema.checks = SchemaAt[30].checks
    BY <2>2 DEF Items, Fields
  <2> QED
    BY <2>2, <2>3, HeadServes DEF Serves
<1> QED
  BY AlwaysRests, <1>1, PTL
=============================================================================
