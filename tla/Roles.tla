------------------------------- MODULE Roles --------------------------------
(***************************************************************************)
(* The organisation's hierarchy (packages/shared/src/constants): one level *)
(* per kind of unit, two roles per level, and what a role may create and   *)
(* may at most do.  A role is a record, so that parseRole is field access. *)
(***************************************************************************)
EXTENDS FiniteSets

\* ROLE_LEVELS: the levels directly above each level.
ParentLevels ==
  [STATE_HQ          |-> {},
   WING              |-> {"STATE_HQ"},
   ADMINISTRATION_HQ |-> {"STATE_HQ"},
   ADMINISTRATION_IT |-> {"ADMINISTRATION_HQ"},
   RANGE             |-> {"STATE_HQ"},
   DISTRICT          |-> {"RANGE"},
   SP_OFFICE         |-> {"DISTRICT"},
   SUBDIVISION       |-> {"DISTRICT"},
   COMMISSIONERATE   |-> {"STATE_HQ"},
   BRANCH            |-> {"COMMISSIONERATE"},
   SECTOR            |-> {"COMMISSIONERATE"},
   ZONE              |-> {"SECTOR"},
   DIVISION          |-> {"ZONE"},
   STATION           |-> {"SUBDIVISION", "DIVISION"},
   CHOKI             |-> {"STATION"},
   SRPF              |-> {"STATE_HQ"},
   SRPF_GROUP        |-> {"SRPF"},
   GRP               |-> {"STATE_HQ"},
   GRP_DIVISION      |-> {"GRP"},
   MARINE            |-> {"STATE_HQ"},
   MARINE_OUTPOST    |-> {"MARINE"},
   EXTERNAL_UNIT     |-> {"STATE_HQ"}]

Levels == DOMAIN ParentLevels

LevelTier(level) ==
  CASE level \in {"ADMINISTRATION_HQ", "ADMINISTRATION_IT"} -> "OVERSIGHT"
    [] level = "EXTERNAL_UNIT" -> "EXTERNAL"
    [] OTHER -> "OPERATIONAL"

ROLES == [level : Levels, side : {"ADMIN", "OFFICER"}]

adminRole(level)   == [level |-> level, side |-> "ADMIN"]
officerRole(level) == [level |-> level, side |-> "OFFICER"]

childLevelsOf(level) == {l \in Levels : level \in ParentLevels[l]}

\* What a role may create: its own officers, the admins one level below.
createsRolesFor(role) ==
  IF role.side = "ADMIN"
  THEN {officerRole(role.level)}
         \cup {adminRole(l) : l \in childLevelsOf(role.level)}
  ELSE {}

ceilingTierFor(role) ==
  IF LevelTier(role.level) = "OPERATIONAL"
  THEN IF role.side = "ADMIN" THEN "COMMAND" ELSE "OFFICER"
  ELSE LevelTier(role.level)

TOP_OVERSIGHT_ROLES ==
  {adminRole("STATE_HQ"), adminRole("ADMINISTRATION_HQ"),
   officerRole("ADMINISTRATION_HQ")}

CASE_CREATOR_ROLES ==
  {r \in ROLES : ceilingTierFor(r) \in {"COMMAND", "OFFICER"}}

PERMISSIONS == {"VIEW", "UPLOAD", "EDIT", "DOWNLOAD", "SHARE", "COMMENT",
                "SIGN", "VERIFY", "DELETE", "ARCHIVE"}

\* The most a role of each tier can ever do.
TIER_CEILINGS ==
  [COMMAND   |-> PERMISSIONS,
   OFFICER   |-> PERMISSIONS \ {"SHARE", "DELETE", "ARCHIVE"},
   EXTERNAL  |-> {"VIEW", "DOWNLOAD", "COMMENT", "SIGN", "VERIFY"},
   OVERSIGHT |-> {"VIEW", "DOWNLOAD", "COMMENT", "VERIFY"}]

CASE_ROLES == {"OWNER", "INVESTIGATOR", "FORENSIC", "PROSECUTOR", "VIEWER"}

\* What a member of a case may do in it.
CASE_ROLE_ACTIONS ==
  [OWNER        |-> PERMISSIONS,
   INVESTIGATOR |-> PERMISSIONS \ {"DELETE", "ARCHIVE"},
   FORENSIC     |-> PERMISSIONS \ {"SHARE", "DELETE", "ARCHIVE"},
   PROSECUTOR   |-> {"VIEW", "DOWNLOAD", "COMMENT", "SIGN", "VERIFY"},
   VIEWER       |-> {"VIEW", "DOWNLOAD", "VERIFY"}]
=============================================================================
