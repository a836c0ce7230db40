---------------------------- MODULE Permissions -----------------------------
(***************************************************************************)
(* The permissions a token carries (pkg/auth/permissions.go): bits, kept   *)
(* here as a set, and the names a client asks for them by.                 *)
(***************************************************************************)

PREFERENCE_MANAGER ==
  {"CREATE_PREFERENCE", "UPDATE_PREFERENCE", "DELETE_PREFERENCE"}

DEFAULT_PERMISSIONS ==
  {"CREATE_PROFILE", "READ_PROFILE", "CREATE_BLOQ", "UPDATE_BLOQ",
   "CREATE_OFFER", "CREATE_ORDER", "DELETE_ORDER"}

Permission ==
  PREFERENCE_MANAGER \cup DEFAULT_PERMISSIONS \cup
  {"UPDATE_PROFILE", "DELETE_PROFILE", "DELETE_BLOQ", "UPDATE_OFFER",
   "DELETE_OFFER"}

NIL == {}

\* What each name stands for.  As in the code, "read_profile" stands for
\* CREATE_PROFILE: no name but "default" stands for READ_PROFILE.
Permissions ==
  [create_bloq    |-> {"CREATE_BLOQ"},
   update_bloq    |-> {"UPDATE_BLOQ"},
   delete_bloq    |-> {"DELETE_BLOQ"},
   create_offer   |-> {"CREATE_OFFER"},
   update_offer   |-> {"UPDATE_OFFER"},
   delete_offer   |-> {"DELETE_OFFER"},
   create_order   |-> {"CREATE_ORDER"},
   delete_order   |-> {"DELETE_ORDER"},
   create_profile |-> {"CREATE_PROFILE"},
   read_profile   |-> {"CREATE_PROFILE"},
   update_profile |-> {"UPDATE_PROFILE"},
   delete_profile |-> {"DELETE_PROFILE"},
   default        |-> DEFAULT_PERMISSIONS]

SuperPermissions ==
  [create_preference |-> {"CREATE_PREFERENCE"},
   update_preference |-> {"UPDATE_PREFERENCE"},
   delete_preference |-> {"DELETE_PREFERENCE"}]

\* The names on the list of a super user, or of anyone else.
GetPermissionsList(super) ==
  DOMAIN Permissions \cup IF super THEN DOMAIN SuperPermissions ELSE {}

Meaning(name) ==
  IF name \in DOMAIN SuperPermissions THEN SuperPermissions[name]
                                      ELSE Permissions[name]

\* A log-in that names no permission gets the default ones; otherwise the
\* permissions it names are added up.
Granted(names) ==
  IF names = {} THEN DEFAULT_PERMISSIONS
                ELSE UNION {Meaning(n) : n \in names}

\* VerifyToken: every bit asked for is among the bits of the token.
Allowed(held, needed) == needed \subseteq held
=============================================================================
