------------------------------ MODULE ActRoles ------------------------------
(***************************************************************************)
(* Who may do what with an act, as functions of the roles a person holds   *)
(* today (`held`, a set of role codes) and of the workshops of the act's   *)
(* defects (`shops`).  These are the pure rules of acts/permissions.py and *)
(* acts/workshops.py; nothing here has state.                              *)
(***************************************************************************)

\* UserProfile.Role: the roles some rule of the act route reads.
KoRoles == {"ko", "ko_mp", "ko_tr", "ko_pir"}
ToRoles == {"to", "to_mp", "to_rl", "to_tr"}
MasterRoles == {"mas", "mas_pir", "mas_mp_rl", "mas_tr"}
Roles == KoRoles \cup ToRoles \cup MasterRoles \cup {"otk", "manager", "admin"}

\* ActDefect.Workshop.  "" is a defect recorded before the choice was required.
Workshops == {"MP_SHOP", "PIR_SHOP", "RL_SHOP", ""}

WorkshopKoRole == [MP_SHOP |-> "ko_mp", PIR_SHOP |-> "ko_pir"]
WorkshopToRole == [MP_SHOP |-> "to_mp", RL_SHOP |-> "to_rl"]

HasFullActAccess(held) == held \cap {"manager", "admin"} # {}

IsKo(held) == held \cap KoRoles # {}
IsTo(held) == held \cap ToRoles # {}

\* Only an act whose defects are all of a combined_to workshop takes the short
\* route, where the technologist decides the defects and analyses them at once.
UsesCombinedTo(shops) == shops = {"RL_SHOP"}

-----------------------------------------------------------------------------
\* Deciding one defect, as the permission check asks it of one person ...
CanDecideDefect(shop, held) ==
    \/ HasFullActAccess(held) \/ "ko" \in held
    \/ shop = "" /\ IsKo(held)
    \/ shop \in DOMAIN WorkshopKoRole /\ WorkshopKoRole[shop] \in held

\* ... and as the routing of queue entries asks it, for a set of roles.
KoRolesForDefect(shop) ==
    IF shop \in DOMAIN WorkshopKoRole THEN {"ko", WorkshopKoRole[shop]} ELSE KoRoles

KoRolesFor(shops) == UNION {KoRolesForDefect(shop) : shop \in shops}

KoRolesForAct(shops) == IF shops = {} THEN KoRoles ELSE KoRolesFor(shops)

HasKoShare(shops, held) ==
    shops = {} \/ \E shop \in shops : CanDecideDefect(shop, held)

-----------------------------------------------------------------------------
\* The same two questions about the technologists.
ToRolesForAct(shops) ==
    {"to"} \cup {WorkshopToRole[shop] : shop \in shops \cap DOMAIN WorkshopToRole}

HasToShare(shops, held) ==
    \/ HasFullActAccess(held) \/ "to" \in held
    \/ \E shop \in shops \cap DOMAIN WorkshopToRole : WorkshopToRole[shop] \in held

-----------------------------------------------------------------------------
WorkshopMaster ==
    [MP_SHOP |-> "mas_mp_rl", RL_SHOP |-> "mas_mp_rl", PIR_SHOP |-> "mas_pir"]

\* act_print_recipient_roles: OTK, the retired general master, and the masters
\* of the act's workshops, or all of them when a workshop is not recorded.
ActPrintRecipientRoles(shops) ==
    {"otk", "mas"} \cup
    IF shops # {} /\ shops \subseteq DOMAIN WorkshopMaster
    THEN {WorkshopMaster[shop] : shop \in shops} ELSE MasterRoles

=============================================================================
