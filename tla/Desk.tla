-------------------------------- MODULE Desk --------------------------------
(***************************************************************************)
(* The seller's desk: the parts that neither call each other nor share a   *)
(* store, side by side.  The shipments that are sent in batches, the       *)
(* planners, the upload page, the markets and products of the tenants, and *)
(* the application around the pages.  Each step is a step of one of them.  *)
(***************************************************************************)
EXTENDS Shipments, Planners, UploadForm, Connections, Workspace

deskVars == <<shipmentVars, advice, formVars, connectionVars, workspaceVars>>

DeskInit == ShipmentsInit /\ PlannersInit /\ FormInit /\ ConnectionsInit /\ WorkspaceInit

DeskNext ==
    \/ ShipmentsNext /\ UNCHANGED <<advice, formVars, connectionVars, workspaceVars>>
    \/ PlannersNext /\ UNCHANGED <<shipmentVars, formVars, connectionVars, workspaceVars>>
    \/ FormNext /\ UNCHANGED <<shipmentVars, advice, connectionVars, workspaceVars>>
    \/ ConnectionsNext /\ UNCHANGED <<shipmentVars, advice, formVars, workspaceVars>>
    \/ WorkspaceNext /\ UNCHANGED <<shipmentVars, advice, formVars, connectionVars>>

DeskSpec == DeskInit /\ [][DeskNext]_deskVars

\* The types of the parts.  Those of the planners' answers follow from their questions.
DeskTypeOK == ShipmentsTypeOK /\ FormTypeOK /\ ConnectionsTypeOK /\ WorkspaceTypeOK
=============================================================================
