---------------------------- MODULE ConfigView ----------------------------
(***************************************************************************)
(* What the local configuration file promises: the stores show the meaning *)
(* of one whole version of the file, move only to later versions that can  *)
(* be used, and reach the last one when it is sure to load.  The services  *)
(* and workloads of a version follow its binds, in a step of their own.    *)
(***************************************************************************)
EXTENDS Integers, Sequences

CONSTANTS ViewContents,        \* what the file may hold
          ViewUsable(_),       \* the content can be loaded
          ViewSure(_),         \* loading it cannot fail
          ViewBinds(_),        \* binds, backends and policies it stands for
          ViewDiscovery(_),    \* services and workloads it stands for
          ViewNothing          \* what is shown before anything is loaded

VARIABLES vhist,     \* the versions of the file so far
          vbinds,    \* shown binds, backends and policies
          vdisc,     \* shown services and workloads
          vat,       \* version of vbinds
          vdat,      \* version of vdisc
          vstopped   \* the file is not, or no longer, followed

viewVars == <<vhist, vbinds, vdisc, vat, vdat, vstopped>>

VInit ==
    /\ vhist \in {<<c>> : c \in ViewContents}
    /\ vbinds = ViewNothing.binds /\ vdisc = ViewNothing.disc
    /\ vat = 0 /\ vdat = 0 /\ vstopped \in BOOLEAN

VWrite ==
    /\ \E c \in ViewContents : vhist' = Append(vhist, c)
    /\ UNCHANGED <<vbinds, vdisc, vat, vdat, vstopped>>

VShow(v) ==
    /\ ~vstopped /\ vdat = vat /\ v >= vat /\ ViewUsable(vhist[v])
    /\ vat' = v /\ vbinds' = ViewBinds(vhist[v])
    /\ UNCHANGED <<vhist, vdisc, vdat, vstopped>>

VFollow ==
    /\ ~vstopped /\ vdat < vat
    /\ vdat' = vat /\ vdisc' = ViewDiscovery(vhist[vat])
    /\ UNCHANGED <<vhist, vbinds, vat, vstopped>>

VStop ==
    /\ vdat = vat
    /\ vstopped' = TRUE /\ UNCHANGED <<vhist, vbinds, vdisc, vat, vdat>>

VNext == VWrite \/ (\E v \in DOMAIN vhist : VShow(v)) \/ VFollow \/ VStop

VShowLast == vat < Len(vhist) /\ ViewSure(vhist[Len(vhist)]) /\ VShow(Len(vhist))

VSpec == /\ VInit /\ [][VNext]_viewVars
         /\ WF_viewVars(VShowLast) /\ WF_viewVars(VFollow)
============================================================================
