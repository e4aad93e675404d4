-------------------------- MODULE MCDraftActivation --------------------------
(* Small instances of DraftActivation: drafts that fail, that only run,    *)
(* and that may become official.                                           *)
EXTENDS DraftActivation

CONSTANTS t1, t2, broken, partial, full, full2

OneTab == {t1}
Nobody == {}
TheOther == {t2}
TwoTabs == {t1, t2}
ThreeDrafts == {broken, partial, full}
ThatRun == {partial, full}
ThatAreComplete == {full}
TwoFullDrafts == {full, full2}
FourDrafts == {broken, partial, full, full2}
ThoseRun == {partial, full, full2}
ReviewPerTab == [t \in TwoTabs |-> t]
=============================================================================
