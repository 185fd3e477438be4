CONSTANT Forms <- AllForms
SPECIFICATION FairSpec
INVARIANTS IndInv RunsAligned
PROPERTIES ContinuesService ServiceFollowsCommand
