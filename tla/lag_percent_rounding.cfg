\* 28% of 25 members: the double product rounds up past 7.
CONSTANTS
    DefaultLacp = DefaultLacp
    NoLacp = NoLacp
    Caps <- MC_Caps
    MemberCounts <- MC_ManyMembers
SPECIFICATION Spec
INVARIANTS
    MinLinkCountMatchesSpec
