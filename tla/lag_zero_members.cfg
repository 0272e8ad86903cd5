\* A percentage capacity over a LAG without members yields 0 links.
CONSTANTS
    DefaultLacp = DefaultLacp
    NoLacp = NoLacp
    Caps <- MC_CapsPercent50
    MemberCounts <- MC_FewMembers
SPECIFICATION Spec
INVARIANTS
    MinLinkCountMatchesSpec
