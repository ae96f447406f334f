SPECIFICATION Spec
CONSTANTS
  Sessions = {s1, s2}
  Names = {n1}
  MaxPosts = 2
CONSTRAINT FewInterests
SYMMETRY Symmetry
INVARIANT CommittedPostsCount
