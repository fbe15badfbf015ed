CONSTANTS
  owner = owner
  r1 = r1
  r2 = r2
  Users = {owner, a}
  Owner = owner
  RoleIds = {r1, r2}
  Admins = {r1}
  Reqs = {q1, q2}
  MaxServed = 2
SPECIFICATION Spec
INVARIANTS
  NoRowInherits
