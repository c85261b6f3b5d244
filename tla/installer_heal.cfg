CONSTANTS
  i1 = i1
  i2 = i2
  r1 = r1
  r2 = r2
  Instances = {i1}
  Releases = {r1, r2}
  Bad = Bad
  Absent = Absent
  Link = Link
  Malformed = Malformed
SPECIFICATION Spec
PROPERTIES
  Heals
