SPECIFICATION Spec
CONSTANTS
  Boots = {b1}
  Tenants <- LikeTenants
  Asked <- LikeTenants
  MaxInserts = 1
INVARIANT CountsOwnObjects
