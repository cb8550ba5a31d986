SPECIFICATION Spec
CONSTANTS
  t1 = t1
  t2 = t2
  s1 = s1
  me = me
  NULL = NULL
  Callers = {t1, t2}
  Tools <- MCTools
  MaxOps = 6
  MaxPurchases = 1
  MaxFaults = 2
  Me = me
  Owners = {me}
  Skus = {s1}
  Keys <- MCKeys
  Stock <- MCStock
  MaxOrder <- MCStock
  Price <- MCPrice
  Baskets <- MCBasket
CHECK_DEADLOCK FALSE
INVARIANTS BooksAndPurchasesAgree PaidAsAgreed
VIEW MCView
