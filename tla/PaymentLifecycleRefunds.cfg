CONSTANTS
  stripe = stripe
  domestic = domestic
  f1 = f1
  f2 = f2
  f3 = f3
  paid1 = paid1
  made1 = made1
  charged1 = charged1
  made2 = made2
  paid2 = paid2
  again2 = again2
  made3 = made3
  Intents = {stripe}
  Domestic = {}
  Amount <- Amounts
  Refunds = {f1}
  Returns <- ReturnsOf
  Events = {paid1, made1}
  Announces <- Announcements
  MaxDeliveries = 2
SPECIFICATION PaymentSpec
INVARIANT ReversedOnce
CHECK_DEADLOCK FALSE
