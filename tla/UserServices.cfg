SPECIFICATION Spec
CONSTANTS
  Phones = {u1, u2}
  Senders = {c1, c2}
  MaxCodes = 2
  MaxDays = 2
  MaxAttempts = 2
  DailyLimit = 1
  IpLimit = 1
  NoCode = NoCode
  AccountPhones = {u1, u2}
  Logins = {c1, c2}
  Preferences = {vegan}
  NoPhone = NoPhone
  Diners = {u1, u2}
  PlanIds = {plan1}
  MenuCalls = {c1, c2}
  NoDiner = NoDiner
  NoPlan = NoPlan
  Keep = Keep
  Ingredients = {egg}
  ShoppingCalls = {c1, c2}
  MaxAmount = 1
  MaxLists = 2
  MaxStamps = 2
  NoItem = NoItem
  ChatRequests = {u1, u2}
  ChatStreams = {c1, c2}
  NoRequest = NoRequest
  ApiUsers = {ann, bob}
  Nobody = Nobody
SYMMETRY Symmetry
CONSTRAINT OnePhoneGuessed
INVARIANTS
  TypeOK
  GuessesBounded
  QuotasExact
  ListsKept
  ApiKept
PROPERTIES
  WithdrawsOwnCode
  AccountsKept
  MenuKept
  ChatKept
CHECK_DEADLOCK FALSE
