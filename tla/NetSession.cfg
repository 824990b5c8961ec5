\* Two users and two clients; a client can be started again, the server once.
\* Four requests: two logins and two friend requests, or a login and three more.
CONSTANTS
  Users = {a, b}
  Clients = {c1, c2}
  MaxStarts = 2
  MaxClicks = 4
  MaxCrashes = 1
SPECIFICATION Spec
SYMMETRY Symmetry
INVARIANTS OneSession ClientIsItsSession FriendsAgreed
PROPERTIES LockedOut
CHECK_DEADLOCK FALSE
