CONSTANTS
  poll = poll
  web = web
  home = home
  Poller = poll
  Web = {web}
  Home = {home}
  Temps = {16}
  Speeds = {60}
  WebParams <- MCWebParams
  Rooms = {24}
  MaxFailures = 1
  MaxChanges = 1
  MaxWrites = 1
SPECIFICATION ClimateSpec
PROPERTIES
  OffIsRead
