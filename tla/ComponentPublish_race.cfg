SPECIFICATION PublishSpec
CONSTANTS
  Publishers = {p1, p2}
  Digests = {a, b, c}
  NoDigest = none
  MaxVersion = 3
  Downgraders = {}
PROPERTIES NeverOlder
