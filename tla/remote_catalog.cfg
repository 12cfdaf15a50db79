SPECIFICATION CatalogFairSpec
CONSTANTS
  Servers = {s}
  Texts = {v, w}
  Nobody = Nobody
PROPERTIES
  ProfilesAreFollowed
  NoEditIsLost
