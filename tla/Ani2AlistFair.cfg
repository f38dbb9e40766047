\* A season and the feed on one storage, failing requests, edits by hand.
SPECIFICATION FairSpec
CONSTANTS
  season = season
  feed = feed
  Seasons <- MCSeasons
  Feeds <- MCFeeds
  Key <- MCKey
  Items <- MCItems
  Texts <- MCTexts
  MaxEvents = 2
PROPERTIES KeepsWhatItRead Published
