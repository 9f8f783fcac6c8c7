\* A buffer of 20 bytes: the longest catalog request just fits, as do two short
\* elements of a page.  Up to 2 pages or chunks,
\* good and damaged.
CONSTANTS
  PacketMax = 20
  AnchorMax = 10
  CountMax = 2
  DownloadMax = 1
  MaxPages = 2
  Platform <- MCPlatform
  Models <- MCModels
  Packages <- MCPackages
  Downloads <- MCDownloads
  Searches <- MCSearches
  Responses <- MCResponses
  TextSize <- MCTextSize
SPECIFICATION HostedSpec
INVARIANTS
  SizeDecided
  PagesShownExactly
  RequestWhole
  InfoExact
  DownloadExact
