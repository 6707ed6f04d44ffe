\* Six lines: both packages filled, a link and two statements, or two sections.
CONSTANTS
  wifi = wifi
  bt = bt
  Ignore = Ignore
  drv = drv
  other = other
  blob = blob
  chip = chip
  link = link
  vendor = vendor
  notice = notice
  gpl = gpl
  odd = odd
  sV = sV
  sG = sG
  Driver = {drv, other}
  Path = {blob, chip, link}
  Vendor = {vendor, notice}
  Notices = {notice}
  Word = {gpl, odd}
  Upstream = {vendor, notice, gpl}
  Family <- MCFamily
  DriversOf <- MCDriversOf
  PathsOf <- MCPathsOf
  LicenceId <- MCLicenceId
  Free <- MCFree
  Declarations <- MCDeclarations
  Lines <- MCLines
  MaxLines = 6
SPECIFICATION Spec
INVARIANTS Attributed AcceptedRelease
CHECK_DEADLOCK FALSE
