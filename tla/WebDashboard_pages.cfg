\* Two archives, three saves of settings, another client's included, two devices and
\* three keys, two uploads of a logo; one mishap on a page.
SPECIFICATION DashboardSpec
CONSTANTS
    MaxArchives = 2
    MaxMishaps = 1
    originalDownloads = TRUE
    MaxSaves = 3
    MaxDevices = 2
    MaxKeys = 3
    TextFields = {"businessName"}
    MaxUploads = 2
    MaxAssets = 2
    MaxAccidents = 1
INVARIANTS ExportNeverStuck SettingsFitTogether RotatedKeyWorks LogoIsStored
PROPERTY ExportSettles
CHECK_DEADLOCK FALSE
